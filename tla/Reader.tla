------------------------------- MODULE Reader -------------------------------
(***************************************************************************)
(* A Reader of one partition, without a consumer group (reader.go).        *)
(*                                                                         *)
(* FetchMessage takes messages from the channel msgs, which a reader       *)
(* goroutine fills.  SetOffset starts another reader goroutine at another  *)
(* offset, under a new version, and cancels the context of the one before. *)
(* The channel is shared by all the generations of reader goroutines: a    *)
(* message carries the version of the goroutine that sent it, and          *)
(* FetchMessage drops those of a version older than the one it saw.        *)
(*                                                                         *)
(* A message is its offset in the partition.  The nth call to start makes  *)
(* goroutine n.                                                            *)
(***************************************************************************)
EXTENDS Integers, Sequences

CONSTANTS
  Fetchers,          \* the goroutines that call FetchMessage
  Closers,           \* the goroutines that call Close
  SeekTargets,       \* the arguments of SetOffset
  MaxStarts,         \* bound: how often start makes a reader goroutine
  MaxOffset,         \* bound: the partition holds offsets below MaxOffset
  ReportAttempt,     \* the first attempt whose error is reported; 3 in the code
  QueueCapacity,     \* ReaderConfig.QueueCapacity
  AutoOffsetReset,   \* ReaderConfig.AutoOffsetReset
  FetchVersions,     \* the versions of the fetch API that the brokers have, of 2 and 5
  Faults             \* the errors that a request of a reader goroutine may end with

FirstOffset == -2
LastOffset  == -1

\* unknown:  UnknownTopicOrPartition or NotLeaderForPartition
\* kafka:    any other Kafka error code in a fetch response, RequestTimedOut
\*           among them
\* network:  any error that is not Kafka's
AllFaults == {"unknown", "kafka", "network"}

ASSUME ReaderAssumption ==
  /\ MaxStarts \in Nat \ {0}
  /\ MaxOffset \in Nat
  /\ SeekTargets \subseteq FirstOffset .. MaxOffset
  /\ QueueCapacity \in Nat \ {0}
  /\ ReportAttempt \in Nat
  /\ AutoOffsetReset \in {FirstOffset, LastOffset}
  /\ FetchVersions \subseteq {2, 5}
  /\ Faults \subseteq AllFaults

Versions == 1 .. MaxStarts

VARIABLES
  \* the Reader; closes counts the calls of close(r.msgs)
  offset, version, closed, msgs, closes,
  \* the calls to FetchMessage: where they are, the version they saw, the
  \* message they hold
  fpc, seen, held,
  \* the calls to Close: where they are, whether they found the reader closed
  cpc, wasClosed,
  \* the reader goroutines: where they are, whether their context is cancelled,
  \* their version field, their offset, where initialize seeks to or the batch
  \* being sent ends, their connection and their attempt
  rpc, cancelled, tag, at, target, conn, attempt,
  \* the partition: its offsets are logStart .. logEnd - 1
  logStart, logEnd,
  \* history: the offset that the program should get next, the calls to
  \* FetchMessage that no call to SetOffset overlaps, whether any call was
  \* overlapped, and the offset of each version that should leave msgs next
  expected, undisturbed, overlapped, due

fetchVars  == <<fpc, seen, held>>
closeVars  == <<cpc, wasClosed>>
subVars    == <<rpc, cancelled, tag, at, target, conn, attempt>>
logVars    == <<logStart, logEnd>>
histVars   == <<expected, undisturbed, overlapped, due>>
vars == <<offset, version, closed, msgs, closes, fetchVars, closeVars, subVars, logVars, histVars>>

Offsets == FirstOffset .. MaxOffset

\* A readerMessage; the offset of an error is 0.
Item == [version : Versions, offset : 0 .. MaxOffset, error : BOOLEAN]
NoItem == [version |-> 0, offset |-> 0, error |-> FALSE]

\* The variables keep to their types, and the channel to its capacity.
TypeOK ==
  /\ offset \in Offsets
  /\ version \in 0 .. MaxStarts
  /\ closed \in BOOLEAN
  /\ closes \in Nat
  /\ msgs \in Seq(Item) /\ Len(msgs) <= QueueCapacity
  /\ fpc \in [Fetchers -> {"idle", "select", "lock"}]
  /\ seen \in [Fetchers -> 0 .. MaxStarts]
  /\ held \in [Fetchers -> Item \cup {NoItem}]
  /\ cpc \in [Closers -> {"idle", "cancel", "wait", "returned"}]
  /\ wasClosed \in [Closers -> BOOLEAN]
  /\ rpc \in [Versions -> {"unborn", "born", "backoff", "init", "absolute", "report",
                           "sleep", "read", "send", "seek", "error", "spin", "exited"}]
  /\ cancelled \in [Versions -> BOOLEAN]
  /\ tag \in [Versions -> 0 .. MaxStarts]
  /\ at \in [Versions -> Offsets]
  /\ target \in [Versions -> 0 .. MaxOffset]
  /\ conn \in [Versions -> {"nil", "open", "skewed"}]
  /\ attempt \in [Versions -> 0 .. ReportAttempt]
  /\ logStart \in 0 .. MaxOffset /\ logEnd \in logStart .. MaxOffset
  /\ expected \in Offsets
  /\ undisturbed \in [Fetchers -> BOOLEAN]
  /\ overlapped \in BOOLEAN
  /\ due \in [Versions -> Offsets]

Init ==
  /\ offset = FirstOffset /\ version = 0 /\ closed = FALSE
  /\ msgs = <<>> /\ closes = 0
  /\ fpc = [f \in Fetchers |-> "idle"]
  /\ seen = [f \in Fetchers |-> 0]
  /\ held = [f \in Fetchers |-> NoItem]
  /\ cpc = [c \in Closers |-> "idle"]
  /\ wasClosed = [c \in Closers |-> FALSE]
  /\ rpc = [v \in Versions |-> "unborn"]
  /\ cancelled = [v \in Versions |-> FALSE]
  /\ tag = [v \in Versions |-> 0]
  /\ at = [v \in Versions |-> 0]
  /\ target = [v \in Versions |-> 0]
  /\ conn = [v \in Versions |-> "nil"]
  /\ attempt = [v \in Versions |-> 0]
  /\ logStart = 0 /\ logEnd = 0
  /\ expected = FirstOffset
  /\ undisturbed = [f \in Fetchers |-> FALSE]
  /\ overlapped = FALSE
  /\ due = [v \in Versions |-> FirstOffset]

-----------------------------------------------------------------------------
(* The Reader.  Its mutex guards offset, version, closed and cancel: what a
   method does under the mutex is one step.                                *)

\* Mutant of cancel: the goroutine is not stopped.
cancelNothing == cancelled

\* r.cancel is the cancel function of the newest goroutine.
cancel == [v \in Versions |-> cancelled[v] \/ v = version]

\* start, on a reader that is not closed, with the offset o.  The goroutine
\* does not run yet: it reads r.version when it does.
Start(o) ==
  /\ version < MaxStarts
  /\ cancelled' = cancel
  /\ version' = version + 1
  /\ rpc' = [rpc EXCEPT ![version + 1] = "born"]
  /\ at' = [at EXCEPT ![version + 1] = o]
  /\ due' = [due EXCEPT ![version + 1] = o]
  /\ UNCHANGED <<tag, target, conn, attempt>>

\* FetchMessage up to the select.
FetchMessage(f) ==
  /\ fpc[f] = "idle"
  /\ IF ~closed /\ version = 0
       THEN Start(offset)
       ELSE UNCHANGED <<version, subVars, due>>
  /\ seen' = [seen EXCEPT ![f] = version']
  /\ fpc' = [fpc EXCEPT ![f] = "select"]
  /\ undisturbed' = [undisturbed EXCEPT ![f] = TRUE]
  /\ UNCHANGED <<offset, closed, msgs, closes, held, closeVars, logVars, expected, overlapped>>

\* A message leaves the channel.
Receive ==
  /\ msgs # <<>>
  /\ msgs' = Tail(msgs)
  /\ due' = IF Head(msgs).error THEN due
              ELSE [due EXCEPT ![Head(msgs).version] = Head(msgs).offset + 1]

\* Mutant of Stale: no message is.
StaleNever(f) == FALSE

\* The message at the head of the channel is of a version older than the one seen.
Stale(f) == Head(msgs).version < seen[f]

\* The message received is of the version seen, or newer: it will be returned.
FetchReceive(f) ==
  /\ fpc[f] = "select"
  /\ Receive
  /\ ~Stale(f)
  /\ held' = [held EXCEPT ![f] = Head(msgs)]
  /\ fpc' = [fpc EXCEPT ![f] = "lock"]
  /\ UNCHANGED <<offset, version, closed, closes, seen, closeVars, subVars, logVars,
                 expected, undisturbed, overlapped>>

\* The message received is of an older version: the loop goes round, to the
\* select again.
FetchDrop(f) ==
  /\ fpc[f] = "select"
  /\ Receive
  /\ Stale(f)
  /\ seen' = [seen EXCEPT ![f] = version]
  /\ UNCHANGED <<offset, version, closed, closes, fpc, held, closeVars, subVars, logVars,
                 expected, undisturbed, overlapped>>

\* The call returns.
FetchOver(f) ==
  /\ fpc' = [fpc EXCEPT ![f] = "idle"]
  /\ seen' = [seen EXCEPT ![f] = 0]
  /\ held' = [held EXCEPT ![f] = NoItem]
  /\ undisturbed' = [undisturbed EXCEPT ![f] = FALSE]

\* The channel is closed and empty: io.EOF.
FetchEOF(f) ==
  /\ fpc[f] = "select"
  /\ msgs = <<>> /\ closes > 0
  /\ FetchOver(f)
  /\ UNCHANGED <<offset, version, closed, msgs, closes, closeVars, subVars, logVars, expected, overlapped, due>>

\* The context of the call is cancelled.
FetchCancelled(f) ==
  /\ fpc[f] = "select"
  /\ FetchOver(f)
  /\ UNCHANGED <<offset, version, closed, msgs, closes, closeVars, subVars, logVars, expected, overlapped, due>>

\* Under the mutex again, the offset moves behind the message if the version
\* is still the one seen; then the message or the error is returned.
FetchReturn(f) ==
  LET m == held[f] IN
  /\ fpc[f] = "lock"
  /\ FetchOver(f)
  /\ offset' = IF ~m.error /\ seen[f] = version THEN m.offset + 1 ELSE offset
  /\ expected' = IF ~m.error /\ m.version = version THEN m.offset + 1 ELSE expected
  /\ UNCHANGED <<version, closed, msgs, closes, closeVars, subVars, logVars, overlapped, due>>

SetOffset(o) ==
  /\ ~closed
  /\ offset' = o
  /\ IF o # offset /\ version # 0
       THEN Start(o)
       ELSE UNCHANGED <<version, subVars, due>>
  /\ expected' = o
  /\ undisturbed' = [f \in Fetchers |-> FALSE]
  /\ overlapped' = (overlapped \/ \E f \in Fetchers : fpc[f] # "idle")
  /\ UNCHANGED <<closed, msgs, closes, fetchVars, closeVars, logVars>>

\* Close, called for the first time or once more: mark the reader closed.
CloseLocked(c) ==
  /\ cpc[c] \in {"idle", "returned"}
  /\ wasClosed' = [wasClosed EXCEPT ![c] = closed]
  /\ closed' = TRUE
  /\ cpc' = [cpc EXCEPT ![c] = "cancel"]
  /\ UNCHANGED <<offset, version, msgs, closes, fetchVars, subVars, logVars, histVars>>

\* Close, outside the mutex: cancel the newest goroutine.
CloseCancel(c) ==
  /\ cpc[c] = "cancel"
  /\ cancelled' = cancel
  /\ cpc' = [cpc EXCEPT ![c] = "wait"]
  /\ UNCHANGED <<offset, version, closed, msgs, closes, fetchVars, wasClosed,
                 rpc, tag, at, target, conn, attempt, logVars, histVars>>

\* Mutant of Joined: Close does not wait.
JoinedAlways == TRUE

\* join.Wait returns.
Joined == \A v \in Versions : rpc[v] \in {"unborn", "exited"}

\* Mutant of CloseReturn: the channel is not closed.
CloseReturnKeepsChannel(c) ==
  /\ cpc[c] = "wait" /\ Joined
  /\ cpc' = [cpc EXCEPT ![c] = "returned"]
  /\ UNCHANGED <<offset, version, closed, msgs, closes, fetchVars, wasClosed, subVars, logVars, histVars>>

\* Close: join.Wait returns, the first caller closes the channel.
CloseReturn(c) ==
  /\ cpc[c] = "wait" /\ Joined
  /\ closes' = IF wasClosed[c] THEN closes ELSE closes + 1
  /\ cpc' = [cpc EXCEPT ![c] = "returned"]
  /\ UNCHANGED <<offset, version, closed, msgs, fetchVars, wasClosed, subVars, logVars, histVars>>

-----------------------------------------------------------------------------
(* A reader goroutine: reader.run, initialize and read.                    *)

\* On to l, with o as the target; without one.
GotoWith(v, l, o) ==
  /\ rpc' = [rpc EXCEPT ![v] = l]
  /\ target' = [target EXCEPT ![v] = o]

Goto(v, l) == GotoWith(v, l, 0)

\* What no step of a reader goroutine changes.
Elsewhere == UNCHANGED <<offset, version, closed, closes, fetchVars, closeVars,
                         cancelled, logVars, histVars>>

\* The first thing that the goroutine does is to read r.version, without the mutex.
Begin(v) ==
  /\ rpc[v] = "born"
  /\ tag' = [tag EXCEPT ![v] = version]
  /\ Goto(v, "init")
  /\ UNCHANGED <<msgs, at, conn, attempt>> /\ Elsewhere

\* Round the outer loop of run again, with no connection and attempt a.
Retry(v, a) ==
  /\ Goto(v, "backoff")
  /\ attempt' = [attempt EXCEPT ![v] = IF a < ReportAttempt THEN a + 1 ELSE a]
  /\ conn' = [conn EXCEPT ![v] = "nil"]

BackoffElapsed(v) ==
  /\ rpc[v] = "backoff" /\ ~cancelled[v]
  /\ Goto(v, "init")
  /\ UNCHANGED <<msgs, tag, at, conn, attempt>> /\ Elsewhere

\* sleep returns false, before an attempt or before a read.
Exit(v) ==
  /\ rpc[v] \in {"backoff", "sleep"} /\ cancelled[v]
  /\ Goto(v, "exited")
  /\ conn' = [conn EXCEPT ![v] = "nil"]
  /\ at' = [at EXCEPT ![v] = 0]
  /\ attempt' = [attempt EXCEPT ![v] = 0]
  /\ UNCHANGED <<msgs, tag>> /\ Elsewhere

\* initialize: DialLeader, which fails when the context is cancelled, and
\* ReadOffsets.
Initialize(v) ==
  /\ rpc[v] = "init" /\ ~cancelled[v]
  /\ LET o == CASE at[v] = LastOffset -> logEnd
                [] at[v] # LastOffset /\ at[v] < logStart -> logStart
                [] OTHER -> at[v]
     IN  GotoWith(v, "absolute", o)
  /\ UNCHANGED <<msgs, tag, at, conn, attempt>> /\ Elsewhere

\* initialize: Seek, which reads the offsets once more.
InitializeSeek(v) ==
  /\ rpc[v] = "absolute"
  /\ IF target[v] \in logStart .. logEnd
       THEN /\ at' = [at EXCEPT ![v] = target[v]]
            /\ conn' = [conn EXCEPT ![v] = "open"]
            /\ attempt' = [attempt EXCEPT ![v] = 0]
            /\ Goto(v, "sleep")
       ELSE Retry(v, attempt[v]) /\ UNCHANGED at
  /\ UNCHANGED <<msgs, tag>> /\ Elsewhere

\* A step of initialize fails.  The first errors are not reported.
InitializeFails(v) ==
  /\ rpc[v] \in {"init", "absolute"}
  /\ "network" \in Faults \/ (rpc[v] = "init" /\ cancelled[v])
  /\ IF attempt[v] >= ReportAttempt
       THEN Goto(v, "report") /\ UNCHANGED <<conn, attempt>>
       ELSE Retry(v, attempt[v])
  /\ UNCHANGED <<msgs, tag, at>> /\ Elsewhere

\* Mutant of SendOrDone: the context is not looked at.
SendOnly(v, item) == Len(msgs) < QueueCapacity /\ msgs' = Append(msgs, item)

\* sendError: the channel takes the error, or the context is done.
SendOrDone(v, item) ==
  \/ /\ Len(msgs) < QueueCapacity
     /\ msgs' = Append(msgs, item)
  \/ cancelled[v] /\ UNCHANGED msgs

ErrorItem(v) == [version |-> tag[v], offset |-> 0, error |-> TRUE]

InitializeReport(v) ==
  /\ rpc[v] = "report"
  /\ SendOrDone(v, ErrorItem(v))
  /\ Retry(v, attempt[v])
  /\ UNCHANGED <<tag, at>> /\ Elsewhere

SleepElapsed(v) ==
  /\ rpc[v] = "sleep" /\ ~cancelled[v]
  /\ Goto(v, "read")
  /\ UNCHANGED <<msgs, tag, at, conn, attempt>> /\ Elsewhere

\* read: the fetch returns messages from the offset on, or none.
Read(v) ==
  /\ rpc[v] = "read" /\ conn[v] = "open"
  /\ at[v] \in logStart .. logEnd
  /\ \E end \in at[v] .. logEnd : GotoWith(v, "send", end)
  /\ UNCHANGED <<msgs, tag, at, conn, attempt>> /\ Elsewhere

\* The connection after a fetch response with an error code.  Version 5 leaves
\* the size of the message set unread.
AfterErrorCode(v) ==
  \E f \in FetchVersions : conn' = [conn EXCEPT ![v] = IF f = 5 THEN "skewed" ELSE "open"]

ReadOutOfRange(v) ==
  /\ rpc[v] = "read" /\ conn[v] = "open"
  /\ at[v] \notin logStart .. logEnd
  /\ AfterErrorCode(v)
  /\ Goto(v, "seek")
  /\ UNCHANGED <<msgs, tag, at, attempt>> /\ Elsewhere

\* Any error code but RequestTimedOut: it will be reported.
ReadKafkaError(v) ==
  /\ rpc[v] = "read" /\ conn[v] = "open" /\ "kafka" \in Faults
  /\ AfterErrorCode(v)
  /\ Goto(v, "error")
  /\ UNCHANGED <<msgs, tag, at, attempt>> /\ Elsewhere

\* RequestTimedOut: run says nothing to the program and reads again.
ReadTimedOut(v) ==
  /\ rpc[v] = "read" /\ conn[v] = "open" /\ "kafka" \in Faults
  /\ AfterErrorCode(v)
  /\ Goto(v, "sleep")
  /\ UNCHANGED <<msgs, tag, at, attempt>> /\ Elsewhere

\* Another broker leads the partition, or the connection fails, now or with
\* part of the batch sent: initialize again, from the offset reached.
ReadBroken(v) ==
  /\ \/ rpc[v] = "read" /\ Faults \cap {"unknown", "network"} # {}
     \/ rpc[v] = "send" /\ "network" \in Faults
  /\ Retry(v, 0)
  /\ UNCHANGED <<msgs, tag, at>> /\ Elsewhere

\* A request on a connection with unread bytes: waitResponse does not find
\* its response, nor give up.
Spin(v) ==
  /\ rpc[v] \in {"read", "seek"} /\ conn[v] = "skewed"
  /\ Goto(v, "spin")
  /\ UNCHANGED <<msgs, tag, at, conn, attempt>> /\ Elsewhere

\* sendMessage, or the context is done and the batch is closed.
SendMessage(v) ==
  /\ rpc[v] = "send" /\ at[v] < target[v]
  /\ \/ /\ Len(msgs) < QueueCapacity
        /\ msgs' = Append(msgs, [version |-> tag[v], offset |-> at[v], error |-> FALSE])
        /\ at' = [at EXCEPT ![v] = @ + 1]
        /\ UNCHANGED <<rpc, target>>
     \/ /\ cancelled[v]
        /\ Goto(v, "sleep")
        /\ UNCHANGED <<msgs, at>>
  /\ UNCHANGED <<tag, conn, attempt>> /\ Elsewhere

\* The batch is at its end; whether with EOF or RequestTimedOut, run goes on.
BatchEnds(v) ==
  /\ rpc[v] = "send" /\ at[v] = target[v]
  /\ Goto(v, "sleep")
  /\ UNCHANGED <<msgs, tag, at, conn, attempt>> /\ Elsewhere

\* Mutant of ResetTarget: the other end of the partition.
ResetTargetSwapped == IF AutoOffsetReset = FirstOffset THEN logEnd ELSE logStart

\* Where Seek(0, SeekStart) and Seek(0, SeekEnd) go.
ResetTarget == IF AutoOffsetReset = FirstOffset THEN logStart ELSE logEnd

\* run, case OffsetOutOfRange: seek to the first or to the last offset.
ResetOffset(v) ==
  /\ rpc[v] = "seek" /\ conn[v] = "open"
  /\ at' = [at EXCEPT ![v] = ResetTarget]
  /\ Goto(v, "sleep")
  /\ UNCHANGED <<msgs, tag, conn, attempt>> /\ Elsewhere

\* Seek fails and returns 0, which is the offset to initialize from.
ResetOffsetFails(v) ==
  /\ rpc[v] = "seek" /\ "network" \in Faults
  /\ at' = [at EXCEPT ![v] = 0]
  /\ Retry(v, 0)
  /\ UNCHANGED <<msgs, tag>> /\ Elsewhere

\* run, case default, with an error of Kafka's.
ReadReport(v) ==
  /\ rpc[v] = "error"
  /\ SendOrDone(v, ErrorItem(v))
  /\ Goto(v, "sleep")
  /\ UNCHANGED <<tag, at, conn, attempt>> /\ Elsewhere

-----------------------------------------------------------------------------
(* The partition. *)

Produce ==
  /\ logEnd < MaxOffset
  /\ logEnd' = logEnd + 1
  /\ UNCHANGED <<offset, version, closed, msgs, closes, fetchVars, closeVars, subVars,
                 logStart, histVars>>

Retention ==
  /\ logStart < logEnd
  /\ logStart' = logStart + 1
  /\ UNCHANGED <<offset, version, closed, msgs, closes, fetchVars, closeVars, subVars,
                 logEnd, histVars>>

-----------------------------------------------------------------------------

Fetch(f) == \/ FetchMessage(f) \/ FetchReceive(f) \/ FetchDrop(f) \/ FetchEOF(f)
            \/ FetchCancelled(f) \/ FetchReturn(f)

Close(c) == CloseLocked(c) \/ CloseCancel(c) \/ CloseReturn(c)

Initializing(v) == \/ Begin(v) \/ BackoffElapsed(v) \/ Initialize(v) \/ InitializeSeek(v)
                   \/ InitializeFails(v) \/ InitializeReport(v)

Reading(v) == \/ SleepElapsed(v) \/ Read(v) \/ ReadOutOfRange(v) \/ ReadKafkaError(v)
              \/ ReadTimedOut(v) \/ ReadBroken(v) \/ Spin(v) \/ SendMessage(v) \/ BatchEnds(v)
              \/ ResetOffset(v) \/ ResetOffsetFails(v) \/ ReadReport(v)

run(v) == Initializing(v) \/ Reading(v) \/ Exit(v)

Next ==
  \/ \E f \in Fetchers : Fetch(f)
  \/ \E o \in SeekTargets : SetOffset(o)
  \/ \E c \in Closers : Close(c)
  \/ \E v \in Versions : run(v)
  \/ Produce
  \/ Retention

Spec == Init /\ [][Next]_vars

\* Goroutines run; the steps of Close and the end of FetchMessage are due.
FairSpec ==
  /\ Spec
  /\ \A v \in Versions : WF_vars(run(v))
  /\ \A c \in Closers : WF_vars(CloseCancel(c) \/ CloseReturn(c))
  /\ \A f \in Fetchers : WF_vars(FetchReceive(f) \/ FetchDrop(f) \/ FetchEOF(f) \/ FetchReturn(f))

-----------------------------------------------------------------------------
(* Properties. *)

\* From the offset a on, the offset b is next: only deleted offsets are skipped.
IsNext(a, b, deleted) ==
  \/ a = LastOffset
  \/ /\ b >= a
     /\ \A o \in 0 .. MaxOffset : a <= o /\ o < b => o < deleted

\* The message i of the channel is one of version v.
Of(i, v) == ~msgs[i].error /\ msgs[i].version = v

\* After the messages of version v among the first n of the channel, the offset
\* b is next.
Follows(v, n, b) ==
  /\ (\A i \in 1 .. n : ~Of(i, v)) => IsNext(due[v], b, logStart)
  /\ \A i \in 1 .. n : Of(i, v) /\ (\A j \in i + 1 .. n : ~Of(j, v)) =>
       IsNext(msgs[i].offset + 1, b, logStart)

\* The messages that carry a version are those of the goroutine started for
\* it: as they leave the channel they begin at the offset given to start and
\* follow each other without repetition, and without a gap but for offsets
\* that retention has deleted.  A goroutine that starts late must not pass for
\* its successor (reader.go, the unlocked read of r.version in start).
TaggedInOrder ==
  AutoOffsetReset = FirstOffset =>
    \A i \in 1 .. Len(msgs) : ~msgs[i].error => Follows(msgs[i].version, i - 1, msgs[i].offset)

\* A message returned is the one that the program expects: the one at the
\* offset given to SetOffset, then the one after the last returned.
ReturnsExpected(f) ==
  fpc[f] = "lock" /\ fpc'[f] = "idle" /\ ~held[f].error
    => IsNext(expected, held[f].offset, logStart)

\* FetchMessage returns the message that the program expects, as long as the
\* program calls SetOffset between its calls to FetchMessage only.
SetOffsetHonoured == [][\A f \in Fetchers : ~overlapped => ReturnsExpected(f)]_vars

\* FetchMessage returns the message that the program expects when no SetOffset
\* overlaps this call, whatever calls overlapped earlier ("SetOffset changes the
\* offset from which the next batch of messages will be read", reader.go).
SetOffsetAlwaysHonoured == [][\A f \in Fetchers : undisturbed[f] => ReturnsExpected(f)]_vars

\* Close closes the channel once, when no reader goroutine can send any more.
ChannelClosedLast ==
  /\ closes <= 1
  /\ closes = 1 => \A v \in Versions : rpc[v] \in {"unborn", "exited"}

\* At most one reader goroutine is not cancelled, the one of r.version: any
\* other will stop, and r.cancel stops this one.
OneReader == \A v \in Versions : rpc[v] # "unborn" /\ ~cancelled[v] => v = version

\* The end of the partition that AutoOffsetReset names.
ConfiguredEnd == IF AutoOffsetReset = FirstOffset THEN logStart ELSE logEnd

\* A goroutine whose offset has been deleted goes on where AutoOffsetReset
\* says: "AutoOffsetReset decides what to do when [...] the current offset does
\* not exist any more [...] FirstOffset: reset the offset to the earliest
\* offset. LastOffset: reset the offset to the latest offset" (ReaderConfig,
\* reader.go).  That is the end that the partition has when the goroutine asks
\* for it, in initialize or in run; and the first offset it still is, for all
\* that retention does, when initialize has sought there.  initialize goes to
\* the first offset always: the property holds with FirstOffset only.
ResetHonoured ==
  [][\A v \in Versions : 0 <= at[v] /\ at[v] < logStart =>
       /\ rpc[v] = "init" /\ rpc'[v] = "absolute" => target'[v] = ConfiguredEnd
       /\ rpc[v] = "absolute" /\ rpc'[v] = "sleep" /\ AutoOffsetReset = FirstOffset
            => at'[v] = ConfiguredEnd
       /\ rpc[v] = "seek" /\ rpc'[v] = "sleep" => at'[v] = ConfiguredEnd]_vars

\* The goroutine v may spin for ever: a fetch response with an error code was
\* not read to its end, and waitResponse does not look at the context.
Spinning(v) == conn[v] = "skewed"

\* The goroutines whose context is cancelled end, unless they spin.  A context
\* stays cancelled: that the goroutines are infinitely often at their end is
\* that the one leads to the other.
CancelledExits ==
  []<>(\A v \in Versions : cancelled[v] => rpc[v] = "exited" \/ Spinning(v))

\* Every Close returns, and no FetchMessage outlives the first, unless a
\* goroutine spins.  The program may call either again and again: that no call
\* is under way infinitely often is that each one returns, for a call that does
\* not return stays under way.
CallsReturn ==
  /\ \A c \in Closers :
       []<>(cpc[c] \in {"idle", "returned"} \/ \E v \in Versions : Spinning(v))
  /\ \A f \in Fetchers :
       []<>(closed => fpc[f] = "idle" \/ \E v \in Versions : Spinning(v))
=============================================================================
