----------------------------- MODULE ReaderProofs -----------------------------
(***************************************************************************)
(* Proofs about Reader, for any number of goroutines that call             *)
(* FetchMessage, SetOffset and Close, any partition and any capacity of    *)
(* the channel.  First the inductive invariant and why the steps keep the  *)
(* types, the versions of the goroutines, and Close; then the order of the *)
(* messages, and the theorems.                                             *)
(*                                                                         *)
(* A reader goroutine reads r.version when it first runs, maybe after its  *)
(* successor was made: its messages would then carry the version of the    *)
(* successor.  The argument is that such a goroutine has been cancelled    *)
(* already, and gets no further than to dial.  So the messages of a        *)
(* version are sent by one goroutine, which starts from the offset it was  *)
(* given and never goes back but to where retention has moved the          *)
(* beginning of the partition.                                             *)
(***************************************************************************)
EXTENDS Reader, TLAPS

\* The messages in the channel, and those that a call holds, are of a version
\* that has been started, and of an offset that the partition can hold.
Sound(item) == item.version <= version /\ (~item.error => item.offset < MaxOffset)

Items ==
  /\ \A i \in 1 .. Len(msgs) : Sound(msgs[i])
  /\ \A f \in Fetchers : fpc[f] = "lock" => held[f] \in Item /\ Sound(held[f])

\* The goroutine v started late: its messages would carry another version.
Late(v) == rpc[v] \notin {"unborn", "born"} /\ tag[v] # v

\* The goroutines that exist, and the versions that they read.
Tags ==
  \A v \in Versions :
    /\ rpc[v] = "unborn" <=> v > version
    /\ rpc[v] \notin {"unborn", "born"} => tag[v] \in 1 .. version
    /\ Late(v) => cancelled[v] /\ rpc[v] \in {"init", "backoff", "report", "exited"}

\* Where a goroutine is in the partition.
Places ==
  \A v \in Versions :
    /\ rpc[v] \in {"sleep", "read", "send", "seek", "error", "spin"} => at[v] \in 0 .. logEnd
    /\ rpc[v] = "send" => at[v] <= target[v] /\ target[v] <= logEnd
    /\ rpc[v] = "seek" => at[v] < logStart

\* After all the messages of version v in the channel, the offset b is next.
Chain(v, b) == Follows(v, Len(msgs), b)

\* Where the goroutine v goes on, unless it starts at the end.
Resume(v) == IF at[v] < logStart THEN logStart ELSE at[v]

\* The goroutine v goes on behind the messages it has sent.
InOrder(v) ==
  /\ at[v] = LastOffset => due[v] = LastOffset /\ \A i \in 1 .. Len(msgs) : ~Of(i, v)
  /\ at[v] # LastOffset => Chain(v, Resume(v))
  /\ rpc[v] = "absolute" => Chain(v, target[v])
  /\ rpc[v] = "send" => Chain(v, at[v])

Ordered ==
  AutoOffsetReset = FirstOffset =>
    \A v \in Versions : rpc[v] \notin {"unborn", "exited"} /\ ~Late(v) => InOrder(v)

\* The first call of Close, and only it, closes the channel.
Closes ==
  /\ \A c \in Closers : cpc[c] # "idle" => closed
  /\ \A c, d \in Closers :
       cpc[c] # "idle" /\ cpc[d] # "idle" /\ ~wasClosed[c] /\ ~wasClosed[d] => c = d
  /\ closes = 0 \/ closes = 1
  /\ closes = 0 => \A c \in Closers : cpc[c] = "returned" => wasClosed[c]
  /\ closes = 1 => /\ closed /\ Joined
                   /\ \A c \in Closers : cpc[c] \in {"cancel", "wait"} => wasClosed[c]

\* The calls of the program.
Calls == \/ \E f \in Fetchers : Fetch(f)
         \/ \E o \in SeekTargets : SetOffset(o)
         \/ \E c \in Closers : Close(c)

\* The inductive invariant.
IInv == TypeOK /\ Items /\ Tags /\ Places /\ Ordered /\ TaggedInOrder /\ Closes /\ OneReader

-----------------------------------------------------------------------------
(* Sequences. *)

\* The length and the elements of a sequence.
LEMMA LenAndElements ==
  ASSUME NEW S, NEW s \in Seq(S)
  PROVE  Len(s) \in Nat /\ \A i \in 1 .. Len(s) : s[i] \in S
  OBVIOUS

\* The rest of a sequence that is not empty.
LEMMA HeadAndTail ==
  ASSUME NEW S, NEW s \in Seq(S), s # <<>>
  PROVE  /\ Head(s) \in S /\ Head(s) = s[1]
         /\ Tail(s) \in Seq(S) /\ Len(s) \in Nat \ {0} /\ Len(Tail(s)) = Len(s) - 1
         /\ \A i \in 1 .. Len(Tail(s)) : Tail(s)[i] = s[i + 1]
  OBVIOUS

-----------------------------------------------------------------------------
(* Types. *)

\* What the assumptions on the constants say of the sets.
LEMMA Constants ==
  /\ Versions \subseteq Nat \ {0} /\ 0 \in Offsets /\ FirstOffset \in Offsets
  /\ \A o \in 0 .. MaxOffset : o \in Offsets
  /\ SeekTargets \subseteq Offsets
  /\ MaxStarts \in Nat /\ MaxOffset \in Nat
  /\ \A o \in Offsets : o \in Int /\ o >= -2 /\ o <= MaxOffset
PROOF
  BY ReaderAssumption DEF Versions, Offsets, FirstOffset

\* A message that leaves the channel leaves a channel.
LEMMA ReceiveType ==
  ASSUME TypeOK, Items, Receive
  PROVE  /\ msgs' \in Seq(Item) /\ Len(msgs') <= QueueCapacity
         /\ Len(msgs) \in Nat \ {0} /\ Len(msgs') = Len(msgs) - 1
         /\ \A i \in 1 .. Len(msgs') : msgs'[i] = msgs[i + 1]
         /\ Head(msgs) = msgs[1] /\ Head(msgs) \in Item
         /\ due' \in [Versions -> Offsets]
PROOF
  <1>1. msgs \in Seq(Item) /\ msgs # <<>> /\ msgs' = Tail(msgs) /\ Len(msgs) <= QueueCapacity
    BY Zenon DEF TypeOK, Receive
  <1>2. /\ msgs' \in Seq(Item) /\ Len(msgs') = Len(msgs) - 1 /\ Len(msgs) \in Nat \ {0}
        /\ \A i \in 1 .. Len(msgs') : msgs'[i] = msgs[i + 1]
        /\ Head(msgs) \in Item /\ Head(msgs) = msgs[1]
    BY Zenon, <1>1, HeadAndTail
  <1>3. ~Head(msgs).error => Head(msgs).version \in Versions /\ Head(msgs).offset + 1 \in Offsets
    <2>1. ~Head(msgs).error => Head(msgs).offset < MaxOffset
      BY <1>2 DEF Items, Sound
    <2> QED BY <1>2, <2>1, Constants DEF Item
  <1>4. due' \in [Versions -> Offsets]
    BY Zenon, <1>3 DEF TypeOK, Receive
  <1> QED BY <1>1, <1>2, <1>4, ReaderAssumption

\* A message that is sent finds room in the channel.
LEMMA SendType ==
  ASSUME TypeOK, NEW item \in Item, Len(msgs) < QueueCapacity, msgs' = Append(msgs, item)
  PROVE  /\ msgs' \in Seq(Item) /\ Len(msgs') <= QueueCapacity
         /\ Len(msgs) \in Nat /\ Len(msgs') = Len(msgs) + 1
         /\ \A i \in 1 .. Len(msgs) : msgs'[i] = msgs[i]
         /\ msgs'[Len(msgs) + 1] = item
PROOF
  <1>1. msgs \in Seq(Item) /\ Len(msgs) \in Nat
    BY Zenon, LenAndElements DEF TypeOK
  <1> QED BY <1>1, ReaderAssumption

\* Start keeps the types of what it changes.
LEMMA StartType ==
  ASSUME TypeOK, NEW o \in Offsets, Start(o)
  PROVE  /\ version' \in 0 .. MaxStarts /\ version' = version + 1 /\ version + 1 \in Versions
         /\ cancelled' \in [Versions -> BOOLEAN]
         /\ rpc' \in [Versions -> {"unborn", "born", "backoff", "init", "absolute", "report",
                           "sleep", "read", "send", "seek", "error", "spin", "exited"}]
         /\ at' \in [Versions -> Offsets]
         /\ due' \in [Versions -> Offsets]
PROOF
  <1>1. version' \in 0 .. MaxStarts /\ version' = version + 1 /\ version + 1 \in Versions
    BY Constants DEF TypeOK, Start, Versions
  <1>2. cancelled' \in [Versions -> BOOLEAN]
    BY Zenon DEF TypeOK, Start, cancel
  <1>3. /\ rpc' \in [Versions -> {"unborn", "born", "backoff", "init", "absolute", "report",
                           "sleep", "read", "send", "seek", "error", "spin", "exited"}]
        /\ at' \in [Versions -> Offsets]
    BY Zenon, <1>1 DEF TypeOK, Start
  <1>4. due' \in [Versions -> Offsets]
    BY Zenon, <1>1 DEF TypeOK, Start
  <1> QED BY Zenon, <1>1, <1>2, <1>3, <1>4

\* A call to FetchMessage that returns.
LEMMA FetchOverType ==
  ASSUME TypeOK, NEW f \in Fetchers, FetchOver(f)
  PROVE  /\ fpc' \in [Fetchers -> {"idle", "select", "lock"}]
         /\ seen' \in [Fetchers -> 0 .. MaxStarts]
         /\ held' \in [Fetchers -> Item \cup {NoItem}]
         /\ undisturbed' \in [Fetchers -> BOOLEAN]
PROOF
  <1>1. fpc' \in [Fetchers -> {"idle", "select", "lock"}]
    BY Zenon DEF FetchOver, TypeOK
  <1>2. seen' \in [Fetchers -> 0 .. MaxStarts]
    BY ReaderAssumption DEF FetchOver, TypeOK
  <1>3. held' \in [Fetchers -> Item \cup {NoItem}]
    BY Zenon DEF FetchOver, TypeOK
  <1>4. undisturbed' \in [Fetchers -> BOOLEAN]
    BY Zenon DEF FetchOver, TypeOK
  <1> QED BY Zenon, <1>1, <1>2, <1>3, <1>4

\* The calls of the program keep the types.
LEMMA CallsType ==
  ASSUME IInv, Calls
  PROVE  TypeOK'
PROOF
  <1> USE DEF fetchVars, closeVars, subVars, logVars, histVars
  <1>1. TypeOK
    BY Zenon DEF IInv
  <1>2. ASSUME NEW f \in Fetchers, FetchMessage(f), ~closed, version = 0
        PROVE  TypeOK'
    <2>1. Start(offset) /\ offset \in Offsets
      BY Zenon, <1>1, <1>2 DEF FetchMessage, TypeOK
    <2> QED BY Zenon, <1>1, <1>2, <2>1, StartType DEF FetchMessage, Start, TypeOK
  <1>3. ASSUME NEW f \in Fetchers, FetchMessage(f), closed \/ version # 0
        PROVE  TypeOK'
    BY Zenon, <1>1, <1>3 DEF FetchMessage, TypeOK
  <1>4. ASSUME NEW f \in Fetchers, FetchReceive(f) \/ FetchDrop(f)
        PROVE  TypeOK'
    <2>1. Receive
      BY Zenon, <1>4 DEF FetchReceive, FetchDrop
    <2>2. /\ msgs' \in Seq(Item) /\ Len(msgs') <= QueueCapacity /\ Head(msgs) \in Item
          /\ due' \in [Versions -> Offsets]
      BY Zenon, <1>1, <2>1, ReceiveType DEF IInv
    <2>3. held' \in [Fetchers -> Item \cup {NoItem}]
      BY Zenon, <1>1, <1>4, <2>2 DEF FetchReceive, FetchDrop, TypeOK
    <2>4. /\ fpc' \in [Fetchers -> {"idle", "select", "lock"}]
          /\ seen' \in [Fetchers -> 0 .. MaxStarts]
      BY Zenon, <1>1, <1>4 DEF FetchReceive, FetchDrop, TypeOK
    <2> QED BY SMTT(40), <1>1, <1>4, <2>2, <2>3, <2>4 DEF FetchReceive, FetchDrop, TypeOK
  <1>5. ASSUME NEW f \in Fetchers, FetchEOF(f) \/ FetchCancelled(f)
        PROVE  TypeOK'
    BY ZenonT(60), <1>1, <1>5, FetchOverType DEF FetchEOF, FetchCancelled, TypeOK
  <1>6. ASSUME NEW f \in Fetchers, FetchReturn(f)
        PROVE  TypeOK'
    <2>1. /\ held[f] \in Item /\ (~held[f].error => held[f].offset < MaxOffset)
      BY Zenon, <1>6 DEF FetchReturn, IInv, Items, Sound
    <2>2. ~held[f].error => held[f].offset + 1 \in Offsets
      BY <2>1, Constants DEF Item
    <2>3. offset' \in Offsets /\ expected' \in Offsets
      BY Zenon, <1>1, <1>6, <2>2 DEF FetchReturn, TypeOK
    <2> QED BY Zenon, <1>1, <1>6, <2>3, FetchOverType DEF FetchReturn, TypeOK
  <1>7. ASSUME NEW o \in SeekTargets, SetOffset(o), o # offset, version # 0
        PROVE  TypeOK'
    <2>1. Start(o) /\ o \in Offsets
      BY Zenon, <1>7, Constants DEF SetOffset
    <2> QED BY Zenon, <1>1, <1>7, <2>1, StartType DEF SetOffset, Start, TypeOK
  <1>8. ASSUME NEW o \in SeekTargets, SetOffset(o), ~(o # offset /\ version # 0)
        PROVE  TypeOK'
    <2>1. o \in Offsets
      BY Zenon, Constants
    <2> QED BY <1>1, <1>8, <2>1 DEF SetOffset, TypeOK
  <1>9. ASSUME NEW c \in Closers, CloseLocked(c)
        PROVE  TypeOK'
    BY Zenon, <1>1, <1>9 DEF CloseLocked, TypeOK
  <1>10. ASSUME NEW c \in Closers, CloseCancel(c)
        PROVE  TypeOK'
    BY Zenon, <1>1, <1>10 DEF CloseCancel, cancel, TypeOK
  <1>11. ASSUME NEW c \in Closers, CloseReturn(c)
        PROVE  TypeOK'
    BY <1>1, <1>11 DEF CloseReturn, TypeOK
  <1> QED BY Zenon, <1>2, <1>3, <1>4, <1>5, <1>6, <1>7, <1>8, <1>9, <1>10, <1>11 DEF Calls, Fetch, Close

\* What a step of a reader goroutine changes has its type, and so all has.
LEMMA GoroutineType ==
  ASSUME TypeOK, Elsewhere,
         msgs' \in Seq(Item), Len(msgs') <= QueueCapacity,
         rpc' \in [Versions -> {"unborn", "born", "backoff", "init", "absolute", "report",
                           "sleep", "read", "send", "seek", "error", "spin", "exited"}],
         tag' \in [Versions -> 0 .. MaxStarts],
         at' \in [Versions -> Offsets],
         target' \in [Versions -> 0 .. MaxOffset],
         conn' \in [Versions -> {"nil", "open", "skewed"}],
         attempt' \in [Versions -> 0 .. ReportAttempt]
  PROVE  TypeOK'
PROOF
  BY Zenon DEF TypeOK, Elsewhere, fetchVars, closeVars, logVars, histVars

\* Going back to the outer loop keeps the types.
LEMMA RetryType ==
  ASSUME TypeOK, NEW v \in Versions, NEW a \in 0 .. ReportAttempt, Retry(v, a)
  PROVE  /\ rpc' \in [Versions -> {"unborn", "born", "backoff", "init", "absolute", "report",
                           "sleep", "read", "send", "seek", "error", "spin", "exited"}]
         /\ target' \in [Versions -> 0 .. MaxOffset]
         /\ conn' \in [Versions -> {"nil", "open", "skewed"}]
         /\ attempt' \in [Versions -> 0 .. ReportAttempt]
PROOF
  <1>1. (IF a < ReportAttempt THEN a + 1 ELSE a) \in 0 .. ReportAttempt
    BY ReaderAssumption
  <1>2. attempt' \in [Versions -> 0 .. ReportAttempt]
    BY Zenon, <1>1 DEF Retry, TypeOK
  <1>3. target' \in [Versions -> 0 .. MaxOffset]
    BY Constants DEF Retry, Goto, GotoWith, TypeOK
  <1> QED BY Zenon, <1>2, <1>3 DEF Retry, Goto, GotoWith, TypeOK

\* An error that is sent is an item of the channel.
LEMMA ReportType ==
  ASSUME IInv, NEW v \in Versions, rpc[v] \notin {"unborn", "born"}, SendOrDone(v, ErrorItem(v))
  PROVE  msgs' \in Seq(Item) /\ Len(msgs') <= QueueCapacity /\ ErrorItem(v) \in Item
PROOF
  <1>1. tag[v] \in Versions
    BY Constants DEF IInv, Tags, TypeOK, Versions
  <1>2. ErrorItem(v) \in Item
    BY <1>1, Constants DEF ErrorItem, Item
  <1> QED BY Zenon, <1>2, SendType DEF IInv, TypeOK, SendOrDone

\* The steps up to initialize keep the types.
LEMMA InitializingType ==
  ASSUME IInv, NEW v \in Versions, Initializing(v) \/ Exit(v)
  PROVE  TypeOK'
PROOF
  <1>1. TypeOK
    BY Zenon DEF IInv
  <1>2. 0 \in 0 .. MaxOffset /\ 0 \in 0 .. ReportAttempt /\ 0 \in Offsets
    BY Constants, ReaderAssumption
  <1>3. attempt[v] \in 0 .. ReportAttempt
    BY Zenon, <1>1 DEF TypeOK
  <1>4. CASE Begin(v) \/ BackoffElapsed(v)
    BY ZenonT(60), <1>1, <1>2, <1>4, GoroutineType DEF Begin, BackoffElapsed, Goto, GotoWith, TypeOK
  <1>5. CASE Exit(v)
    BY Zenon, <1>1, <1>2, <1>5, GoroutineType DEF Exit, Goto, GotoWith, TypeOK
  <1>6. CASE Initialize(v)
    <2> DEFINE o == CASE at[v] = LastOffset -> logEnd
                      [] at[v] # LastOffset /\ at[v] < logStart -> logStart
                      [] OTHER -> at[v]
    <2>1. at[v] \in Offsets /\ logStart \in 0 .. MaxOffset /\ logEnd \in 0 .. MaxOffset
      BY <1>1, Constants DEF TypeOK
    <2>2. o \in 0 .. MaxOffset
      BY <2>1, Constants DEF LastOffset
    <2> HIDE DEF o
    <2>3. GotoWith(v, "absolute", o)
      BY Zenon, <1>6 DEF Initialize, o
    <2>4. UNCHANGED <<msgs, tag, at, conn, attempt>> /\ Elsewhere
      BY Zenon, <1>6 DEF Initialize
    <2> QED BY Zenon, <1>1, <2>2, <2>3, <2>4, GoroutineType DEF GotoWith, TypeOK
  <1>7. CASE InitializeSeek(v) /\ target[v] \in logStart .. logEnd
    <2>1. target[v] \in Offsets
      BY Zenon, <1>1, Constants DEF TypeOK
    <2>2. /\ at' = [at EXCEPT ![v] = target[v]] /\ conn' = [conn EXCEPT ![v] = "open"]
          /\ attempt' = [attempt EXCEPT ![v] = 0] /\ Goto(v, "sleep")
          /\ UNCHANGED <<msgs, tag>> /\ Elsewhere
      BY Zenon, <1>7 DEF InitializeSeek
    <2> QED BY Zenon, <1>1, <1>2, <2>1, <2>2, GoroutineType DEF Goto, GotoWith, TypeOK
  <1>8. CASE InitializeSeek(v) /\ target[v] \notin logStart .. logEnd
    BY Zenon, <1>1, <1>3, <1>8, RetryType, GoroutineType DEF InitializeSeek, TypeOK
  <1>9. CASE InitializeFails(v) /\ attempt[v] >= ReportAttempt
    BY ZenonT(60), <1>1, <1>2, <1>9, GoroutineType DEF InitializeFails, Goto, GotoWith, TypeOK
  <1>10. CASE InitializeFails(v) /\ ~(attempt[v] >= ReportAttempt)
    BY Zenon, <1>1, <1>3, <1>10, RetryType, GoroutineType DEF InitializeFails, TypeOK
  <1>11. CASE InitializeReport(v)
    <2>1. msgs' \in Seq(Item) /\ Len(msgs') <= QueueCapacity
      BY Zenon, <1>11, ReportType DEF InitializeReport
    <2> QED BY Zenon, <1>1, <1>3, <1>11, <2>1, RetryType, GoroutineType DEF InitializeReport, TypeOK
  <1> QED BY Zenon, <1>4, <1>5, <1>6, <1>7, <1>8, <1>9, <1>10, <1>11 DEF Initializing

\* The steps of read keep the types.
LEMMA ReadingType ==
  ASSUME IInv, NEW v \in Versions, Reading(v)
  PROVE  TypeOK'
PROOF
  <1>1. TypeOK
    BY Zenon DEF IInv
  <1>2. 0 \in 0 .. MaxOffset /\ 0 \in 0 .. ReportAttempt /\ 0 \in Offsets
    BY Constants, ReaderAssumption
  <1>3. CASE SleepElapsed(v) \/ Spin(v) \/ BatchEnds(v)
    BY ZenonT(60), <1>1, <1>2, <1>3, GoroutineType DEF SleepElapsed, Spin, BatchEnds, Goto, GotoWith, TypeOK
  <1>4. CASE Read(v)
    <2>1. PICK end \in at[v] .. logEnd : GotoWith(v, "send", end)
      BY Zenon, <1>4 DEF Read
    <2>2. end \in 0 .. MaxOffset
      <3>1. at[v] \in logStart .. logEnd /\ logStart \in 0 .. MaxOffset /\ logEnd \in logStart .. MaxOffset
        BY Zenon, <1>1, <1>4 DEF Read, TypeOK
      <3> QED BY <3>1, Constants
    <2> QED BY Zenon, <1>1, <1>4, <2>1, <2>2, GoroutineType DEF Read, GotoWith, TypeOK
  <1>5. CASE ReadOutOfRange(v) \/ ReadKafkaError(v) \/ ReadTimedOut(v)
    <2>1. conn' \in [Versions -> {"nil", "open", "skewed"}]
      BY ZenonT(60), <1>1, <1>5 DEF ReadOutOfRange, ReadKafkaError, ReadTimedOut, AfterErrorCode, TypeOK
    <2> QED BY ZenonT(60), <1>1, <1>2, <1>5, <2>1, GoroutineType
            DEF ReadOutOfRange, ReadKafkaError, ReadTimedOut, Goto, GotoWith, TypeOK
  <1>6. CASE ReadBroken(v)
    BY Zenon, <1>1, <1>2, <1>6, RetryType, GoroutineType DEF ReadBroken, TypeOK
  <1>7. CASE SendMessage(v)
    <2>1. /\ tag[v] \in Versions /\ at[v] \in 0 .. MaxOffset /\ at[v] + 1 \in Offsets
      <3>1. rpc[v] = "send" /\ at[v] < target[v]
        BY Zenon, <1>7 DEF SendMessage
      <3>2. tag[v] \in 1 .. version /\ version \in 0 .. MaxStarts
        BY Zenon, <1>1, <3>1 DEF IInv, Tags, TypeOK
      <3>3. at[v] \in 0 .. logEnd /\ target[v] <= logEnd /\ target[v] \in 0 .. MaxOffset
        BY Zenon, <1>1, <3>1 DEF IInv, Places, TypeOK
      <3>4. at[v] \in Int /\ at[v] >= 0 /\ at[v] + 1 <= MaxOffset
        <4>1. at[v] \in Offsets
          BY Zenon, <1>1 DEF TypeOK
        <4> QED BY <3>1, <3>3, <4>1, Constants
      <3>5. tag[v] \in Versions
        BY <3>2, Constants DEF Versions
      <3>6. at[v] \in 0 .. MaxOffset /\ at[v] + 1 \in 0 .. MaxOffset
        BY <3>4, Constants
      <3> QED BY Zenon, <3>5, <3>6, Constants
    <2>2. [version |-> tag[v], offset |-> at[v], error |-> FALSE] \in Item
      BY Zenon, <2>1 DEF Item
    <2>3. msgs' \in Seq(Item) /\ Len(msgs') <= QueueCapacity
      BY Zenon, <1>1, <1>7, <2>2, SendType DEF SendMessage, TypeOK
    <2>4. at' \in [Versions -> Offsets]
      BY Zenon, <1>1, <1>7, <2>1 DEF SendMessage, TypeOK
    <2>5. UNCHANGED <<tag, conn, attempt>> /\ Elsewhere
      BY Zenon, <1>7 DEF SendMessage
    <2>6. /\ rpc' \in [Versions -> {"unborn", "born", "backoff", "init", "absolute", "report",
                           "sleep", "read", "send", "seek", "error", "spin", "exited"}]
          /\ target' \in [Versions -> 0 .. MaxOffset]
      BY ZenonT(60), <1>1, <1>2, <1>7 DEF SendMessage, Goto, GotoWith, TypeOK
    <2> QED BY Zenon, <1>1, <2>3, <2>4, <2>5, <2>6, GoroutineType DEF TypeOK
  <1>8. CASE ResetOffset(v)
    <2>1. ResetTarget \in Offsets
      BY SMTT(40), <1>1, Constants DEF ResetTarget, TypeOK
    <2> QED BY Zenon, <1>1, <1>2, <1>8, <2>1, GoroutineType DEF ResetOffset, Goto, GotoWith, TypeOK
  <1>9. CASE ResetOffsetFails(v)
    BY Zenon, <1>1, <1>2, <1>9, RetryType, GoroutineType DEF ResetOffsetFails, TypeOK
  <1>10. CASE ReadReport(v)
    <2>1. msgs' \in Seq(Item) /\ Len(msgs') <= QueueCapacity
      BY Zenon, <1>10, ReportType DEF ReadReport
    <2> QED BY Zenon, <1>1, <1>2, <1>10, <2>1, GoroutineType DEF ReadReport, Goto, GotoWith, TypeOK
  <1> QED BY Zenon, <1>3, <1>4, <1>5, <1>6, <1>7, <1>8, <1>9, <1>10 DEF Reading

\* So does the rest.
LEMMA TypeStep ==
  ASSUME IInv, [Next]_vars
  PROVE  TypeOK'
PROOF
  <1> USE DEF fetchVars, closeVars, subVars, logVars, histVars
  <1>1. CASE Produce
    <2>1. logStart' \in 0 .. MaxOffset /\ logEnd' \in logStart' .. MaxOffset
      BY <1>1, Constants DEF Produce, IInv, TypeOK
    <2> QED BY Zenon, <1>1, <2>1 DEF Produce, IInv, TypeOK
  <1>2. CASE Retention
    <2>1. logStart' \in 0 .. MaxOffset /\ logEnd' \in logStart' .. MaxOffset
      BY <1>2, Constants DEF Retention, IInv, TypeOK
    <2> QED BY Zenon, <1>2, <2>1 DEF Retention, IInv, TypeOK
  <1>3. CASE UNCHANGED vars
    BY Zenon, <1>3 DEF vars, IInv, TypeOK
  <1> QED BY Zenon, <1>1, <1>2, <1>3, CallsType, InitializingType, ReadingType DEF Next, Calls, run

-----------------------------------------------------------------------------
(* What the steps do. *)

\* A step of the goroutine v leaves the others alone.
LEMMA RunFrame ==
  ASSUME TypeOK, NEW v \in Versions, run(v)
  PROVE  /\ Elsewhere
         /\ rpc[v] \notin {"unborn", "exited"} /\ rpc'[v] \notin {"unborn", "born"}
         /\ \A w \in Versions \ {v} : /\ rpc'[w] = rpc[w] /\ tag'[w] = tag[w]
                                      /\ at'[w] = at[w] /\ target'[w] = target[w]
         /\ rpc[v] # "born" => tag'[v] = tag[v]
PROOF
  <1>1. CASE Begin(v) \/ BackoffElapsed(v) \/ Initialize(v) \/ Exit(v)
    BY <1>1 DEF Begin, BackoffElapsed, Initialize, Exit, Goto, GotoWith, TypeOK
  <1>2. CASE InitializeSeek(v) \/ InitializeFails(v) \/ InitializeReport(v)
    BY SMTT(40), <1>2 DEF InitializeSeek, InitializeFails, InitializeReport, Retry, Goto, GotoWith, TypeOK
  <1>3. CASE \/ SleepElapsed(v) \/ ReadOutOfRange(v) \/ ReadKafkaError(v) \/ ReadTimedOut(v)
             \/ ReadBroken(v) \/ Spin(v)
    BY SMTT(40), <1>3 DEF SleepElapsed, ReadOutOfRange, ReadKafkaError, ReadTimedOut, ReadBroken, Spin,
                Retry, Goto, GotoWith, TypeOK
  <1>4. CASE BatchEnds(v) \/ ResetOffset(v) \/ ResetOffsetFails(v) \/ ReadReport(v)
    BY <1>4 DEF BatchEnds, ResetOffset, ResetOffsetFails, ReadReport, Retry, Goto, GotoWith, TypeOK
  <1>5. CASE Read(v)
    <2>1. PICK end \in at[v] .. logEnd : GotoWith(v, "send", end)
      BY Zenon, <1>5 DEF Read
    <2> QED BY Zenon, <1>5, <2>1 DEF Read, GotoWith, TypeOK
  <1>6. CASE SendMessage(v)
    BY <1>6 DEF SendMessage, Goto, GotoWith, TypeOK
  <1> QED BY Zenon, <1>1, <1>2, <1>3, <1>4, <1>5, <1>6 DEF run, Initializing, Reading

\* Only an error, or the message at the offset reached, is sent, and it carries
\* the version that the goroutine read.
LEMMA RunSends ==
  ASSUME IInv, NEW v \in Versions, run(v), ~UNCHANGED msgs
  PROVE  /\ Len(msgs) < QueueCapacity /\ rpc[v] \notin {"unborn", "born"}
         /\ \E item \in Item :
              /\ msgs' = Append(msgs, item) /\ item.version = tag[v]
              /\ ~item.error => /\ rpc[v] = "send" /\ rpc'[v] = "send" /\ at[v] < target[v]
                                /\ item.offset = at[v] /\ at'[v] = at[v] + 1
                                /\ target'[v] = target[v]
PROOF
  <1>1. TypeOK
    BY Zenon DEF IInv
  <1>2. \/ InitializeReport(v) /\ rpc[v] = "report"
        \/ ReadReport(v) /\ rpc[v] = "error"
        \/ SendMessage(v) /\ rpc[v] = "send"
    BY Zenon DEF run, Initializing, Reading, Begin, BackoffElapsed, Initialize, InitializeSeek,
           InitializeFails, InitializeReport, SleepElapsed, Read, ReadOutOfRange, ReadKafkaError, ReadTimedOut,
           ReadBroken, Spin, SendMessage, BatchEnds, ResetOffset, ResetOffsetFails, ReadReport, Exit
  <1>3. CASE (InitializeReport(v) \/ ReadReport(v)) /\ rpc[v] \notin {"unborn", "born"}
    <2>1. SendOrDone(v, ErrorItem(v))
      BY Zenon, <1>3 DEF InitializeReport, ReadReport
    <2>2. ErrorItem(v) \in Item
      BY Zenon, <1>3, <2>1, ReportType
    <2> QED BY Zenon, <1>3, <2>1, <2>2 DEF SendOrDone, ErrorItem
  <1>4. CASE SendMessage(v) /\ rpc[v] = "send"
    <2> DEFINE item == [version |-> tag[v], offset |-> at[v], error |-> FALSE]
    <2>1. /\ Len(msgs) < QueueCapacity /\ msgs' = Append(msgs, item) /\ UNCHANGED <<rpc, target>>
          /\ at' = [at EXCEPT ![v] = @ + 1] /\ at[v] < target[v]
      BY Zenon, <1>4 DEF SendMessage
    <2>2. tag[v] \in Versions
      <3>1. tag[v] \in 1 .. version /\ version \in 0 .. MaxStarts
        BY Zenon, <1>4 DEF IInv, Tags, TypeOK
      <3> QED BY <3>1, Constants DEF Versions
    <2>3. at[v] \in 0 .. MaxOffset
      <3>1. at[v] \in 0 .. logEnd /\ logStart \in 0 .. MaxOffset /\ logEnd \in logStart .. MaxOffset
        BY Zenon, <1>1, <1>4 DEF IInv, Places, TypeOK
      <3> QED BY <3>1, Constants
    <2>4. item \in Item
      BY Zenon, <2>2, <2>3 DEF Item
    <2>5. at'[v] = at[v] + 1
      BY Zenon, <1>1, <2>1 DEF TypeOK
    <2> QED BY Zenon, <1>4, <2>1, <2>4, <2>5
  <1> QED BY Zenon, <1>2, <1>3, <1>4

\* A call starts a goroutine, or leaves them alone but for cancelling one.
LEMMA CallFrame ==
  ASSUME TypeOK, Calls
  PROVE  /\ UNCHANGED logVars
         /\ \/ /\ ~closed /\ \E o \in Offsets : Start(o)
               /\ UNCHANGED <<msgs, held, closed, closes, closeVars>>
               /\ \A f \in Fetchers : fpc'[f] = "lock" => fpc[f] = "lock"
            \/ /\ UNCHANGED <<version, rpc, tag, at, target>>
               /\ cancelled' = cancelled \/ cancelled' = cancel
               /\ Receive \/ UNCHANGED <<msgs, due>>
PROOF
  <1> USE DEF subVars, histVars, closeVars
  <1>1. ASSUME NEW f \in Fetchers, FetchMessage(f), ~closed, version = 0
        PROVE  /\ Start(offset) /\ offset \in Offsets
               /\ UNCHANGED <<msgs, held, closed, closes, closeVars, logVars>>
               /\ \A g \in Fetchers : fpc'[g] = "lock" => fpc[g] = "lock"
    BY Zenon, <1>1 DEF FetchMessage, TypeOK
  <1>2. ASSUME NEW f \in Fetchers, FetchMessage(f), closed \/ version # 0
        PROVE  UNCHANGED <<version, rpc, tag, at, target, cancelled, msgs, due, logVars>>
    BY Zenon, <1>2 DEF FetchMessage
  <1>3. ASSUME NEW f \in Fetchers, FetchReceive(f) \/ FetchDrop(f) \/ FetchEOF(f)
                                     \/ FetchCancelled(f) \/ FetchReturn(f)
        PROVE  /\ UNCHANGED <<version, rpc, tag, at, target, cancelled, logVars>>
               /\ Receive \/ UNCHANGED <<msgs, due>>
    BY Zenon, <1>3 DEF FetchReceive, FetchDrop, FetchEOF, FetchCancelled, FetchReturn
  <1>4. ASSUME NEW o \in SeekTargets, SetOffset(o), o # offset, version # 0
        PROVE  /\ ~closed /\ Start(o) /\ o \in Offsets
               /\ UNCHANGED <<msgs, held, fpc, closed, closes, closeVars, logVars>>
    BY Zenon, <1>4, Constants DEF SetOffset, fetchVars
  <1>5. ASSUME NEW o \in SeekTargets, SetOffset(o), ~(o # offset /\ version # 0)
        PROVE  UNCHANGED <<version, rpc, tag, at, target, cancelled, msgs, due, logVars>>
    BY Zenon, <1>5 DEF SetOffset
  <1>6. ASSUME NEW c \in Closers, Close(c)
        PROVE  /\ UNCHANGED <<version, rpc, tag, at, target, msgs, due, logVars>>
               /\ cancelled' = cancelled \/ cancelled' = cancel
    BY Zenon, <1>6 DEF Close, CloseLocked, CloseCancel, CloseReturn
  <1> QED BY Zenon, <1>1, <1>2, <1>3, <1>4, <1>5, <1>6 DEF Calls, Fetch

\* The steps, by kind.
LEMMA Kinds ==
  ASSUME [Next]_vars
  PROVE  \/ Calls
         \/ \E v \in Versions : run(v)
         \/ Produce \/ Retention
         \/ UNCHANGED vars
PROOF
  BY Zenon DEF Next, Calls

-----------------------------------------------------------------------------
(* The goroutines and their versions. *)

\* Only r.version has a goroutine that is not cancelled.
LEMMA OneReaderStep ==
  ASSUME IInv, [Next]_vars
  PROVE  OneReader'
PROOF
  <1>1. TypeOK /\ OneReader /\ Tags
    BY Zenon DEF IInv
  <1>2. CASE Calls
    <2>1. CASE \E o \in Offsets : Start(o)
      <3>1. PICK o \in Offsets : Start(o)
        BY Zenon, <2>1
      <3>2. version' = version + 1 /\ version + 1 \in Versions
        BY Zenon, <1>1, <3>1, StartType
      <3>3. ASSUME NEW v \in Versions, rpc'[v] # "unborn", v # version + 1
            PROVE  cancelled'[v]
        <4>1. rpc[v] # "unborn" /\ cancelled' = cancel
          BY Zenon, <1>1, <3>1, <3>2, <3>3 DEF Start, TypeOK
        <4>2. cancelled[v] \/ v = version
          BY Zenon, <1>1, <4>1 DEF OneReader
        <4> QED BY Zenon, <4>1, <4>2 DEF cancel
      <3> QED BY Zenon, <3>2, <3>3 DEF OneReader
    <2>2. CASE UNCHANGED <<version, rpc>> /\ (cancelled' = cancelled \/ cancelled' = cancel)
      BY Zenon, <1>1, <2>2 DEF OneReader, cancel
    <2> QED BY Zenon, <1>1, <1>2, <2>1, <2>2, CallFrame
  <1>3. ASSUME NEW v \in Versions, run(v)
        PROVE  OneReader'
    <2>1. /\ UNCHANGED <<version, cancelled>>
          /\ \A w \in Versions : rpc'[w] # "unborn" => rpc[w] # "unborn"
      BY Zenon, <1>1, <1>3, RunFrame DEF Elsewhere
    <2> QED BY Zenon, <1>1, <2>1 DEF OneReader
  <1>4. CASE Produce \/ Retention \/ UNCHANGED vars
    BY Zenon, <1>1, <1>4 DEF Produce, Retention, vars, subVars, OneReader
  <1> QED BY Zenon, <1>2, <1>3, <1>4, Kinds

\* A goroutine that starts late has been cancelled, and gets no further than to
\* dial.
LEMMA TagsStep ==
  ASSUME IInv, [Next]_vars
  PROVE  Tags'
PROOF
  <1>1. TypeOK /\ Tags /\ OneReader
    BY Zenon DEF IInv
  <1>2. version \in Nat
    BY <1>1, Constants DEF TypeOK
  <1>3. CASE Calls
    <2>1. CASE \E o \in Offsets : Start(o)
      <3>1. PICK o \in Offsets : Start(o)
        BY Zenon, <2>1
      <3>2. version' = version + 1 /\ version + 1 \in Versions
        BY Zenon, <1>1, <3>1, StartType
      <3>3. /\ rpc' = [rpc EXCEPT ![version + 1] = "born"] /\ UNCHANGED tag
            /\ \A v \in Versions : cancelled[v] => cancelled'[v]
        BY Zenon, <3>1 DEF Start, cancel
      <3>4. /\ rpc'[version + 1] = "born"
            /\ \A v \in Versions \ {version + 1} : rpc'[v] = rpc[v]
        BY ZenonT(60), <1>1, <3>2, <3>3 DEF TypeOK
      <3>5. \A v \in Versions \ {version + 1} : v \in Nat /\ (v > version <=> v > version + 1)
        BY <1>2, Constants
      <3>6. \A w : w \in 1 .. version => w \in 1 .. version + 1
        BY <1>2
      <3> QED BY <1>1, <1>2, <3>2, <3>3, <3>4, <3>5, <3>6 DEF Tags, Late
    <2>2. CASE UNCHANGED <<version, rpc, tag>> /\ (cancelled' = cancelled \/ cancelled' = cancel)
      BY Zenon, <1>1, <2>2 DEF Tags, Late, cancel
    <2> QED BY Zenon, <1>1, <1>3, <2>1, <2>2, CallFrame
  <1>4. ASSUME NEW v \in Versions, run(v)
        PROVE  Tags'
    <2>1. /\ UNCHANGED <<version, cancelled>>
          /\ rpc[v] \notin {"unborn", "exited"} /\ rpc'[v] # "unborn"
          /\ \A w \in Versions \ {v} : rpc'[w] = rpc[w] /\ tag'[w] = tag[w]
          /\ rpc[v] # "born" => tag'[v] = tag[v]
      BY Zenon, <1>1, <1>4, RunFrame DEF Elsewhere
    <2>2. CASE rpc[v] = "born"
      <3>1. tag'[v] = version /\ rpc'[v] = "init"
        BY ZenonT(60), <1>1, <1>4, <2>2 DEF run, Initializing, Reading, Begin, BackoffElapsed, Initialize,
             InitializeSeek, InitializeFails, InitializeReport, SleepElapsed, Read, ReadOutOfRange,
             ReadKafkaError, ReadTimedOut, ReadBroken, Spin, SendMessage, BatchEnds, ResetOffset,
             ResetOffsetFails, ReadReport, Exit, Goto, GotoWith, TypeOK
      <3>2. version \in 1 .. version /\ (v # version => cancelled[v])
        BY <1>1, <1>2, <2>2, Constants DEF Tags, OneReader
      <3> QED BY Zenon, <1>1, <2>1, <2>2, <3>1, <3>2 DEF Tags, Late
    <2>3. CASE rpc[v] # "born" /\ tag[v] = v
      BY Zenon, <1>1, <2>1, <2>3 DEF Tags, Late
    <2>4. CASE rpc[v] # "born" /\ tag[v] # v
      <3>1. cancelled[v] /\ rpc[v] \in {"init", "backoff", "report"}
        BY Zenon, <1>1, <2>1, <2>4 DEF Tags, Late
      <3>2. InitializeFails(v) \/ InitializeReport(v) \/ Exit(v)
        BY Zenon, <1>4, <3>1 DEF run, Initializing, Reading, Begin, BackoffElapsed, Initialize,
             InitializeSeek, SleepElapsed, Read, ReadOutOfRange,
             ReadKafkaError, ReadTimedOut, ReadBroken, Spin, SendMessage, BatchEnds, ResetOffset,
             ResetOffsetFails, ReadReport
      <3>3. rpc'[v] \in {"backoff", "report", "exited"}
        BY ZenonT(60), <1>1, <3>2 DEF InitializeFails, InitializeReport, Exit, Retry, Goto, GotoWith, TypeOK
      <3> QED BY Zenon, <1>1, <2>1, <2>4, <3>1, <3>3 DEF Tags, Late
    <2> QED BY Zenon, <2>2, <2>3, <2>4
  <1>5. CASE Produce \/ Retention \/ UNCHANGED vars
    BY Zenon, <1>1, <1>5 DEF Produce, Retention, vars, subVars, Tags, Late
  <1> QED BY Zenon, <1>3, <1>4, <1>5, Kinds

\* A goroutine that reads is inside the partition, or behind its beginning.
LEMMA PlacesStep ==
  ASSUME IInv, [Next]_vars
  PROVE  Places'
PROOF
  <1>1. TypeOK /\ Places
    BY Zenon DEF IInv
  <1>2. /\ logStart \in Nat /\ logEnd \in Nat /\ logStart <= logEnd /\ logEnd <= MaxOffset
    BY <1>1, Constants DEF TypeOK
  <1>3. \A v \in Versions : at[v] \in Int /\ target[v] \in Nat
    BY <1>1, Constants DEF TypeOK
  <1>4. CASE Calls
    <2>1. CASE \E o \in Offsets : Start(o)
      <3>1. PICK o \in Offsets : Start(o)
        BY Zenon, <2>1
      <3>2. version + 1 \in Versions /\ UNCHANGED <<logVars, target>>
        BY Zenon, <1>1, <1>4, <3>1, StartType, CallFrame DEF Start
      <3>3. /\ rpc'[version + 1] = "born"
            /\ \A w \in Versions \ {version + 1} : rpc'[w] = rpc[w] /\ at'[w] = at[w]
        BY Zenon, <1>1, <3>1, <3>2 DEF Start, TypeOK
      <3> QED BY Zenon, <1>1, <3>2, <3>3 DEF Places, logVars
    <2>2. CASE UNCHANGED <<rpc, at, target, logVars>>
      BY Zenon, <1>1, <2>2 DEF Places, logVars
    <2> QED BY Zenon, <1>1, <1>4, <2>1, <2>2, CallFrame
  <1>5. ASSUME NEW v \in Versions, run(v)
        PROVE  Places'
    <2>1. /\ UNCHANGED logVars
          /\ \A w \in Versions \ {v} : rpc'[w] = rpc[w] /\ at'[w] = at[w] /\ target'[w] = target[w]
      BY Zenon, <1>1, <1>5, RunFrame DEF Elsewhere
    <2>2. SUFFICES
            /\ rpc'[v] \in {"sleep", "read", "send", "seek", "error", "spin"} => at'[v] \in 0 .. logEnd
            /\ rpc'[v] = "send" => at'[v] <= target'[v] /\ target'[v] <= logEnd
            /\ rpc'[v] = "seek" => at'[v] < logStart
      BY Zenon, <1>1, <2>1 DEF Places, logVars
    <2>3. CASE Begin(v) \/ BackoffElapsed(v) \/ Initialize(v) \/ InitializeFails(v)
               \/ InitializeReport(v) \/ ReadBroken(v) \/ ResetOffsetFails(v) \/ Exit(v)
      <3>1. rpc'[v] \in {"init", "absolute", "backoff", "report", "exited"}
        BY ZenonT(60), <1>1, <2>3 DEF Begin, BackoffElapsed, Initialize, InitializeFails, InitializeReport,
             ReadBroken, ResetOffsetFails, Exit, Retry, Goto, GotoWith, TypeOK
      <3> QED BY Zenon, <3>1
    <2>4. CASE InitializeSeek(v) \/ ResetOffset(v)
      <3>1. \/ rpc'[v] = "backoff"
            \/ rpc'[v] = "sleep" /\ at'[v] \in logStart .. logEnd
        BY <1>1, <1>2, <2>4 DEF InitializeSeek, ResetOffset, ResetTarget, Retry, Goto, GotoWith, TypeOK
      <3> QED BY <1>2, <3>1
    <2>5. CASE SleepElapsed(v) \/ ReadKafkaError(v) \/ ReadTimedOut(v) \/ Spin(v) \/ BatchEnds(v) \/ ReadReport(v)
      <3>1. /\ rpc'[v] \in {"read", "error", "spin", "sleep"} /\ at'[v] = at[v]
            /\ rpc[v] \in {"sleep", "read", "send", "seek", "error", "spin"}
        BY Zenon, <1>1, <2>5 DEF SleepElapsed, ReadKafkaError, ReadTimedOut, Spin, BatchEnds,
             ReadReport, Goto, GotoWith, TypeOK
      <3> QED BY Zenon, <1>1, <3>1 DEF Places
    <2>6. CASE ReadOutOfRange(v)
      <3>1. /\ rpc'[v] = "seek" /\ at'[v] = at[v] /\ rpc[v] = "read"
            /\ at[v] \notin logStart .. logEnd
        BY Zenon, <1>1, <2>6 DEF ReadOutOfRange, Goto, GotoWith, TypeOK
      <3> QED BY <1>1, <1>2, <1>3, <3>1 DEF Places
    <2>7. CASE Read(v)
      <3>1. PICK end \in at[v] .. logEnd : GotoWith(v, "send", end)
        BY Zenon, <2>7 DEF Read
      <3>2. rpc'[v] = "send" /\ target'[v] = end /\ at'[v] = at[v] /\ at[v] \in logStart .. logEnd
        BY Zenon, <1>1, <2>7, <3>1 DEF Read, GotoWith, TypeOK
      <3> QED BY <1>2, <1>3, <3>1, <3>2
    <2>8. CASE SendMessage(v)
      <3>1. /\ rpc[v] = "send" /\ at[v] < target[v]
            /\ \/ rpc'[v] = "send" /\ target'[v] = target[v] /\ at'[v] = at[v] + 1
               \/ rpc'[v] = "sleep" /\ at'[v] = at[v]
        BY Zenon, <1>1, <2>8 DEF SendMessage, Goto, GotoWith, TypeOK
      <3>2. at[v] \in 0 .. logEnd /\ target[v] <= logEnd
        BY Zenon, <1>1, <3>1 DEF Places
      <3> QED BY <1>2, <1>3, <3>1, <3>2
    <2> QED BY Zenon, <1>5, <2>3, <2>4, <2>5, <2>6, <2>7, <2>8 DEF run, Initializing, Reading
  <1>6. CASE Produce \/ Retention
    <2>1. UNCHANGED <<rpc, at, target>> /\ logStart' >= logStart /\ logEnd' >= logEnd /\ logEnd' \in Nat
      BY <1>2, <1>6 DEF Produce, Retention, subVars
    <2>2. logStart' \in Nat
      BY <1>2, <1>6 DEF Produce, Retention
    <2> QED BY <1>1, <1>2, <1>3, <2>1, <2>2 DEF Places
  <1>7. CASE UNCHANGED vars
    BY Zenon, <1>1, <1>7 DEF vars, subVars, logVars, Places
  <1> QED BY Zenon, <1>4, <1>5, <1>6, <1>7, Kinds

\* What a step does to the channel: a message leaves it, or one is added.
LEMMA ChannelStep ==
  ASSUME IInv, [Next]_vars
  PROVE  \/ Receive /\ Calls
         \/ /\ UNCHANGED due \/ Calls
            /\ UNCHANGED msgs
         \/ \E v \in Versions : run(v) /\ ~UNCHANGED msgs
PROOF
  <1>1. CASE Calls
    <2>1. TypeOK
      BY Zenon DEF IInv
    <2> QED BY Zenon, <1>1, <2>1, CallFrame
  <1>2. ASSUME NEW v \in Versions, run(v)
        PROVE  UNCHANGED due
    BY Zenon, <1>2, RunFrame DEF IInv, Elsewhere, histVars
  <1> QED BY Zenon, <1>1, <1>2, Kinds DEF Produce, Retention, vars, histVars

\* The messages in the channel and in the hands of a call are of a version
\* that has been started.
LEMMA ItemsStep ==
  ASSUME IInv, [Next]_vars
  PROVE  Items'
PROOF
  <1>1. TypeOK /\ Items /\ TypeOK' /\ msgs \in Seq(Item)
    BY Zenon, TypeStep DEF IInv, TypeOK
  <1>2. version \in Nat /\ version' \in Nat /\ version' >= version
    <2>1. ASSUME Calls
          PROVE  version' = version \/ version' = version + 1
      BY Zenon, <1>1, <2>1, CallFrame, StartType
    <2>2. ASSUME NEW v \in Versions, run(v)
          PROVE  UNCHANGED version
      BY Zenon, <1>1, <2>2, RunFrame DEF Elsewhere
    <2>3. version' = version \/ version' = version + 1
      BY Zenon, <2>1, <2>2, Kinds DEF Produce, Retention, vars
    <2>4. version \in Nat
      BY <1>1, Constants DEF TypeOK
    <2> QED BY <2>3, <2>4
  <1>3. \A m \in Item : m.version <= version => m.version <= version'
    <2>1. \A m \in Item : m.version \in Nat
      BY Zenon, Constants DEF Item
    <2> QED BY <1>2, <2>1
  <1>4. \A i \in 1 .. Len(msgs) : msgs[i] \in Item /\ Sound(msgs[i])
    BY Zenon, <1>1, LenAndElements DEF Items
  <1>5. \A i \in 1 .. Len(msgs') : Sound(msgs[i])'
    <2>1. CASE Receive
      <3>1. \A i \in 1 .. Len(msgs') : msgs'[i] = msgs[i + 1] /\ i + 1 \in 1 .. Len(msgs)
        BY <1>1, <2>1, ReceiveType
      <3> QED BY Zenon, <1>3, <1>4, <3>1 DEF Sound
    <2>2. CASE UNCHANGED msgs
      BY Zenon, <1>3, <1>4, <2>2 DEF Sound
    <2>3. ASSUME NEW v \in Versions, run(v), ~UNCHANGED msgs
          PROVE  \A i \in 1 .. Len(msgs') : Sound(msgs[i])'
      <3>1. PICK item \in Item :
               /\ msgs' = Append(msgs, item) /\ item.version = tag[v]
               /\ ~item.error => rpc[v] = "send" /\ at[v] < target[v] /\ item.offset = at[v]
        BY Zenon, <2>3, RunSends
      <3>2. /\ Len(msgs') = Len(msgs) + 1 /\ Len(msgs) \in Nat /\ msgs'[Len(msgs) + 1] = item
            /\ \A i \in 1 .. Len(msgs) : msgs'[i] = msgs[i]
        BY Zenon, <1>1, <2>3, <3>1, RunSends, SendType
      <3>3. tag[v] \in 1 .. version
        BY Zenon, <2>3, RunSends DEF IInv, Tags
      <3>4. at[v] < target[v] => at[v] < MaxOffset
        <4>1. target[v] \in 0 .. MaxOffset /\ at[v] \in Offsets
          BY ZenonT(60), <1>1 DEF TypeOK
        <4> QED BY <4>1, Constants
      <3>5. item.version <= version /\ (~item.error => item.offset < MaxOffset)
        BY <1>2, <3>1, <3>3, <3>4
      <3> QED BY <1>3, <1>4, <3>2, <3>5 DEF Sound
    <2> QED BY Zenon, <2>1, <2>2, <2>3, ChannelStep
  <1>6. ASSUME NEW f \in Fetchers, fpc'[f] = "lock"
        PROVE  held'[f] \in Item /\ Sound(held[f])'
    <2>1. CASE fpc[f] = "lock" /\ held'[f] = held[f]
      BY Zenon, <1>1, <1>3, <2>1 DEF Items, Sound
    <2>2. CASE FetchReceive(f)
      <3>1. Receive /\ held'[f] = Head(msgs)
        BY <1>1, <2>2 DEF FetchReceive, TypeOK
      <3>2. Head(msgs) = msgs[1] /\ Head(msgs) \in Item /\ 1 \in 1 .. Len(msgs)
        BY <1>1, <3>1, ReceiveType
      <3> QED BY Zenon, <1>3, <1>4, <3>1, <3>2 DEF Sound
    <2>3. FetchReceive(f) \/ (fpc[f] = "lock" /\ held'[f] = held[f])
      <3>1. ASSUME NEW g \in Fetchers, Fetch(g)
            PROVE  FetchReceive(f) \/ (fpc[f] = "lock" /\ held'[f] = held[f])
        <4>1. CASE FetchMessage(g)
          BY ZenonT(60), <1>1, <1>6, <4>1 DEF FetchMessage, TypeOK
        <4>2. CASE FetchReceive(g)
          BY ZenonT(60), <1>1, <1>6, <4>2 DEF FetchReceive, TypeOK
        <4>3. CASE FetchDrop(g)
          BY Zenon, <1>1, <1>6, <4>3 DEF FetchDrop, TypeOK
        <4>4. CASE FetchOver(g)
          BY <1>1, <1>6, <4>4 DEF FetchOver, TypeOK
        <4> QED BY Zenon, <3>1, <4>1, <4>2, <4>3, <4>4 DEF Fetch, FetchEOF, FetchCancelled, FetchReturn
      <3>2. ASSUME UNCHANGED fetchVars
            PROVE  fpc[f] = "lock" /\ held'[f] = held[f]
        BY Zenon, <1>6, <3>2 DEF fetchVars
      <3>3. CASE Calls
        BY Zenon, <3>1, <3>2, <3>3 DEF Calls, SetOffset, Close, CloseLocked, CloseCancel, CloseReturn
      <3>4. ASSUME NEW v \in Versions, run(v)
            PROVE  UNCHANGED fetchVars
        BY Zenon, <1>1, <3>4, RunFrame DEF Elsewhere
      <3> QED BY Zenon, <3>2, <3>3, <3>4, Kinds DEF Produce, Retention, vars
    <2> QED BY Zenon, <2>1, <2>2, <2>3
  <1> QED BY Zenon, <1>5, <1>6 DEF Items

-----------------------------------------------------------------------------
(* Close. *)

\* The first call of Close closes the channel, when all goroutines have ended,
\* and none starts after that.
LEMMA ClosesStep ==
  ASSUME IInv, [Next]_vars
  PROVE  Closes'
PROOF
  <1>1. TypeOK /\ Closes
    BY Zenon DEF IInv
  <1>2. ASSUME NEW c \in Closers, CloseLocked(c)
        PROVE  Closes'
    <2>1. /\ cpc'[c] = "cancel" /\ wasClosed'[c] = closed /\ closed'
          /\ \A d \in Closers \ {c} : cpc'[d] = cpc[d] /\ wasClosed'[d] = wasClosed[d]
          /\ UNCHANGED <<closes, rpc>>
      BY Zenon, <1>1, <1>2 DEF CloseLocked, subVars, TypeOK
    <2>2. CASE closed
      <3>1. wasClosed'[c]
        BY Zenon, <2>1, <2>2
      <3>2. \A d \in Closers : cpc'[d] # "idle" /\ ~wasClosed'[d] => cpc[d] # "idle" /\ ~wasClosed[d]
        BY Zenon, <2>1, <3>1
      <3>3. closes = 0 => \A d \in Closers : cpc'[d] = "returned" => wasClosed'[d]
        BY Zenon, <1>1, <2>1 DEF Closes
      <3>4. closes = 1 => /\ Joined'
                          /\ \A d \in Closers : cpc'[d] \in {"cancel", "wait"} => wasClosed'[d]
        BY Zenon, <1>1, <2>1, <3>1 DEF Closes, Joined
      <3> QED BY Zenon, <1>1, <2>1, <3>2, <3>3, <3>4 DEF Closes
    <2>3. CASE ~closed
      <3>1. closes = 0 /\ \A d \in Closers : cpc[d] = "idle"
        BY Zenon, <1>1, <2>3 DEF Closes
      <3> QED BY <2>1, <2>3, <3>1 DEF Closes
    <2> QED BY Zenon, <2>2, <2>3
  <1>3. ASSUME NEW c \in Closers, CloseCancel(c)
        PROVE  Closes'
    <2>1. /\ cpc[c] = "cancel" /\ cpc'[c] = "wait" /\ UNCHANGED <<closed, closes, wasClosed, rpc>>
          /\ \A d \in Closers \ {c} : cpc'[d] = cpc[d]
      BY Zenon, <1>1, <1>3 DEF CloseCancel, TypeOK
    <2> QED BY <1>1, <2>1 DEF Closes, Joined
  <1>4. ASSUME NEW c \in Closers, CloseReturn(c)
        PROVE  Closes'
    <2>1. /\ cpc[c] = "wait" /\ cpc'[c] = "returned" /\ UNCHANGED <<closed, wasClosed, rpc>>
          /\ \A d \in Closers \ {c} : cpc'[d] = cpc[d]
          /\ Joined /\ closes' = IF wasClosed[c] THEN closes ELSE closes + 1
      BY Zenon, <1>1, <1>4 DEF CloseReturn, subVars, TypeOK
    <2>2. CASE wasClosed[c]
      BY <1>1, <2>1, <2>2 DEF Closes, Joined
    <2>3. CASE ~wasClosed[c]
      <3>1. closes = 0
        BY Zenon, <1>1, <2>1, <2>3 DEF Closes
      <3>2. closes' = 1
        BY <2>1, <2>3, <3>1
      <3>3. Joined'
        BY Zenon, <2>1 DEF Joined
      <3> QED BY Zenon, <1>1, <2>1, <2>3, <3>1, <3>2, <3>3 DEF Closes
    <2> QED BY Zenon, <2>2, <2>3
  <1>5. ASSUME UNCHANGED <<closed, closes, closeVars>>, Joined => Joined' \/ ~closed
        PROVE  Closes'
    <2>1. UNCHANGED <<cpc, wasClosed>>
      BY Zenon, <1>5 DEF closeVars
    <2>2. closes = 1 => Joined'
      BY Zenon, <1>1, <1>5 DEF Closes
    <2> QED BY Zenon, <1>1, <1>5, <2>1, <2>2 DEF Closes
  <1>6. ASSUME NEW v \in Versions, run(v)
        PROVE  Closes'
    <2>1. UNCHANGED <<closed, closes, closeVars>> /\ ~Joined
      BY Zenon, <1>1, <1>6, RunFrame DEF Elsewhere, Joined
    <2> QED BY Zenon, <1>5, <2>1
  <1>7. CASE Calls /\ ~\E c \in Closers : Close(c)
    <2>1. UNCHANGED <<closed, closes, closeVars>>
      BY Zenon, <1>7 DEF Calls, Fetch, SetOffset, FetchMessage, FetchReceive, FetchDrop, FetchEOF,
           FetchCancelled, FetchReturn
    <2>2. Joined => Joined' \/ ~closed
      BY Zenon, <1>1, <1>7, CallFrame DEF Joined
    <2> QED BY Zenon, <1>5, <2>1, <2>2
  <1>8. CASE Produce \/ Retention \/ UNCHANGED vars
    BY Zenon, <1>5, <1>8 DEF Produce, Retention, vars, subVars, Joined
  <1> QED BY Zenon, <1>2, <1>3, <1>4, <1>6, <1>7, <1>8, Kinds DEF Close

-----------------------------------------------------------------------------
(* The order of the messages. *)

\* What is next stays so when retention deletes more, and then what is left is
\* next as well.
LEMMA NextGrows ==
  ASSUME NEW a \in Int, NEW b \in Int, NEW c \in Int, NEW d \in Nat, NEW e \in Nat,
         IsNext(a, b, d), d <= e, c = b \/ (b <= c /\ c <= e)
  PROVE  IsNext(a, c, e)
PROOF
  BY Constants DEF IsNext

\* An offset is next to itself, and so is the first offset left.
LEMMA NextItself ==
  ASSUME NEW a \in Int, NEW c \in Int, NEW d \in Nat, c = a \/ (a <= c /\ c <= d)
  PROVE  IsNext(a, c, d)
PROOF
  BY Constants DEF IsNext

\* Follows after the step; n and b are not primed.
FollowsNext(v, n, b) ==
  /\ (\A i \in 1 .. n : ~Of(i, v)') => IsNext(due'[v], b, logStart')
  /\ \A i \in 1 .. n : Of(i, v)' /\ (\A j \in i + 1 .. n : ~Of(j, v)') =>
       IsNext(msgs'[i].offset + 1, b, logStart')

\* As the message at the head of the channel leaves it, what was next after the
\* first n messages is so after what is left of them.
LEMMA FollowsReceive ==
  ASSUME TypeOK, Items, Receive, UNCHANGED logVars,
         NEW v \in Versions, NEW n \in 1 .. Len(msgs), NEW b \in Int, Follows(v, n, b)
  PROVE  FollowsNext(v, n - 1, b)
PROOF
  <1>1. /\ Len(msgs) \in Nat \ {0} /\ Len(msgs') = Len(msgs) - 1
        /\ \A i \in 1 .. Len(msgs') : msgs'[i] = msgs[i + 1]
        /\ Head(msgs) = msgs[1] /\ Head(msgs) \in Item
    BY Zenon, ReceiveType
  <1>2. \A i \in 1 .. n - 1 : msgs'[i] = msgs[i + 1] /\ i + 1 \in 2 .. n
    BY <1>1
  <1>3. \A i \in 1 .. n - 1 : Of(i, v)' <=> Of(i + 1, v)
    BY Zenon, <1>2 DEF Of
  <1>4. due'[v] = IF Of(1, v) THEN msgs[1].offset + 1 ELSE due[v]
    BY Zenon, <1>1 DEF Receive, Of, TypeOK, Item
  <1>5. ASSUME \A i \in 1 .. n - 1 : ~Of(i, v)'
        PROVE  IsNext(due'[v], b, logStart')
    <2>1. ASSUME NEW i \in 2 .. n
          PROVE  ~Of(i, v)
      <3>1. i - 1 \in 1 .. n - 1 /\ (i - 1) + 1 = i
        OBVIOUS
      <3> QED BY Zenon, <1>3, <1>5, <3>1
    <2>2. 1 \in 1 .. n /\ 1 + 1 = 2 /\ \A i \in 1 .. n : i = 1 \/ i \in 2 .. n
      OBVIOUS
    <2> QED BY Zenon, <1>4, <2>1, <2>2 DEF Follows, logVars
  <1>6. ASSUME NEW i \in 1 .. n - 1, Of(i, v)', \A j \in i + 1 .. n - 1 : ~Of(j, v)'
        PROVE  IsNext(msgs'[i].offset + 1, b, logStart')
    <2>1. i + 1 \in 1 .. n /\ Of(i + 1, v) /\ msgs'[i] = msgs[i + 1]
      BY <1>2, <1>3, <1>6
    <2>2. ASSUME NEW j \in (i + 1) + 1 .. n
          PROVE  ~Of(j, v)
      <3>1. j - 1 \in i + 1 .. n - 1 /\ (j - 1) + 1 = j /\ j - 1 \in 1 .. n - 1
        OBVIOUS
      <3> QED BY Zenon, <1>3, <1>6, <3>1
    <2> QED BY Zenon, <2>1, <2>2 DEF Follows, logVars
  <1> QED BY Zenon, <1>5, <1>6 DEF FollowsNext

\* The offsets are integers.
LEMMA Integral ==
  ASSUME TypeOK
  PROVE  /\ logStart \in Nat /\ logEnd \in Nat /\ logStart <= logEnd
         /\ \A v \in Versions : due[v] \in Int /\ at[v] \in Int /\ target[v] \in Int
         /\ Len(msgs) \in Nat
         /\ \A i \in 1 .. Len(msgs) : msgs[i].offset \in Int /\ msgs[i].version \in Versions
PROOF
  <1>1. logStart \in Nat /\ logEnd \in Nat /\ logStart <= logEnd
    BY Constants DEF TypeOK
  <1>2. \A v \in Versions : due[v] \in Int /\ at[v] \in Int /\ target[v] \in Int
    BY Zenon, Constants DEF TypeOK
  <1>3. Len(msgs) \in Nat /\ \A i \in 1 .. Len(msgs) : msgs[i] \in Item
    BY Zenon, LenAndElements DEF TypeOK
  <1> QED BY Zenon, <1>1, <1>2, <1>3, Constants DEF Item

\* The versions are ordered.
LEMMA Versioned ==
  /\ \A v \in Versions : v \in Int /\ \A w \in Int : v <= w => w # 0
  /\ \A v \in 0 .. MaxStarts : v \in Int
  /\ \A a, b \in Int : (a < b => a # b) /\ (a <= b /\ ~(a < b) => a = b)
PROOF
  BY Constants

\* Retention leaves what is next, or deletes it and makes its beginning next.
LEMMA FollowsKept ==
  ASSUME TypeOK, NEW v \in Versions, UNCHANGED msgs, due'[v] = due[v],
         logStart' \in Nat, logStart <= logStart',
         NEW n \in 0 .. Len(msgs), NEW b \in Int, NEW c \in Int,
         Follows(v, n, b), c = b \/ (b <= c /\ c <= logStart')
  PROVE  FollowsNext(v, n, c)
PROOF
  <1>1. \A i \in 1 .. n : Of(i, v)' <=> Of(i, v)
    BY Zenon DEF Of
  <1>2. ASSUME NEW a \in Int, IsNext(a, b, logStart)
        PROVE  IsNext(a, c, logStart')
    BY Zenon, <1>2, NextGrows, Integral
  <1>3. ASSUME \A i \in 1 .. n : ~Of(i, v)'
        PROVE  IsNext(due'[v], c, logStart')
    BY Zenon, <1>1, <1>2, <1>3, Integral DEF Follows
  <1>4. ASSUME NEW i \in 1 .. n, Of(i, v)', \A j \in i + 1 .. n : ~Of(j, v)'
        PROVE  IsNext(msgs'[i].offset + 1, c, logStart')
    <2>1. \A j \in i + 1 .. n : j \in 1 .. n
      BY Integral
    <2>2. IsNext(msgs[i].offset + 1, b, logStart)
      BY Zenon, <1>1, <1>4, <2>1 DEF Follows
    <2>3. msgs[i].offset + 1 \in Int
      BY SMTT(40), Integral
    <2> QED BY Zenon, <1>2, <2>2, <2>3
  <1> QED BY Zenon, <1>3, <1>4 DEF FollowsNext

\* A message that is sent changes nothing for those before it, nor for those of
\* another version behind it.
LEMMA FollowsSend ==
  ASSUME TypeOK, NEW v \in Versions, NEW item \in Item, msgs' = Append(msgs, item),
         Len(msgs) < QueueCapacity, UNCHANGED <<due, logStart>>,
         NEW n \in 0 .. Len(msgs), NEW b \in Int, Follows(v, n, b)
  PROVE  /\ FollowsNext(v, n, b)
         /\ (item.error \/ item.version # v) /\ n = Len(msgs) => FollowsNext(v, n + 1, b)
PROOF
  <1>1. /\ Len(msgs) \in Nat /\ msgs'[Len(msgs) + 1] = item
        /\ \A i \in 1 .. Len(msgs) : msgs'[i] = msgs[i]
    BY Zenon, SendType
  <1>2. \A i \in 1 .. n : msgs'[i] = msgs[i] /\ (Of(i, v)' <=> Of(i, v))
    BY <1>1 DEF Of
  <1>3. \A i \in 1 .. n : \A j \in i + 1 .. n : j \in 1 .. n
    OBVIOUS
  <1>4. FollowsNext(v, n, b)
    BY Zenon, <1>2, <1>3 DEF Follows, FollowsNext
  <1>5. ASSUME item.error \/ item.version # v, n = Len(msgs)
        PROVE  FollowsNext(v, n + 1, b)
    <2>1. ~Of(n + 1, v)'
      BY Zenon, <1>1, <1>5 DEF Of
    <2>2. \A i \in 1 .. n + 1 : i \in 1 .. n \/ i = n + 1
      OBVIOUS
    <2>3. ASSUME \A i \in 1 .. n + 1 : ~Of(i, v)'
          PROVE  IsNext(due'[v], b, logStart')
      <3>1. \A i \in 1 .. n : i \in 1 .. n + 1
        OBVIOUS
      <3> QED BY Zenon, <1>4, <2>3, <3>1 DEF FollowsNext
    <2>4. ASSUME NEW i \in 1 .. n + 1, Of(i, v)', \A j \in i + 1 .. n + 1 : ~Of(j, v)'
          PROVE  IsNext(msgs'[i].offset + 1, b, logStart')
      <3>1. i \in 1 .. n /\ \A j \in i + 1 .. n : j \in i + 1 .. n + 1
        BY <2>1, <2>2, <2>4
      <3> QED BY Zenon, <1>4, <2>4, <3>1 DEF FollowsNext
    <2> QED BY Zenon, <2>3, <2>4 DEF FollowsNext
  <1> QED BY Zenon, <1>4, <1>5

\* The message of version v just sent is the last of its version.
LEMMA FollowsOwn ==
  ASSUME TypeOK, NEW v \in Versions, NEW item \in Item, msgs' = Append(msgs, item),
         Len(msgs) < QueueCapacity, UNCHANGED logStart, ~item.error, item.version = v,
         NEW b \in Int, b = item.offset + 1 \/ (item.offset + 1 <= b /\ b <= logStart)
  PROVE  FollowsNext(v, Len(msgs'), b)
PROOF
  <1>1. Len(msgs) \in Nat /\ msgs'[Len(msgs) + 1] = item /\ Len(msgs') = Len(msgs) + 1
    BY Zenon, SendType
  <1>2. Of(Len(msgs), v)'
    BY Zenon, <1>1 DEF Of
  <1>3. item.offset + 1 \in Int
    BY Constants DEF Item
  <1>4. IsNext(item.offset + 1, b, logStart')
    BY Zenon, <1>3, NextItself, Integral
  <1>5. Len(msgs') \in 1 .. Len(msgs')
    BY <1>1
  <1>6. ~\A i \in 1 .. Len(msgs') : ~Of(i, v)'
    BY Zenon, <1>2, <1>5
  <1>7. ASSUME NEW i \in 1 .. Len(msgs'), \A j \in i + 1 .. Len(msgs') : ~Of(j, v)'
        PROVE  IsNext(msgs'[i].offset + 1, b, logStart')
    <2>1. i = Len(msgs')
      <3>1. i < Len(msgs') => Len(msgs') \in i + 1 .. Len(msgs')
        BY <1>1
      <3> QED BY <1>1, <1>2, <1>7, <3>1
    <2> QED BY Zenon, <1>1, <1>4, <2>1
  <1> QED BY Zenon, <1>6, <1>7 DEF FollowsNext

\* What is next for version v stays next, but for what retention deletes.
Carried(v) ==
  /\ \A b, c \in Int : Chain(v, b) /\ (c = b \/ (b <= c /\ c <= logStart')) =>
       FollowsNext(v, Len(msgs'), c)
  /\ due[v] = LastOffset /\ (\A i \in 1 .. Len(msgs) : ~Of(i, v)) =>
       due'[v] = LastOffset /\ (\A i \in 1 .. Len(msgs') : ~Of(i, v)')

\* logStart only grows, and due changes when a message is received, or for the
\* goroutine that starts.
LEMMA HistoryStep ==
  ASSUME IInv, [Next]_vars
  PROVE  /\ logStart' \in Nat /\ logStart <= logStart'
         /\ \A v \in Versions : due'[v] # due[v] => Receive \/ v = version + 1
         /\ Receive /\ ~UNCHANGED msgs => UNCHANGED logVars
PROOF
  <1>1. TypeOK /\ logStart \in Nat
    BY Zenon, Integral DEF IInv
  <1>2. CASE Calls
    <2>1. UNCHANGED logVars
      BY Zenon, <1>1, <1>2, CallFrame
    <2>2. ASSUME NEW o \in Offsets, Start(o)
          PROVE  \A v \in Versions : due'[v] # due[v] => v = version + 1
      BY Zenon, <1>1, <2>2 DEF Start, TypeOK
    <2> QED BY <1>1, <1>2, <2>1, <2>2, CallFrame DEF logVars
  <1>3. ASSUME NEW v \in Versions, run(v)
        PROVE  UNCHANGED <<due, logVars>>
    BY Zenon, <1>1, <1>3, RunFrame DEF Elsewhere, histVars
  <1>4. CASE Produce \/ Retention
    BY <1>1, <1>4 DEF Produce, Retention, histVars
  <1>5. CASE UNCHANGED vars
    BY <1>1, <1>5 DEF vars, histVars, logVars
  <1> QED BY <1>1, <1>2, <1>3, <1>4, <1>5, Kinds DEF logVars

\* A message that is sent carries the number of its goroutine.
LEMMA SendsOwn ==
  ASSUME IInv, NEW v \in Versions, run(v), ~UNCHANGED msgs
  PROVE  /\ Len(msgs) < QueueCapacity /\ UNCHANGED <<due, logStart>>
         /\ \E item \in Item :
              /\ msgs' = Append(msgs, item)
              /\ ~item.error => /\ item.version = v
                                /\ rpc[v] = "send" /\ rpc'[v] = "send" /\ at[v] < target[v]
                                /\ item.offset = at[v] /\ at'[v] = at[v] + 1
PROOF
  <1>1. TypeOK /\ Tags
    BY Zenon DEF IInv
  <1>2. Elsewhere
    BY Zenon, <1>1, RunFrame
  <1>3. rpc[v] = "send" => tag[v] = v
    BY Zenon, <1>1 DEF Tags, Late
  <1> QED BY Zenon, <1>2, <1>3, RunSends DEF Elsewhere, histVars, logVars

\* So do the steps that do not send a message of version v, nor start v.
LEMMA CarriedStep ==
  ASSUME IInv, [Next]_vars, NEW v \in Versions, due'[v] = due[v] \/ Receive,
         run(v) /\ rpc'[v] = "send" => UNCHANGED msgs
  PROVE  Carried(v)
PROOF
  <1>1. TypeOK /\ Items /\ Len(msgs) \in Nat
    BY Zenon, Integral DEF IInv
  <1>2. logStart' \in Nat /\ logStart <= logStart'
    BY Zenon, HistoryStep
  <1>3. CASE UNCHANGED msgs /\ due'[v] = due[v]
    <2>1. ASSUME NEW b \in Int, NEW c \in Int, Chain(v, b), c = b \/ (b <= c /\ c <= logStart')
          PROVE  FollowsNext(v, Len(msgs'), c)
      <3>1. Len(msgs) \in 0 .. Len(msgs) /\ Len(msgs') = Len(msgs)
        BY <1>1, <1>3
      <3>2. Follows(v, Len(msgs), b)
        BY Zenon, <2>1 DEF Chain
      <3>3. FollowsNext(v, Len(msgs), c)
        BY Zenon, <1>1, <1>2, <1>3, <2>1, <3>1, <3>2, FollowsKept
      <3> QED BY Zenon, <3>1, <3>3
    <2>2. \A i \in 1 .. Len(msgs) : ~Of(i, v) => ~Of(i, v)'
      BY Zenon, <1>3 DEF Of
    <2> QED BY Zenon, <1>3, <2>1, <2>2 DEF Carried
  <1>4. CASE Receive /\ ~UNCHANGED msgs
    <2>1. UNCHANGED logVars
      BY Zenon, <1>4, HistoryStep
    <2>2. /\ Len(msgs) \in Nat \ {0} /\ Len(msgs') = Len(msgs) - 1 /\ Len(msgs) \in 1 .. Len(msgs)
          /\ \A i \in 1 .. Len(msgs') : msgs'[i] = msgs[i + 1]
          /\ Head(msgs) = msgs[1] /\ Head(msgs) \in Item
      BY <1>1, <1>4, ReceiveType
    <2>3. ASSUME NEW b \in Int, NEW c \in Int, Chain(v, b), c = b \/ (b <= c /\ c <= logStart')
          PROVE  FollowsNext(v, Len(msgs'), c)
      <3>1. Follows(v, Len(msgs), c)
        <4>1. ASSUME NEW a \in Int, IsNext(a, b, logStart)
              PROVE  IsNext(a, c, logStart)
          <5>1. logStart \in Nat /\ logStart' = logStart
            BY Zenon, <1>1, <2>1, Integral DEF logVars
          <5>2. c = b \/ (b <= c /\ c <= logStart)
            BY Zenon, <2>3, <5>1
          <5>3. logStart <= logStart
            BY <5>1
          <5> QED BY Zenon, <4>1, <5>1, <5>2, <5>3, NextGrows
        <4>2. \A i \in 1 .. Len(msgs) : msgs[i].offset + 1 \in Int
          BY <1>1, Integral
        <4>3. due[v] \in Int
          BY Zenon, <1>1, Integral
        <4> QED BY Zenon, <2>3, <4>1, <4>2, <4>3 DEF Chain, Follows
      <3> QED BY Zenon, <1>1, <1>4, <2>1, <2>2, <3>1, FollowsReceive
    <2>4. ASSUME \A i \in 1 .. Len(msgs) : ~Of(i, v)
          PROVE  due'[v] = due[v] /\ \A i \in 1 .. Len(msgs') : ~Of(i, v)'
      <3>1. ~Of(1, v)
        BY <2>2, <2>4
      <3>2. due'[v] = due[v]
        BY Zenon, <1>1, <1>4, <2>2, <3>1 DEF Receive, Of, TypeOK, Item
      <3>3. \A i \in 1 .. Len(msgs') : i + 1 \in 1 .. Len(msgs)
        BY <2>2
      <3> QED BY Zenon, <2>2, <2>4, <3>2, <3>3 DEF Of
    <2> QED BY Zenon, <2>3, <2>4 DEF Carried
  <1>5. ASSUME NEW w \in Versions, run(w), ~UNCHANGED msgs
        PROVE  Carried(v)
    <2>1. PICK item \in Item :
               /\ msgs' = Append(msgs, item)
               /\ ~item.error => item.version = w /\ rpc'[w] = "send"
      BY Zenon, <1>5, SendsOwn
    <2>2. Len(msgs) < QueueCapacity /\ UNCHANGED <<due, logStart>>
      BY Zenon, <1>5, SendsOwn
    <2>3. item.error \/ item.version # v
      BY Zenon, <1>5, <2>1
    <2>4. /\ Len(msgs') = Len(msgs) + 1 /\ msgs'[Len(msgs) + 1] = item
          /\ \A i \in 1 .. Len(msgs) : msgs'[i] = msgs[i]
      BY Zenon, <1>1, <2>1, <2>2, SendType
    <2>5. ASSUME NEW b \in Int, NEW c \in Int, Chain(v, b), c = b \/ (b <= c /\ c <= logStart')
          PROVE  FollowsNext(v, Len(msgs'), c)
      <3>1. Follows(v, Len(msgs), c)
        <4>1. ASSUME NEW a \in Int, IsNext(a, b, logStart)
              PROVE  IsNext(a, c, logStart)
          BY <1>1, <2>2, <2>5, <4>1, NextGrows, Integral
        <4>2. \A i \in 1 .. Len(msgs) : msgs[i].offset + 1 \in Int
          BY <1>1, Integral
        <4>3. due[v] \in Int
          BY Zenon, <1>1, Integral
        <4> QED BY Zenon, <2>5, <4>1, <4>2, <4>3 DEF Chain, Follows
      <3>2. Len(msgs) \in 0 .. Len(msgs)
        BY <1>1
      <3> QED BY Zenon, <1>1, <2>1, <2>2, <2>3, <2>4, <3>1, <3>2, FollowsSend
    <2>6. ASSUME \A i \in 1 .. Len(msgs) : ~Of(i, v)
          PROVE  \A i \in 1 .. Len(msgs') : ~Of(i, v)'
      <3>1. \A i \in 1 .. Len(msgs') : i \in 1 .. Len(msgs) \/ i = Len(msgs) + 1
        BY <1>1, <2>4
      <3> QED BY Zenon, <2>3, <2>4, <2>6, <3>1 DEF Of
    <2> QED BY Zenon, <2>2, <2>5, <2>6 DEF Carried
  <1>6. Receive => ~UNCHANGED msgs
    <2>1. Receive => Len(msgs') = Len(msgs) - 1
      BY Zenon, <1>1, ReceiveType
    <2> QED BY <1>1, <2>1
  <1> QED BY Zenon, <1>3, <1>4, <1>5, <1>6, ChannelStep

\* A goroutine that starts has sent nothing yet.
LEMMA StartsInOrder ==
  ASSUME IInv, NEW o \in Offsets, Start(o), UNCHANGED <<msgs, logVars>>,
         NEW v \in Versions, v = version + 1
  PROVE  /\ rpc'[v] = "born" /\ at'[v] = o /\ due'[v] = o
         /\ \A i \in 1 .. Len(msgs') : ~Of(i, v)'
         /\ \A b \in Int : IsNext(o, b, logStart) => FollowsNext(v, Len(msgs'), b)
PROOF
  <1>1. TypeOK /\ Items
    BY Zenon DEF IInv
  <1>2. rpc'[v] = "born" /\ at'[v] = o /\ due'[v] = o
    BY Zenon, <1>1 DEF Start, TypeOK
  <1>3. \A i \in 1 .. Len(msgs') : ~Of(i, v)'
    <2>1. \A i \in 1 .. Len(msgs) : msgs[i].version <= version /\ msgs[i].version \in Nat
      BY Zenon, <1>1, Integral, Constants DEF Items, Sound
    <2>2. version \in Nat
      BY <1>1, Constants DEF TypeOK
    <2>3. \A i \in 1 .. Len(msgs) : msgs[i].version # v
      BY <2>1, <2>2
    <2> QED BY Zenon, <2>3 DEF Of
  <1>4. \A b \in Int : IsNext(o, b, logStart) => FollowsNext(v, Len(msgs'), b)
    BY Zenon, <1>2, <1>3 DEF FollowsNext, logVars
  <1> QED BY Zenon, <1>2, <1>3, <1>4

\* A goroutine that the step leaves alone.
LEMMA LeftInOrder ==
  ASSUME IInv, [Next]_vars, NEW v \in Versions, InOrder(v), Carried(v),
         rpc'[v] = rpc[v], at'[v] = at[v], target'[v] = target[v]
  PROVE  InOrder(v)'
PROOF
  <1>1. TypeOK /\ Places /\ at[v] \in Int /\ target[v] \in Int /\ logStart \in Nat
    BY Zenon, Integral DEF IInv
  <1>2. logStart' \in Nat /\ logStart <= logStart'
    BY Zenon, HistoryStep
  <1>3. at[v] # LastOffset => Chain(v, Resume(v))'
    <2> DEFINE c == IF at[v] < logStart' THEN logStart' ELSE at[v]
    <2>1. /\ Resume(v) \in Int /\ c \in Int
          /\ c = Resume(v) \/ (Resume(v) <= c /\ c <= logStart')
      BY <1>1, <1>2 DEF Resume
    <2>2. at[v] # LastOffset => FollowsNext(v, Len(msgs'), c)
      <3> HIDE DEF c
      <3> QED BY Zenon, <2>1 DEF Carried, InOrder
    <2> QED BY Zenon, <2>2 DEF FollowsNext, Chain, Follows, Resume
  <1>4. rpc[v] = "absolute" => Chain(v, target[v])'
    <2>1. rpc[v] = "absolute" => FollowsNext(v, Len(msgs'), target[v])
      BY Zenon, <1>1 DEF Carried, InOrder
    <2> QED BY Zenon, <2>1 DEF FollowsNext, Chain, Follows
  <1>5. rpc[v] = "send" => Chain(v, at[v])'
    <2>1. rpc[v] = "send" => FollowsNext(v, Len(msgs'), at[v])
      BY Zenon, <1>1 DEF Carried, InOrder
    <2> QED BY Zenon, <2>1 DEF FollowsNext, Chain, Follows
  <1>6. at[v] = LastOffset => due'[v] = LastOffset /\ \A i \in 1 .. Len(msgs') : ~Of(i, v)'
    BY Zenon DEF Carried, InOrder
  <1> QED BY Zenon, <1>3, <1>4, <1>5, <1>6 DEF InOrder

\* What InOrder asks for after the step.
LEMMA InOrderNext ==
  ASSUME NEW v \in Versions,
         at'[v] = LastOffset => due'[v] = LastOffset /\ \A i \in 1 .. Len(msgs') : ~Of(i, v)',
         at'[v] # LastOffset =>
           FollowsNext(v, Len(msgs'), IF at'[v] < logStart' THEN logStart' ELSE at'[v]),
         rpc'[v] = "absolute" => FollowsNext(v, Len(msgs'), target'[v]),
         rpc'[v] = "send" => FollowsNext(v, Len(msgs'), at'[v])
  PROVE  InOrder(v)'
PROOF
  BY Zenon DEF InOrder, Chain, Follows, FollowsNext, Resume

\* A goroutine goes on behind what it has sent, whatever its step.
LEMMA RunInOrder ==
  ASSUME IInv, NEW v \in Versions, run(v), AutoOffsetReset = FirstOffset, InOrder(v),
         rpc'[v] # "exited"
  PROVE  InOrder(v)'
PROOF
  <1>1. TypeOK /\ Places /\ at[v] \in Int /\ target[v] \in Int /\ logStart \in Nat /\ logEnd \in Nat
    BY Zenon, Integral DEF IInv
  <1>2. UNCHANGED <<due, logStart, logEnd>>
    BY Zenon, <1>1, RunFrame DEF Elsewhere, histVars, logVars
  <1>3. [Next]_vars
    BY Zenon DEF Next
  <1>4. ASSUME NEW b \in Int, Chain(v, b), Carried(v)
        PROVE  FollowsNext(v, Len(msgs'), b)
    BY Zenon, <1>4 DEF Carried
  <1>5. at[v] < logStart => Resume(v) = logStart
    BY Zenon DEF Resume
  <1>6. ~(at[v] < logStart) => Resume(v) = at[v]
    BY Zenon DEF Resume
  <1>7. Resume(v) \in Int /\ LastOffset \in Int /\ LastOffset < 0
    BY <1>1 DEF Resume, LastOffset
  <1>8. CASE at'[v] = at[v] /\ rpc'[v] \notin {"absolute", "send"}
    <2>1. Carried(v)
      BY Zenon, <1>2, <1>3, <1>8, CarriedStep
    <2>2. at[v] # LastOffset => FollowsNext(v, Len(msgs'), Resume(v))
      BY Zenon, <1>4, <1>7, <2>1 DEF InOrder
    <2>3. at[v] = LastOffset => due'[v] = LastOffset /\ \A i \in 1 .. Len(msgs') : ~Of(i, v)'
      BY Zenon, <2>1 DEF Carried, InOrder
    <2> QED BY Zenon, <1>2, <1>5, <1>6, <1>8, <2>2, <2>3, InOrderNext
  <1>9. CASE Initialize(v)
    <2>1. UNCHANGED <<msgs, at>> /\ rpc'[v] = "absolute"
      BY Zenon, <1>1, <1>9 DEF Initialize, GotoWith, TypeOK
    <2>2. Carried(v)
      BY Zenon, <1>2, <1>3, <2>1, CarriedStep
    <2>3. target'[v] = IF at[v] = LastOffset THEN logEnd ELSE Resume(v)
      BY Zenon, <1>1, <1>9 DEF Initialize, GotoWith, Resume, TypeOK
    <2>4. at[v] # LastOffset => FollowsNext(v, Len(msgs'), Resume(v))
      BY Zenon, <1>4, <1>7, <2>2 DEF InOrder
    <2>5. at[v] = LastOffset => due'[v] = LastOffset /\ \A i \in 1 .. Len(msgs') : ~Of(i, v)'
      BY Zenon, <2>2 DEF Carried, InOrder
    <2>6. at[v] = LastOffset => FollowsNext(v, Len(msgs'), logEnd)
      BY Zenon, <2>5 DEF FollowsNext, IsNext
    <2> QED BY Zenon, <1>2, <1>5, <1>6, <2>1, <2>3, <2>4, <2>5, <2>6, InOrderNext
  <1>10. CASE InitializeSeek(v) /\ target[v] \in logStart .. logEnd
    <2>1. UNCHANGED msgs /\ rpc'[v] = "sleep" /\ at'[v] = target[v] /\ rpc[v] = "absolute"
      BY <1>1, <1>10 DEF InitializeSeek, Goto, GotoWith, TypeOK
    <2>2. Carried(v)
      BY Zenon, <1>2, <1>3, <2>1, CarriedStep
    <2>3. FollowsNext(v, Len(msgs'), target[v])
      BY Zenon, <1>1, <1>4, <2>1, <2>2 DEF InOrder
    <2>4. target[v] # LastOffset /\ ~(target[v] < logStart)
      BY <1>1, <1>7, <1>10
    <2> QED BY Zenon, <1>2, <2>1, <2>3, <2>4, InOrderNext
  <1>11. CASE Read(v)
    <2>1. PICK end \in at[v] .. logEnd : GotoWith(v, "send", end)
      BY Zenon, <1>11 DEF Read
    <2>2. UNCHANGED <<msgs, at>> /\ rpc'[v] = "send" /\ at[v] \in logStart .. logEnd
      BY Zenon, <1>1, <1>11, <2>1 DEF Read, GotoWith, TypeOK
    <2>3. Carried(v)
      BY Zenon, <1>2, <1>3, <2>2, CarriedStep
    <2>4. at[v] # LastOffset /\ ~(at[v] < logStart)
      BY <1>1, <1>7, <2>2
    <2>5. FollowsNext(v, Len(msgs'), at[v])
      BY Zenon, <1>1, <1>4, <1>6, <2>3, <2>4 DEF InOrder
    <2> QED BY Zenon, <1>2, <2>2, <2>4, <2>5, InOrderNext
  <1>12. CASE ResetOffset(v) \/ ResetOffsetFails(v)
    <2>1. /\ UNCHANGED msgs /\ rpc'[v] \in {"sleep", "backoff"} /\ rpc[v] = "seek"
          /\ at'[v] = logStart \/ at'[v] = 0
      BY ZenonT(60), <1>1, <1>12 DEF ResetOffset, ResetOffsetFails, ResetTarget, Retry, Goto, GotoWith, TypeOK
    <2>2. Carried(v)
      BY Zenon, <1>2, <1>3, <2>1, CarriedStep
    <2>3. at[v] \in 0 .. logEnd /\ at[v] < logStart
      BY Zenon, <1>1, <2>1 DEF Places
    <2>4. at[v] # LastOffset /\ at'[v] # LastOffset
      BY <1>1, <1>7, <2>1, <2>3
    <2>5. (IF at'[v] < logStart THEN logStart ELSE at'[v]) = logStart
      BY SMTT(40), <1>1, <2>1, <2>3
    <2>6. FollowsNext(v, Len(msgs'), logStart)
      BY <1>1, <1>4, <1>5, <2>2, <2>3, <2>4 DEF InOrder
    <2> QED BY Zenon, <1>2, <2>1, <2>4, <2>5, <2>6, InOrderNext
  <1>13. CASE ~UNCHANGED msgs /\ rpc'[v] = "send"
    <2>1. /\ Len(msgs) < QueueCapacity
          /\ \E item \in Item :
               /\ msgs' = Append(msgs, item)
               /\ ~item.error => /\ item.version = v /\ rpc[v] = "send"
                                 /\ item.offset = at[v] /\ at'[v] = at[v] + 1
      BY Zenon, <1>13, SendsOwn
    <2>2. PICK item \in Item : /\ msgs' = Append(msgs, item)
                               /\ ~item.error => /\ item.version = v /\ rpc[v] = "send"
                                                 /\ item.offset = at[v] /\ at'[v] = at[v] + 1
      BY Zenon, <2>1
    <2>3. SendMessage(v)
      BY ZenonT(60), <1>1, <1>13 DEF run, Initializing, Reading, Begin, BackoffElapsed, Initialize,
           InitializeSeek, InitializeFails, InitializeReport, SleepElapsed, Read, ReadOutOfRange,
           ReadKafkaError, ReadTimedOut, ReadBroken, Spin, BatchEnds, ResetOffset, ResetOffsetFails, ReadReport,
           Exit, Retry, Goto, GotoWith, TypeOK
    <2>4. ~item.error /\ item.version = v /\ rpc[v] = "send" /\ item.offset = at[v] /\ at'[v] = at[v] + 1
      <3>1. msgs' = Append(msgs, [version |-> tag[v], offset |-> at[v], error |-> FALSE])
        BY Zenon, <1>13, <2>3 DEF SendMessage
      <3>2. msgs'[Len(msgs) + 1] = item /\ msgs'[Len(msgs) + 1].error = FALSE
        <4>1. msgs \in Seq(Item) /\ Len(msgs) \in Nat
          BY Zenon, <1>1, LenAndElements DEF TypeOK
        <4>2. msgs'[Len(msgs) + 1] = item
          BY <2>2, <4>1
        <4>3. msgs'[Len(msgs) + 1] = [version |-> tag[v], offset |-> at[v], error |-> FALSE]
          BY <3>1, <4>1
        <4> QED BY <4>2, <4>3
      <3> QED BY Zenon, <2>2, <3>2
    <2>5. at[v] \in Nat
      BY <1>1, <2>4 DEF Places
    <2>6. ASSUME NEW b \in Int, b = at[v] + 1 \/ (at[v] + 1 <= b /\ b <= logStart)
          PROVE  FollowsNext(v, Len(msgs'), b)
      BY Zenon, <1>1, <1>2, <2>1, <2>2, <2>4, <2>6, FollowsOwn
    <2>7. FollowsNext(v, Len(msgs'), at'[v])
      BY <2>4, <2>5, <2>6
    <2>8. FollowsNext(v, Len(msgs'), IF at'[v] < logStart THEN logStart ELSE at'[v])
      BY <1>1, <2>4, <2>5, <2>6
    <2>9. at'[v] # LastOffset
      BY <1>7, <2>4, <2>5
    <2> QED BY Zenon, <1>2, <1>13, <2>7, <2>8, <2>9, InOrderNext
  <1>14. CASE Begin(v) \/ BackoffElapsed(v) \/ InitializeFails(v) \/ InitializeReport(v)
              \/ SleepElapsed(v) \/ ReadOutOfRange(v) \/ ReadKafkaError(v) \/ ReadTimedOut(v) \/ ReadBroken(v)
              \/ Spin(v) \/ BatchEnds(v) \/ ReadReport(v)
    <2>1. at'[v] = at[v] /\ rpc'[v] \notin {"absolute", "send"}
      BY ZenonT(60), <1>1, <1>14 DEF Begin, BackoffElapsed, InitializeFails, InitializeReport, SleepElapsed,
           ReadOutOfRange, ReadKafkaError, ReadTimedOut, ReadBroken, Spin, BatchEnds, ReadReport,
           Retry, Goto, GotoWith, TypeOK
    <2> QED BY Zenon, <1>8, <2>1
  <1>15. CASE InitializeSeek(v) /\ target[v] \notin logStart .. logEnd
    <2>1. at'[v] = at[v] /\ rpc'[v] = "backoff"
      BY <1>1, <1>15 DEF InitializeSeek, Retry, Goto, GotoWith, TypeOK
    <2> QED BY Zenon, <1>8, <2>1
  <1>16. CASE SendMessage(v)
    <2>1. \/ ~UNCHANGED msgs /\ rpc'[v] = "send"
          \/ at'[v] = at[v] /\ rpc'[v] = "sleep"
      <3>1. CASE Len(msgs) < QueueCapacity /\ UNCHANGED rpc
                 /\ msgs' = Append(msgs, [version |-> tag[v], offset |-> at[v], error |-> FALSE])
        <4>1. msgs \in Seq(Item) /\ Len(msgs) \in Nat
          BY Zenon, <1>1, LenAndElements DEF TypeOK
        <4>2. Len(msgs') = Len(msgs) + 1
          BY <3>1, <4>1
        <4>3. msgs' # msgs
          BY <4>1, <4>2
        <4> QED BY Zenon, <1>16, <3>1, <4>3 DEF SendMessage
      <3> QED BY Zenon, <1>1, <1>16, <3>1 DEF SendMessage, Goto, GotoWith, TypeOK
    <2> QED BY Zenon, <1>8, <1>13, <2>1
  <1>17. ~Exit(v)
    BY Zenon, <1>1 DEF Exit, Goto, GotoWith, TypeOK
  <1> QED BY Zenon, <1>9, <1>10, <1>11, <1>12, <1>14, <1>15, <1>16, <1>17 DEF run, Initializing, Reading

\* Every goroutine goes on behind what it has sent.
LEMMA OrderedStep ==
  ASSUME IInv, [Next]_vars
  PROVE  Ordered'
PROOF
  <1>1. TypeOK /\ Tags /\ Ordered /\ logStart \in Nat
    BY Zenon, Integral DEF IInv
  <1> SUFFICES ASSUME AutoOffsetReset = FirstOffset, NEW v \in Versions,
                      rpc'[v] \notin {"unborn", "exited"}, ~Late(v)'
               PROVE  InOrder(v)'
    BY Zenon DEF Ordered
  <1>2. ASSUME UNCHANGED <<msgs, logVars>>, NEW o \in Offsets, Start(o), v = version + 1
        PROVE  InOrder(v)'
    <2>1. /\ rpc'[v] = "born" /\ at'[v] = o /\ due'[v] = o
          /\ \A i \in 1 .. Len(msgs') : ~Of(i, v)'
          /\ \A b \in Int : IsNext(o, b, logStart) => FollowsNext(v, Len(msgs'), b)
      BY Zenon, <1>2, StartsInOrder
    <2> DEFINE b == IF o < logStart THEN logStart ELSE o
    <2>2. o \in Int /\ b \in Int /\ (b = o \/ (o <= b /\ b <= logStart))
      BY <1>1, Constants
    <2> HIDE DEF b
    <2>3. IsNext(o, b, logStart)
      BY Zenon, <1>1, <2>2, NextItself
    <2>4. FollowsNext(v, Len(msgs'), b)
      BY Zenon, <2>1, <2>2, <2>3
    <2>5. FollowsNext(v, Len(msgs'), IF at'[v] < logStart' THEN logStart' ELSE at'[v])
      BY Zenon, <1>2, <2>1, <2>4 DEF b, logVars
    <2> QED BY Zenon, <2>1, <2>5, InOrderNext
  <1>3. ASSUME rpc'[v] = rpc[v], tag'[v] = tag[v], at'[v] = at[v], target'[v] = target[v],
               due'[v] = due[v] \/ Receive, ~run(v)
        PROVE  InOrder(v)'
    <2>1. InOrder(v)
      BY Zenon, <1>1, <1>3 DEF Ordered, Late
    <2>2. Carried(v)
      BY Zenon, <1>3, CarriedStep
    <2> QED BY Zenon, <1>3, <2>1, <2>2, LeftInOrder
  <1>4. CASE run(v)
    <2>1. rpc[v] \notin {"unborn", "exited"} /\ ~Late(v)
      BY Zenon, <1>1, <1>4, RunFrame DEF Late
    <2> QED BY Zenon, <1>1, <1>4, <2>1, RunInOrder DEF Ordered
  <1>5. ASSUME NEW w \in Versions, run(w), ~run(v)
        PROVE  InOrder(v)'
    <2>1. UNCHANGED due /\ w # v
      BY Zenon, <1>1, <1>5, RunFrame DEF Elsewhere, histVars
    <2> QED BY Zenon, <1>1, <1>3, <1>5, <2>1, RunFrame
  <1>6. CASE Calls /\ ~run(v)
    <2>1. ASSUME UNCHANGED <<msgs, logVars>>, NEW o \in Offsets, Start(o), v # version + 1
          PROVE  InOrder(v)'
      <3>1. /\ rpc'[v] = rpc[v] /\ tag'[v] = tag[v] /\ at'[v] = at[v] /\ target'[v] = target[v]
            /\ due'[v] = due[v]
        BY Zenon, <1>1, <2>1 DEF Start, TypeOK
      <3> QED BY Zenon, <1>3, <1>6, <3>1
    <2>2. CASE UNCHANGED <<rpc, tag, at, target>> /\ (Receive \/ UNCHANGED <<msgs, due>>)
      BY Zenon, <1>3, <1>6, <2>2
    <2> QED BY Zenon, <1>1, <1>2, <1>6, <2>1, <2>2, CallFrame
  <1>7. CASE (Produce \/ Retention \/ UNCHANGED vars) /\ ~run(v)
    <2>1. UNCHANGED <<rpc, tag, at, target, due>>
      BY Zenon, <1>7 DEF Produce, Retention, vars, subVars, histVars
    <2> QED BY Zenon, <1>3, <1>7, <2>1
  <1> QED BY Zenon, <1>4, <1>5, <1>6, <1>7, Kinds

\* The messages in the channel follow each other.
LEMMA TaggedStep ==
  ASSUME IInv, [Next]_vars
  PROVE  TaggedInOrder'
PROOF
  <1>1. TypeOK /\ Items /\ Tags /\ Ordered /\ TaggedInOrder /\ logStart \in Nat
    BY Zenon, Integral DEF IInv
  <1>2. logStart' \in Nat /\ logStart <= logStart'
    BY Zenon, HistoryStep
  <1>3. /\ Len(msgs) \in Nat
        /\ \A i \in 1 .. Len(msgs) : msgs[i].offset \in Int /\ msgs[i].version \in Versions
    BY Zenon, <1>1, Integral
  <1> SUFFICES ASSUME AutoOffsetReset = FirstOffset, NEW i \in 1 .. Len(msgs'), ~msgs'[i].error,
                      NEW v, v = msgs'[i].version, NEW o, o = msgs'[i].offset
               PROVE  FollowsNext(v, i - 1, o)
    BY Zenon DEF TaggedInOrder, Follows, FollowsNext
  <1>4. ASSUME NEW k \in 1 .. Len(msgs), ~msgs[k].error
        PROVE  Follows(msgs[k].version, k - 1, msgs[k].offset)
    BY Zenon, <1>1, <1>4 DEF TaggedInOrder
  <1>5. CASE Receive /\ ~UNCHANGED msgs
    <2>1. UNCHANGED logVars
      BY Zenon, <1>5, HistoryStep
    <2>2. /\ Len(msgs) \in Nat \ {0} /\ Len(msgs') = Len(msgs) - 1
          /\ \A k \in 1 .. Len(msgs') : msgs'[k] = msgs[k + 1]
      BY Zenon, <1>1, <1>5, ReceiveType
    <2>3. /\ msgs'[i] = msgs[i + 1] /\ i + 1 \in 1 .. Len(msgs) /\ (i + 1) - 1 = i
          /\ i \in 1 .. Len(msgs)
      BY <2>2
    <2>4. Follows(v, i, o) /\ v \in Versions /\ o \in Int
      BY Zenon, <1>3, <1>4, <2>3
    <2> QED BY Zenon, <1>1, <1>5, <2>1, <2>3, <2>4, FollowsReceive
  <1>6. CASE UNCHANGED msgs
    <2>1. Follows(v, i - 1, o) /\ v \in Versions /\ o \in Int /\ i - 1 \in 0 .. Len(msgs)
      BY <1>3, <1>4, <1>6
    <2>2. due'[v] = due[v]
      <3>1. ~Receive
        BY <1>1, <1>3, <1>6, ReceiveType
      <3>2. v <= version /\ v \in Nat /\ version \in Nat
        <4>1. v <= version
          BY Zenon, <1>1, <1>6 DEF Items, Sound
        <4>2. version \in Nat
          BY SMTT(40), <1>1, Constants DEF TypeOK
        <4> QED BY Zenon, <2>1, <4>1, <4>2, Constants
      <3> QED BY <2>1, <3>1, <3>2, HistoryStep
    <2> QED BY ZenonT(60), <1>1, <1>2, <1>6, <2>1, <2>2, FollowsKept
  <1>7. ASSUME NEW w \in Versions, run(w), ~UNCHANGED msgs
        PROVE  FollowsNext(v, i - 1, o)
    <2>1. PICK item \in Item :
            /\ msgs' = Append(msgs, item)
            /\ ~item.error => item.version = w /\ rpc[w] = "send" /\ item.offset = at[w]
      BY Zenon, <1>7, SendsOwn
    <2>2. Len(msgs) < QueueCapacity /\ UNCHANGED <<due, logStart>>
      BY Zenon, <1>7, SendsOwn
    <2>3. /\ Len(msgs') = Len(msgs) + 1 /\ msgs'[Len(msgs) + 1] = item
          /\ \A k \in 1 .. Len(msgs) : msgs'[k] = msgs[k]
      BY Zenon, <1>1, <2>1, <2>2, SendType
    <2>4. CASE i \in 1 .. Len(msgs)
      <3>1. Follows(v, i - 1, o) /\ v \in Versions /\ o \in Int /\ i - 1 \in 0 .. Len(msgs)
        BY <1>3, <1>4, <2>3, <2>4
      <3> QED BY Zenon, <1>1, <2>1, <2>2, <3>1, FollowsSend
    <2>5. CASE i = Len(msgs) + 1
      <3>1. v = w /\ rpc[w] = "send" /\ o = at[w]
        BY Zenon, <2>1, <2>3, <2>5
      <3>2. Chain(w, at[w])
        BY Zenon, <1>1, <3>1 DEF Ordered, Tags, InOrder, Late
      <3>3. at[w] \in Int /\ i - 1 = Len(msgs) /\ Len(msgs) \in 0 .. Len(msgs)
        BY <1>1, <1>3, <2>5, Integral
      <3> QED BY Zenon, <1>1, <2>1, <2>2, <3>1, <3>2, <3>3, FollowsSend DEF Chain
    <2> QED BY <1>3, <2>3, <2>4, <2>5
  <1> QED BY Zenon, <1>5, <1>6, <1>7, ChannelStep

-----------------------------------------------------------------------------
(* The theorems. *)

\* The invariant holds at first.
LEMMA InitInvariant == Init => IInv
PROOF
  <1> SUFFICES ASSUME Init
               PROVE  IInv
    BY Zenon
  <1>1. \A v \in Versions : rpc[v] = "unborn" /\ v > 0
    BY Constants DEF Init
  <1>2. TypeOK
    <2>1. msgs \in Seq(Item) /\ Len(msgs) <= QueueCapacity
      BY ReaderAssumption DEF Init
    <2>2. /\ offset \in Offsets /\ version \in 0 .. MaxStarts /\ closes \in Nat
          /\ logStart \in 0 .. MaxOffset /\ logEnd \in logStart .. MaxOffset /\ expected \in Offsets
      BY Constants DEF Init
    <2>3. /\ closed \in BOOLEAN /\ overlapped \in BOOLEAN
          /\ fpc \in [Fetchers -> {"idle", "select", "lock"}]
          /\ held \in [Fetchers -> Item \cup {NoItem}]
          /\ undisturbed \in [Fetchers -> BOOLEAN]
          /\ cpc \in [Closers -> {"idle", "cancel", "wait", "returned"}]
          /\ wasClosed \in [Closers -> BOOLEAN]
      BY Zenon DEF Init
    <2>4. seen \in [Fetchers -> 0 .. MaxStarts]
      BY Constants DEF Init
    <2>5. /\ rpc \in [Versions -> {"unborn", "born", "backoff", "init", "absolute", "report",
                           "sleep", "read", "send", "seek", "error", "spin", "exited"}]
          /\ cancelled \in [Versions -> BOOLEAN]
          /\ conn \in [Versions -> {"nil", "open", "skewed"}]
      BY Zenon DEF Init
    <2>6. /\ tag \in [Versions -> 0 .. MaxStarts] /\ at \in [Versions -> Offsets]
          /\ target \in [Versions -> 0 .. MaxOffset] /\ due \in [Versions -> Offsets]
      BY Constants DEF Init
    <2>7. attempt \in [Versions -> 0 .. ReportAttempt]
      BY ReaderAssumption DEF Init
    <2> QED BY Zenon, <2>1, <2>2, <2>3, <2>4, <2>5, <2>6, <2>7 DEF TypeOK
  <1>3. Len(msgs) = 0 /\ \A i \in 1 .. Len(msgs) : FALSE
    BY DEF Init
  <1>4. Items /\ TaggedInOrder
    BY Zenon, <1>3 DEF Init, Items, TaggedInOrder
  <1>5. Tags /\ Places /\ Ordered /\ OneReader
    BY Zenon, <1>1 DEF Init, Tags, Late, Places, Ordered, OneReader
  <1>6. Closes
    BY DEF Init, Closes
  <1> QED BY Zenon, <1>2, <1>4, <1>5, <1>6 DEF IInv

\* The invariant is inductive.
LEMMA Invariant == Spec => []IInv
PROOF
  <1>1. IInv /\ [Next]_vars => IInv'
    BY Zenon, TypeStep, ItemsStep, TagsStep, PlacesStep, OrderedStep, TaggedStep, ClosesStep,
       OneReaderStep DEF IInv
  <1> QED BY <1>1, InitInvariant, PTL DEF Spec

\* The variables of the Reader keep to their types, and the channel to its
\* capacity.
THEOREM TypeCorrect == Spec => []TypeOK
PROOF
  <1>1. IInv => TypeOK
    BY Zenon DEF IInv
  <1> QED BY <1>1, Invariant, PTL

\* Whatever calls SetOffset, FetchMessage and Close make, and whenever the
\* goroutines run: the messages of a version leave the channel from the offset
\* given to start on, without repetition, and without a gap but for deleted
\* offsets.
THEOREM VersionsInOrder == Spec => []TaggedInOrder
PROOF
  <1>1. IInv => TaggedInOrder
    BY Zenon DEF IInv
  <1> QED BY <1>1, Invariant, PTL

\* At most one reader goroutine is not cancelled, the one of r.version.
THEOREM OneReaderRuns == Spec => []OneReader
PROOF
  <1>1. IInv => OneReader
    BY Zenon DEF IInv
  <1> QED BY <1>1, Invariant, PTL

\* However many goroutines call Close, the channel is closed once, and no
\* reader goroutine is left that could send on it.
THEOREM ClosedOnceAndLast == Spec => []ChannelClosedLast
PROOF
  <1>1. IInv => ChannelClosedLast
    BY DEF IInv, Closes, Joined, ChannelClosedLast
  <1> QED BY <1>1, Invariant, PTL

-----------------------------------------------------------------------------
(* Where a goroutine goes on when its offset has been deleted. *)

\* Between the two reads of the offsets by initialize the target stays at most
\* where the goroutine goes on.
AimInv ==
  \A v \in Versions : rpc[v] = "absolute" /\ at[v] # LastOffset => target[v] <= Resume(v)

\* The steps of a goroutine that go to its Seek, or come from a Seek that succeeded.
LEMMA Seeks ==
  ASSUME TypeOK, NEW v \in Versions, run(v)
  PROVE  /\ rpc'[v] = "absolute" => Initialize(v)
         /\ rpc[v] \in {"absolute", "seek"} /\ rpc'[v] = "sleep" =>
              InitializeSeek(v) \/ ResetOffset(v)
PROOF
  <1>1. CASE Begin(v) \/ BackoffElapsed(v) \/ Exit(v) \/ InitializeFails(v) \/ InitializeReport(v)
    BY ZenonT(60), <1>1 DEF Begin, BackoffElapsed, Exit, InitializeFails, InitializeReport, Retry, Goto,
                GotoWith, TypeOK
  <1>2. CASE Initialize(v)
    BY Zenon, <1>2 DEF Initialize, GotoWith, TypeOK
  <1>3. CASE InitializeSeek(v)
    BY <1>3 DEF InitializeSeek, Retry, Goto, GotoWith, TypeOK
  <1>4. CASE \/ SleepElapsed(v) \/ ReadOutOfRange(v) \/ ReadKafkaError(v) \/ ReadTimedOut(v)
             \/ ReadBroken(v) \/ Spin(v)
    BY Zenon, <1>4 DEF SleepElapsed, ReadOutOfRange, ReadKafkaError, ReadTimedOut, ReadBroken, Spin,
                Retry, Goto, GotoWith, TypeOK
  <1>5. CASE BatchEnds(v) \/ ResetOffset(v) \/ ResetOffsetFails(v) \/ ReadReport(v)
    BY Zenon, <1>5 DEF BatchEnds, ResetOffset, ResetOffsetFails, ReadReport, Retry, Goto, GotoWith, TypeOK
  <1>6. CASE Read(v)
    <2>1. PICK end \in at[v] .. logEnd : GotoWith(v, "send", end)
      BY Zenon, <1>6 DEF Read
    <2> QED BY Zenon, <1>6, <2>1 DEF GotoWith, TypeOK
  <1>7. CASE SendMessage(v)
    BY Zenon, <1>7 DEF SendMessage, Goto, GotoWith, TypeOK
  <1> QED BY Zenon, <1>1, <1>2, <1>3, <1>4, <1>5, <1>6, <1>7 DEF run, Initializing, Reading

\* A call leaves the goroutines alone, or makes one that has not run.
LEMMA CallsAside ==
  ASSUME TypeOK, Calls, NEW v \in Versions
  PROVE  \/ rpc'[v] = "born"
         \/ rpc'[v] = rpc[v] /\ at'[v] = at[v] /\ target'[v] = target[v]
PROOF
  <1>1. CASE UNCHANGED <<version, rpc, tag, at, target>>
    BY Zenon, <1>1
  <1>2. ASSUME NEW o \in Offsets, Start(o)
        PROVE  \/ rpc'[v] = "born"
               \/ rpc'[v] = rpc[v] /\ at'[v] = at[v] /\ target'[v] = target[v]
    BY ZenonT(60), <1>2, StartType DEF Start, TypeOK
  <1> QED BY Zenon, <1>1, <1>2, CallFrame

LEMMA AimStep ==
  ASSUME IInv, AimInv, [Next]_vars
  PROVE  AimInv'
PROOF
  <1>1. TypeOK
    BY Zenon DEF IInv
  <1>2. /\ logStart \in Nat /\ logStart' \in Nat /\ logStart <= logStart'
        /\ \A v \in Versions : at[v] \in Int /\ target[v] \in Nat
    <2>1. logStart \in Nat /\ \A v \in Versions : at[v] \in Int /\ target[v] \in Nat
      BY <1>1, Constants DEF TypeOK
    <2> QED BY Zenon, <2>1, HistoryStep
  <1> SUFFICES ASSUME NEW v \in Versions, rpc'[v] = "absolute", at'[v] # LastOffset
               PROVE  target'[v] <= Resume(v)'
    BY Zenon DEF AimInv
  <1>3. CASE rpc'[v] = rpc[v] /\ at'[v] = at[v] /\ target'[v] = target[v]
    <2>1. target[v] <= Resume(v)
      BY Zenon, <1>3 DEF AimInv
    <2> QED BY <1>2, <1>3, <2>1 DEF Resume
  <1>4. CASE Initialize(v)
    <2>1. /\ at'[v] = at[v] /\ logStart' = logStart
          /\ target'[v] = IF at[v] < logStart THEN logStart ELSE at[v]
      BY Zenon, <1>1, <1>4 DEF Initialize, GotoWith, Elsewhere, logVars, TypeOK
    <2> QED BY <1>2, <2>1 DEF Resume
  <1>5. CASE Calls
    BY Zenon, <1>1, <1>3, <1>5, CallsAside
  <1>6. ASSUME NEW w \in Versions, run(w)
        PROVE  target'[v] <= Resume(v)'
    BY Zenon, <1>1, <1>3, <1>4, <1>6, RunFrame, Seeks
  <1>7. CASE Produce \/ Retention \/ UNCHANGED vars
    BY Zenon, <1>3, <1>7 DEF Produce, Retention, vars, subVars
  <1> QED BY Zenon, <1>5, <1>6, <1>7, Kinds

\* With AutoOffsetReset = FirstOffset a goroutine whose offset has been deleted
\* goes on at the first offset that is left, whether initialize or run finds out
\* and whatever retention deletes between the two requests of a seek.
THEOREM ResetsToFirst ==
  ASSUME AutoOffsetReset = FirstOffset
  PROVE  Spec => ResetHonoured
PROOF
  <1>1. Init => AimInv
    BY Zenon DEF Init, AimInv
  <1>2. IInv /\ AimInv /\ [Next]_vars => AimInv'
    BY Zenon, AimStep
  <1>3. IInv /\ AimInv /\ [Next]_vars =>
          [\A v \in Versions : 0 <= at[v] /\ at[v] < logStart =>
             /\ rpc[v] = "init" /\ rpc'[v] = "absolute" => target'[v] = ConfiguredEnd
             /\ rpc[v] = "absolute" /\ rpc'[v] = "sleep" /\ AutoOffsetReset = FirstOffset
                  => at'[v] = ConfiguredEnd
             /\ rpc[v] = "seek" /\ rpc'[v] = "sleep" => at'[v] = ConfiguredEnd]_vars
    <2> SUFFICES ASSUME IInv, AimInv, [Next]_vars, NEW v \in Versions,
                        0 <= at[v], at[v] < logStart,
                        \/ rpc[v] = "init" /\ rpc'[v] = "absolute"
                        \/ rpc[v] \in {"absolute", "seek"} /\ rpc'[v] = "sleep"
                 PROVE  /\ rpc'[v] = "absolute" => target'[v] = logStart
                        /\ rpc'[v] = "sleep" => at'[v] = logStart
      BY Zenon DEF ConfiguredEnd
    <2>1. TypeOK /\ at[v] \in Int /\ target[v] \in Nat /\ logStart \in Nat
      <3>1. TypeOK
        BY Zenon DEF IInv
      <3>2. at[v] \in Offsets /\ target[v] \in 0 .. MaxOffset /\ logStart \in 0 .. MaxOffset
        BY Zenon, <3>1 DEF TypeOK
      <3> QED BY <3>1, <3>2, Constants
    <2>2. rpc'[v] # rpc[v]
      BY Zenon
    <2>3. run(v)
      <3>1. CASE Calls
        BY Zenon, <2>1, <2>2, <3>1, CallsAside
      <3>2. ASSUME NEW w \in Versions, run(w)
            PROVE  w = v
        BY Zenon, <2>1, <2>2, <3>2, RunFrame
      <3>3. ~(Produce \/ Retention \/ UNCHANGED vars)
        BY Zenon, <2>2 DEF Produce, Retention, vars, subVars
      <3> QED BY Zenon, <3>1, <3>2, <3>3, Kinds
    <2>4. CASE InitializeSeek(v) /\ rpc'[v] = "sleep"
      <3>1. rpc[v] = "absolute" /\ target[v] \in logStart .. logEnd /\ at'[v] = target[v]
        BY <2>1, <2>4 DEF InitializeSeek, Retry, Goto, GotoWith, TypeOK
      <3>2. target[v] <= logStart
        BY <2>1, <3>1 DEF AimInv, Resume, LastOffset
      <3> QED BY SMTT(40), <2>1, <3>1, <3>2
    <2>5. CASE ResetOffset(v) /\ rpc'[v] = "sleep"
      BY Zenon, <2>1, <2>5 DEF ResetOffset, ResetTarget, TypeOK
    <2>6. CASE Initialize(v) /\ rpc'[v] = "absolute"
      <3>1. at[v] # LastOffset
        BY <2>1 DEF LastOffset
      <3>2. target'[v] = logStart
        BY Zenon, <2>1, <2>6, <3>1 DEF Initialize, GotoWith, TypeOK
      <3> QED BY Zenon, <2>6, <3>2
    <2> QED BY Zenon, <2>1, <2>3, <2>4, <2>5, <2>6, Seeks
  <1> QED BY <1>1, <1>2, <1>3, Invariant, PTL DEF Spec, ResetHonoured

-----------------------------------------------------------------------------
(* What FetchMessage returns after SetOffset. *)

\* The program calls FetchMessage from one goroutine.
OneFetcher == \A f, g \in Fetchers : f = g

\* A call that is about to return a message.
Holding(f) == fpc[f] = "lock" /\ ~held[f].error

\* The message that a call holds is the one expected, and the next one due is the
\* one after it.
HoldsNext(f) ==
  /\ held[f].version = version /\ due[version] = held[f].offset + 1
  /\ IsNext(expected, held[f].offset, logStart)

\* As long as no SetOffset has overlapped a FetchMessage, the Reader records the
\* offset that the program expects, and the messages of its version that leave
\* the channel go on there.
SeekInv ==
  ~overlapped =>
    /\ offset = expected
    /\ \A f \in Fetchers : fpc[f] # "idle" => seen[f] = version
    /\ \A f \in Fetchers : Holding(f) => HoldsNext(f)
    /\ version # 0 /\ (\A f \in Fetchers : ~Holding(f)) => due[version] = expected

\* A step that leaves the calls alone.
LEMMA SeekKept ==
  ASSUME IInv, SeekInv, [Next]_vars,
         UNCHANGED <<offset, version, fpc, seen, held, expected, overlapped, due>>
  PROVE  SeekInv'
PROOF
  <1>1. ASSUME NEW f \in Fetchers, Holding(f), HoldsNext(f)
        PROVE  HoldsNext(f)'
    <2>1. /\ logStart \in Nat /\ logStart' \in Nat /\ logStart <= logStart' /\ expected \in Int
          /\ held[f].offset \in Int
      <3>1. TypeOK /\ held[f] \in Item
        BY Zenon, <1>1 DEF IInv, Items, Holding
      <3> QED BY <3>1, Constants, HistoryStep DEF TypeOK, Item
    <2>2. IsNext(expected, held[f].offset, logStart')
      BY Zenon, <1>1, <2>1, NextGrows DEF HoldsNext
    <2> QED BY Zenon, <1>1, <2>2 DEF HoldsNext
  <1> QED BY Zenon, <1>1 DEF SeekInv, Holding

\* A call to FetchMessage begins, and maybe starts the first goroutine.
LEMMA SeekFetch ==
  ASSUME TypeOK, SeekInv, OneFetcher, NEW f \in Fetchers, FetchMessage(f)
  PROVE  SeekInv'
PROOF
  <1>1. /\ fpc[f] = "idle" /\ fpc'[f] = "select" /\ seen'[f] = version'
        /\ UNCHANGED <<offset, expected, overlapped, held>>
    BY Zenon DEF FetchMessage, TypeOK
  <1>2. ASSUME NEW g \in Fetchers
        PROVE  g = f /\ ~Holding(g) /\ ~Holding(g)' /\ seen'[g] = version'
    BY Zenon, <1>1 DEF OneFetcher, Holding
  <1>3. CASE UNCHANGED <<version, due>>
    BY Zenon, <1>1, <1>2, <1>3 DEF SeekInv
  <1>4. CASE Start(offset)
    <2>1. version' = version + 1 /\ due'[version + 1] = offset
      <3>1. version + 1 \in Versions /\ offset \in Offsets /\ due \in [Versions -> Offsets]
        BY Zenon, <1>4, StartType DEF TypeOK
      <3> QED BY Zenon, <1>4, <3>1 DEF Start
    <2> QED BY Zenon, <1>1, <1>2, <2>1 DEF SeekInv
  <1> QED BY Zenon, <1>3, <1>4 DEF FetchMessage

\* A message or an error leaves the channel for a call.
LEMMA SeekReceive ==
  ASSUME IInv, SeekInv, OneFetcher, AutoOffsetReset = FirstOffset,
         NEW f \in Fetchers, FetchReceive(f) \/ FetchDrop(f)
  PROVE  SeekInv'
PROOF
  <1> DEFINE m == Head(msgs)
  <1>1. TypeOK /\ Items /\ TaggedInOrder
    BY Zenon DEF IInv
  <1>2. /\ fpc[f] = "select" /\ Receive
        /\ UNCHANGED <<offset, version, expected, overlapped, logStart>>
    BY Zenon DEF FetchReceive, FetchDrop, logVars
  <1>3. /\ Len(msgs) \in Nat \ {0} /\ m = msgs[1] /\ m \in Item
    BY Zenon, <1>1, <1>2, ReceiveType
  <1>4. /\ m.version \in Versions /\ m.version <= version /\ m.version \in Int /\ version \in Int
        /\ m.offset \in Int
    <2>1. m.version <= version
      BY <1>1, <1>3 DEF Items, Sound
    <2>2. m.version \in Versions /\ m.offset \in Int
      <3>1. 1 \in 1 .. Len(msgs)
        BY <1>3
      <3> QED BY Zenon, <1>1, <1>3, <3>1, Integral
    <2>3. version \in 0 .. MaxStarts
      BY Zenon, <1>1 DEF TypeOK
    <2> QED BY ZenonT(60), <2>1, <2>2, <2>3, Versioned
  <1>5. due' = IF m.error THEN due ELSE [due EXCEPT ![m.version] = m.offset + 1]
    BY Zenon, <1>2 DEF Receive
  <1> SUFFICES ASSUME ~overlapped
               PROVE  SeekInv'
    BY Zenon, <1>2 DEF SeekInv
  <1>6. seen[f] = version /\ offset = expected
    BY Zenon, <1>2 DEF SeekInv
  <1>7. \A g \in Fetchers : g = f /\ ~Holding(g)
    BY Zenon, <1>2 DEF OneFetcher, Holding
  <1>8. version # 0 /\ due[version] = expected
    <2>1. version # 0
      BY Zenon, <1>4, Versioned
    <2> QED BY Zenon, <1>7, <2>1 DEF SeekInv
  <1>9. CASE FetchDrop(f)
    <2>1. m.version # version
      BY Zenon, <1>4, <1>6, <1>9, Versioned DEF FetchDrop, Stale
    <2>2. due'[version] = due[version]
      BY <1>1, <1>4, <1>5, <2>1 DEF TypeOK
    <2>3. seen'[f] = version /\ UNCHANGED <<fpc, held>>
      BY Zenon, <1>1, <1>9 DEF FetchDrop, TypeOK
    <2>4. \A g \in Fetchers : ~Holding(g)'
      BY Zenon, <1>7, <2>3 DEF Holding
    <2> QED BY Zenon, <1>2, <1>6, <1>7, <1>8, <2>2, <2>3, <2>4 DEF SeekInv
  <1>10. CASE FetchReceive(f)
    <2>1. m.version = version
      BY Zenon, <1>4, <1>6, <1>10, Versioned DEF FetchReceive, Stale
    <2>2. seen' = seen /\ held'[f] = m /\ fpc'[f] = "lock"
      BY Zenon, <1>1, <1>10 DEF FetchReceive, TypeOK
    <2>3. CASE m.error
      <3>1. due' = due /\ \A g \in Fetchers : ~Holding(g)'
        BY Zenon, <1>5, <1>7, <2>2, <2>3 DEF Holding
      <3> QED BY Zenon, <1>2, <1>6, <1>7, <1>8, <2>2, <3>1 DEF SeekInv
    <2>4. CASE ~m.error
      <3>1. due'[version] = m.offset + 1
        BY Zenon, <1>1, <1>4, <1>5, <2>1, <2>4 DEF TypeOK
      <3>2. IsNext(due[version], m.offset, logStart)
        <4>1. Follows(m.version, 1 - 1, m.offset)
          BY <1>1, <1>3, <2>4 DEF TaggedInOrder
        <4>2. \A i \in 1 .. 1 - 1 : FALSE
          OBVIOUS
        <4> QED BY Zenon, <2>1, <4>1, <4>2 DEF Follows
      <3>3. HoldsNext(f)'
        BY Zenon, <1>2, <1>8, <2>1, <2>2, <3>1, <3>2 DEF HoldsNext
      <3>4. Holding(f)'
        BY Zenon, <2>2, <2>4 DEF Holding
      <3> QED BY Zenon, <1>2, <1>6, <1>7, <2>2, <3>3, <3>4 DEF SeekInv
    <2> QED BY Zenon, <2>3, <2>4
  <1> QED BY Zenon, <1>9, <1>10

\* A call returns; with a message, the offset moves behind it.
LEMMA SeekReturn ==
  ASSUME TypeOK, SeekInv, OneFetcher,
         NEW f \in Fetchers, FetchReturn(f) \/ FetchEOF(f) \/ FetchCancelled(f)
  PROVE  SeekInv'
PROOF
  <1>1. UNCHANGED <<version, overlapped, due>> /\ fpc[f] # "idle" /\ fpc'[f] = "idle"
    BY Zenon DEF FetchReturn, FetchEOF, FetchCancelled, FetchOver, TypeOK
  <1>2. \A g \in Fetchers : g = f /\ fpc'[g] = "idle" /\ ~Holding(g)'
    BY Zenon, <1>1 DEF OneFetcher, Holding
  <1>3. CASE UNCHANGED <<offset, expected>> /\ ~Holding(f)
    BY Zenon, <1>1, <1>2, <1>3 DEF SeekInv
  <1>4. CASE FetchReturn(f) /\ Holding(f)
    <2> SUFFICES ASSUME ~overlapped
                 PROVE  SeekInv'
      BY Zenon, <1>1 DEF SeekInv
    <2>1. seen[f] = version /\ held[f].version = version /\ due[version] = held[f].offset + 1
      BY Zenon, <1>1, <1>4 DEF SeekInv, HoldsNext
    <2>2. offset' = held[f].offset + 1 /\ expected' = held[f].offset + 1
      BY Zenon, <1>4, <2>1 DEF FetchReturn, Holding
    <2> QED BY Zenon, <1>1, <1>2, <2>1, <2>2 DEF SeekInv
  <1>5. CASE FetchReturn(f) /\ ~Holding(f)
    BY Zenon, <1>3, <1>5 DEF FetchReturn, Holding
  <1>6. CASE FetchEOF(f) \/ FetchCancelled(f)
    <2>1. fpc[f] = "select" /\ UNCHANGED <<offset, expected>>
      BY Zenon, <1>6 DEF FetchEOF, FetchCancelled
    <2> QED BY Zenon, <1>3, <2>1 DEF Holding
  <1> QED BY Zenon, <1>4, <1>5, <1>6

\* SetOffset between two calls of FetchMessage.
LEMMA SeekSet ==
  ASSUME TypeOK, SeekInv, NEW o \in SeekTargets, SetOffset(o)
  PROVE  SeekInv'
PROOF
  <1> SUFFICES ASSUME ~overlapped'
               PROVE  SeekInv'
    BY Zenon DEF SeekInv
  <1>1. /\ ~overlapped /\ offset' = o /\ expected' = o
        /\ \A f \in Fetchers : fpc[f] = "idle" /\ fpc'[f] = "idle"
    BY Zenon DEF SetOffset, fetchVars
  <1>2. \A f \in Fetchers : ~Holding(f) /\ ~Holding(f)'
    BY Zenon, <1>1 DEF Holding
  <1>3. CASE UNCHANGED <<version, due>> /\ (o = offset \/ version = 0)
    BY Zenon, <1>1, <1>2, <1>3 DEF SeekInv
  <1>4. CASE Start(o)
    <2>1. version' = version + 1 /\ due'[version + 1] = o
      <3>1. version + 1 \in Versions /\ due \in [Versions -> Offsets]
        BY Zenon, <1>4, StartType, Constants DEF TypeOK
      <3> QED BY Zenon, <1>4, <3>1 DEF Start
    <2> QED BY Zenon, <1>1, <1>2, <2>1 DEF SeekInv
  <1> QED BY Zenon, <1>3, <1>4 DEF SetOffset

LEMMA SeekStep ==
  ASSUME IInv, SeekInv, OneFetcher, AutoOffsetReset = FirstOffset, [Next]_vars
  PROVE  SeekInv'
PROOF
  <1>1. TypeOK
    BY Zenon DEF IInv
  <1>2. ASSUME NEW f \in Fetchers, Fetch(f)
        PROVE  SeekInv'
    BY Zenon, <1>1, <1>2, SeekFetch, SeekReceive, SeekReturn DEF Fetch
  <1>3. ASSUME NEW c \in Closers, Close(c)
        PROVE  UNCHANGED <<offset, version, fpc, seen, held, expected, overlapped, due>>
    BY Zenon, <1>3 DEF Close, CloseLocked, CloseCancel, CloseReturn, fetchVars, histVars
  <1>4. ASSUME NEW v \in Versions, run(v)
        PROVE  UNCHANGED <<offset, version, fpc, seen, held, expected, overlapped, due>>
    BY Zenon, <1>1, <1>4, RunFrame DEF Elsewhere, fetchVars, histVars
  <1>5. CASE Produce \/ Retention \/ UNCHANGED vars
    BY Zenon, <1>5, SeekKept DEF Produce, Retention, vars, fetchVars, histVars
  <1> QED BY Zenon, <1>1, <1>2, <1>3, <1>4, <1>5, SeekKept, SeekSet, Kinds DEF Calls

\* When one goroutine calls FetchMessage and SetOffset is called between its calls
\* only, a message returned is the one at the offset given to SetOffset, then the
\* one after the last returned, but for deleted offsets: none of an earlier
\* version that is still in the channel, none that the goroutine started last
\* skips or sends twice, whatever fails.
THEOREM SeeksAreHonoured ==
  ASSUME OneFetcher, AutoOffsetReset = FirstOffset
  PROVE  Spec => SetOffsetHonoured
PROOF
  <1>1. Init => SeekInv
    <2> SUFFICES ASSUME Init
                 PROVE  SeekInv
      BY Zenon
    <2>1. offset = expected /\ version = 0 /\ \A f \in Fetchers : fpc[f] = "idle"
      BY Zenon DEF Init
    <2> QED BY Zenon, <2>1 DEF SeekInv, Holding
  <1>2. IInv /\ SeekInv /\ [Next]_vars => SeekInv'
    BY Zenon, SeekStep
  <1>3. IInv /\ SeekInv => [\A f \in Fetchers : ~overlapped => ReturnsExpected(f)]_vars
    BY Zenon DEF SeekInv, Holding, HoldsNext, ReturnsExpected
  <1> QED BY <1>1, <1>2, <1>3, Invariant, PTL DEF Spec, SetOffsetHonoured
=============================================================================
