-------------------------------- MODULE Batch --------------------------------
(***************************************************************************)
(* Reading a partition over a Conn: Seek and the offset of the Conn        *)
(* (conn.go), the Batch of a fetch response (batch.go), and the readers of *)
(* message sets (message.go), which undo what brokers do to messages:      *)
(* batches compressed as one, relative offsets, messages before the offset *)
(* asked for, batches that log compaction has thinned out, and responses   *)
(* that are cut at the size asked for.                                     *)
(*                                                                         *)
(* One goroutine uses the Conn: what sharing one does is in Conn.tla.      *)
(*                                                                         *)
(* Bytes are tokens, the pieces that the code reads at once:               *)
(*   msg     a message of a version 1 set, at its offset in the set;       *)
(*   wrap    a message that holds a compressed set, the offset of which is *)
(*           that of the last message in it;                               *)
(*   head    the header of a version 2 batch, the records of which follow; *)
(*   packed  one the records of which follow compressed, as a blob, or as  *)
(*           a big one, that the 4096 bytes of a bufio.Reader cannot hold; *)
(*   rec     a record, with its offset from that of the batch;             *)
(*   part    what is left of a token that was cut;                         *)
(*   stub    less than the 17 bytes that tell the version of a message set;*)
(*   rest    the size of the message set, after an error code.             *)
(* The bytes of a response are those of its batches, one after the other.  *)
(***************************************************************************)
EXTENDS Integers, Sequences

CONSTANTS
  Logs,      \* what a partition may hold
  Versions,  \* the versions of the fetch API, of 2 and 5
  Rooms,     \* how many batches MaxBytes has room for
  Deadlines, \* whether the Conn has a read deadline
  APIs,      \* what the program calls: "Read" or "ReadMessage"
  Seeks,     \* the pairs <<offset, whence>> that the program seeks to
  MaxSeeks,  \* bound: how often it does
  MaxResets  \* bound: how often the connection is reset

\* A batch of the log: its format, whether it is compressed, and if so whether
\* it is big, the offsets it was given, and those of the messages it still has.
Entry == [magic : {1, 2}, packed : BOOLEAN, big : BOOLEAN,
          base : Nat, last : Nat, offsets : Seq(Nat)]

\* Batches follow each other and have messages, in order.  The format of a
\* topic may be upgraded.  A message of version 1 is a batch of its own unless
\* it is compressed, and a wrapper has the offset of its last message.
ASSUME BatchAssumption ==
  /\ \A l \in Logs :
       /\ l \in Seq(Entry)
       /\ \A i \in DOMAIN l : LET e == l[i]
                               n == Len(e.offsets) IN
            /\ e.offsets # <<>> /\ e.base <= e.last
            /\ \A j \in 1 .. n : e.offsets[j] \in e.base .. e.last
            /\ \A j, k \in 1 .. n : j < k => e.offsets[j] < e.offsets[k]
            /\ e.magic = 1 => e.offsets[n] = e.last /\ (~e.packed => n = 1)
       /\ \A i, j \in DOMAIN l : i < j => l[i].last < l[j].base /\ l[i].magic <= l[j].magic
  /\ Versions \subseteq {2, 5}
  /\ Rooms \subseteq Nat
  /\ Deadlines \subseteq BOOLEAN
  /\ APIs \subseteq {"Read", "ReadMessage"}
  /\ Seeks \subseteq Int \X {"start", "absolute", "end", "current"}
  /\ MaxSeeks \in Nat /\ MaxResets \in Nat

FirstOffset == -2
None == -1

VARIABLES
  \* the partition: its batches, the first that is not deleted, the last that
  \* is published
  log, head, end,
  \* how it is read
  fetchVersion, room, timed, api,
  \* the Conn: its offset, its net.Conn, what is left of the last response
  offset, netOpen, stream,
  \* where the program is, in Seek: what it seeks, what for, ReadFirstOffset's
  \* answer
  pc, seek,
  \* the messageSetReader: which one, the readers of decompressed data on top of
  \* that of the connection, messageCount, header.firstOffset
  msgs, stack, messageCount, firstOffset,
  \* the Batch: its offset and err; the offset before a Read, and whether the
  \* message fits its buffer
  position, err, saved, fits,
  \* history: the offset of the message that the last read returned; the first
  \* offset that the program has not been given; bounds
  got, want, seeks, resets

partition == <<log, head, end>>
config == <<fetchVersion, room, timed, api>>
conn == <<offset, netOpen, stream>>
reader == <<msgs, stack, messageCount, firstOffset>>
batch == <<position, err, saved, fits>>
history == <<got, want, seeks, resets>>
vars == <<partition, config, conn, pc, seek, reader, batch, history>>

Token(t, o, inner) == [t |-> t, offset |-> o, inner |-> inner]
Part == Token("part", 0, <<>>)

\* No seek under way.
NoSeek == [to |-> 0, whence |-> "absolute", for |-> "idle", first |-> 0]

Init ==
  /\ log \in Logs /\ head = 1 /\ end \in 1 .. Len(log)
  /\ fetchVersion \in Versions /\ room \in Rooms /\ timed \in Deadlines /\ api \in APIs
  /\ offset = FirstOffset /\ netOpen = TRUE /\ stream = <<>>
  /\ pc = "idle" /\ seek = NoSeek
  /\ msgs = "none" /\ stack = <<>> /\ messageCount = 0 /\ firstOffset = 0
  /\ position = 0 /\ err = "nil" /\ saved = 0 /\ fits = TRUE
  /\ got = None /\ want = FirstOffset /\ seeks = 0 /\ resets = 0

-----------------------------------------------------------------------------
(* The partition: external. *)

LogStart == IF head = 1 THEN log[1].base ELSE log[head - 1].last + 1
HighWaterMark == log[end].last + 1

Publish ==
  /\ end < Len(log)
  /\ end' = end + 1
  /\ UNCHANGED <<log, head, config, conn, pc, seek, reader, batch, history>>

\* Retention deletes the oldest batch.
Delete ==
  /\ head <= end
  /\ head' = head + 1
  /\ UNCHANGED <<log, end, config, conn, pc, seek, reader, batch, history>>

\* The bytes of a batch.  Version 2 of the fetch API gets messages in version 1.
Encode(e, version) ==
  LET n == Len(e.offsets)
      relative == [i \in 1 .. n |-> e.offsets[i] - e.base]
      old == e.magic = 1 \/ version = 2
  IN IF e.packed
       THEN IF old THEN <<Token("wrap", e.offsets[n], relative)>>
                   ELSE <<Token("packed", e.base, relative),
                          Token(IF e.big THEN "big" ELSE "blob", 0, relative)>>
       ELSE IF old THEN [i \in 1 .. n |-> Token("msg", e.offsets[i], <<>>)]
                   ELSE <<Token("head", e.base, relative)>>
                          \o [i \in 1 .. n |-> Token("rec", relative[i], <<>>)]

\* A fetch at offset o is answered from the batch at i on.
First(i, o) ==
  /\ i \in head .. end
  /\ log[i].last >= o
  /\ \A j \in head .. i - 1 : log[j].last < o

\* The message sets in the responses from i on: the batches that MaxBytes has
\* room for, and perhaps part of the next.  Version 5 sends the first one whole.
Responses(i) ==
  LET all == end - i + 1
      fit == IF fetchVersion = 5 /\ room = 0 THEN 1 ELSE room
      n == IF fit < all THEN fit ELSE all
      whole == [j \in 1 .. n |-> Encode(log[i + j - 1], fetchVersion)]
      next == Encode(log[i + n], fetchVersion)
  IN IF n = all
       THEN {whole}
       ELSE {Append(whole, SubSeq(next, 1, k) \o <<Part>>) : k \in 0 .. Len(next) - 1}
              \cup IF n = 0 THEN {<<<<Token("stub", 0, <<>>)>>>>} ELSE {whole}

-----------------------------------------------------------------------------
(* Conn.Seek, with the two requests of ReadOffsets. *)

\* A request can be sent and its response found.
Usable == netOpen /\ stream = <<>>

BeginSeek(to, whence, for) ==
  /\ pc' = "first"
  /\ seek' = [to |-> IF whence = "current" THEN offset + to ELSE to,
              whence |-> whence, for |-> for, first |-> 0]

\* The program seeks: an absolute offset that is that of the Conn is not looked
\* up.
Seek(to, whence) ==
  /\ pc = "idle" /\ Usable
  /\ <<to, whence>> \in Seeks /\ seeks < MaxSeeks
  /\ seeks' = seeks + 1
  /\ IF whence = "absolute" /\ to = offset
       THEN want' = to /\ UNCHANGED <<pc, seek>>
       ELSE BeginSeek(to, whence, "idle") /\ UNCHANGED want
  /\ UNCHANGED <<partition, config, conn, reader, batch, got, resets>>

\* The program goes to the start when what it wants has been deleted.
SeekToStart ==
  /\ pc = "idle" /\ Usable
  /\ offset # FirstOffset /\ offset < LogStart
  /\ BeginSeek(0, "start", "idle")
  /\ UNCHANGED <<partition, config, conn, reader, batch, history>>

ReadFirstOffset ==
  /\ pc = "first"
  /\ pc' = "last"
  /\ seek' = [seek EXCEPT !.first = LogStart]
  /\ UNCHANGED <<partition, config, conn, reader, batch, history>>

\* The offset sought.
Target(last) ==
  CASE seek.whence = "start" -> seek.first + seek.to
    [] seek.whence = "end"   -> last - seek.to
    [] OTHER                 -> seek.to

\* What the documentation of Seek says that it is.
Sought(last) ==
  IF seek.whence = "end" THEN last - seek.to
    ELSE seek.to + IF seek.whence = "start" THEN seek.first ELSE 0

\* ReadLastOffset, and what follows it.  The program of a Seek that fails goes
\* on where the Conn is.
SeekReturn ==
  /\ pc = "last"
  /\ LET to == Target(HighWaterMark) IN
       IF to < seek.first \/ to > HighWaterMark
         THEN /\ pc' = "idle"
              /\ UNCHANGED offset
              /\ want' = IF offset = FirstOffset THEN FirstOffset ELSE want
         ELSE /\ pc' = seek.for
              /\ offset' = to
              /\ want' = Sought(HighWaterMark)
  /\ seek' = NoSeek
  /\ UNCHANGED <<partition, config, netOpen, stream, reader, batch, got, seeks, resets>>

-----------------------------------------------------------------------------
(* ReadBatchWith. *)

\* A Conn that has no offset yet seeks to the start.
ReadBatch ==
  /\ pc = "idle" /\ Usable
  /\ IF offset = FirstOffset
       THEN BeginSeek(0, "start", "fetch")
       ELSE pc' = "fetch" /\ UNCHANGED seek
  /\ UNCHANGED <<partition, config, conn, reader, batch, history>>

\* The Batch that is returned.
Opened(m, e) ==
  /\ pc' = "batch"
  /\ msgs' = m /\ stack' = <<>> /\ messageCount' = 0 /\ firstOffset' = 0
  /\ position' = offset /\ err' = e
  /\ UNCHANGED <<partition, config, offset, netOpen, seek, saved, fits, history>>

\* OffsetOutOfRange: version 5 leaves the size of the message set unread.
FetchError ==
  /\ pc = "fetch"
  /\ offset < LogStart \/ offset > HighWaterMark
  /\ stream' = IF fetchVersion = 5 THEN <<<<Token("rest", 0, <<>>)>>>> ELSE <<>>
  /\ Opened("none", "Kafka")

\* There is nothing to read yet, and the broker does not wait any longer.
FetchEmpty ==
  /\ pc = "fetch" /\ offset = HighWaterMark
  /\ UNCHANGED stream
  /\ Opened("empty", "nil")

\* checkTimeoutErr, by a deadline somewhat before that of the Conn.
TimeoutErrors == IF timed THEN {"EOF", "Kafka"} ELSE {"EOF"}

\* newMessageSetReader tells the version from the first message.  Too few bytes
\* for that are a timeout or, by dontExpectEOF, io.ErrUnexpectedEOF.
FetchData ==
  /\ pc = "fetch" /\ LogStart <= offset /\ offset < HighWaterMark
  /\ \E i \in head .. end : First(i, offset) /\ \E data \in Responses(i) :
       /\ stream' = data
       /\ LET t == data[1][1].t IN
            \/ /\ t = "stub"
               /\ \E e \in TimeoutErrors : Opened("none", IF e = "EOF" THEN "failed" ELSE e)
            \/ t \in {"head", "packed"} /\ Opened("v2", "nil")
            \/ t \notin {"stub", "head", "packed"} /\ Opened("v1", "nil")

-----------------------------------------------------------------------------
(* Batch.Read and Batch.ReadMessage. *)

\* A call; a batch that has failed keeps failing.
CallRead ==
  /\ pc = "batch" /\ err = "nil"
  /\ pc' = "read"
  /\ saved' = position
  /\ fits' \in IF api = "Read" THEN BOOLEAN ELSE {TRUE}
  /\ got' = None
  /\ UNCHANGED <<partition, config, conn, seek, reader, position, err, want, seeks, resets>>

\* The reader on top, and its base.
Data ==
  IF stack # <<>> THEN stack[1].data ELSE IF stream # <<>> THEN stream[1] ELSE <<>>
Base == IF stack = <<>> THEN 0 ELSE stack[1].base
Next1 == IF Data = <<>> THEN "none" ELSE Data[1].t

\* The next token has been read.
Consume ==
  IF stack = <<>>
    THEN /\ stream' = IF Len(Data) = 1 THEN Tail(stream) ELSE [stream EXCEPT ![1] = Tail(@)]
         /\ UNCHANGED stack
    ELSE stack' = [stack EXCEPT ![1].data = Tail(@)] /\ UNCHANGED stream

\* Mutant of Deliver: the offset of the batch is that of the message.
DeliverAgain(o) ==
  IF api = "ReadMessage" /\ o < offset
    THEN position' = o + 1 /\ UNCHANGED <<pc, err, got, want>>
    ELSE /\ pc' = "batch"
         /\ IF fits
              THEN position' = o /\ got' = o /\ want' = o + 1 /\ UNCHANGED err
              ELSE position' = saved /\ err' = "ShortBuffer" /\ UNCHANGED <<got, want>>

\* The message at o has been read: batch.offset follows.  ReadMessage reads on
\* while the message is before the offset of the Conn; Read fails when the
\* message does not fit, and puts batch.offset back.
Deliver(o) ==
  IF api = "ReadMessage" /\ o < offset
    THEN position' = o + 1 /\ UNCHANGED <<pc, err, got, want>>
    ELSE /\ pc' = "batch"
         /\ IF fits
              THEN position' = o + 1 /\ got' = o /\ want' = o + 1 /\ UNCHANGED err
              ELSE position' = saved /\ err' = "ShortBuffer" /\ UNCHANGED <<got, want>>

\* An error that is not errShortRead.
Fail ==
  /\ pc' = "batch" /\ err' = "failed"
  /\ UNCHANGED <<stream, stack, messageCount, firstOffset, position, got, want>>

\* What every step of a read leaves alone.
Reading ==
  /\ pc = "read"
  /\ UNCHANGED <<partition, config, offset, netOpen, seek, msgs, saved, fits, seeks, resets>>

\* Mutant of Discard: version 1 does not go back to the connection either.
DiscardTop ==
  stream' = IF msgs # "none" /\ stack = <<>> THEN <<>> ELSE stream

\* messageSetReader.discard: version 1 goes back to the reader of the connection
\* and discards what is left there, version 2 discards what is left on top.
Discard ==
  stream' = IF msgs # "none" /\ (msgs = "v1" \/ stack = <<>>) THEN <<>> ELSE stream

\* errShortRead: the response is at its end, or was cut.
ShortRead ==
  /\ Reading
  /\ \/ msgs = "empty"
     \/ msgs = "v1" /\ stack = <<>> /\ Next1 \in {"none", "part"}
     \/ msgs = "v2" /\ messageCount = 0 /\ stack = <<>> /\ Next1 \in {"none", "part"}
     \/ msgs = "v2" /\ messageCount = 0 /\ Next1 = "packed" /\ Data[2].t = "part"
     \/ msgs = "v2" /\ messageCount > 0 /\ Next1 = "part"
  /\ Discard
  /\ pc' = "batch" /\ err' \in TimeoutErrors
  /\ UNCHANGED <<stack, messageCount, firstOffset, position, got, want>>

\* The connection breaks.
ReadBreaks ==
  /\ pc = "read" /\ msgs # "empty" /\ stack = <<>> /\ stream # <<>>
  /\ resets < MaxResets
  /\ resets' = resets + 1
  /\ Fail
  /\ UNCHANGED <<partition, config, offset, netOpen, seek, msgs, saved, fits, seeks>>

\* A reader of decompressed data at its end: back to the one below.
PopV1 ==
  /\ Reading
  /\ msgs = "v1" /\ stack # <<>> /\ Data = <<>>
  /\ stack' = Tail(stack)
  /\ UNCHANGED <<stream, pc, messageCount, firstOffset, position, err, got, want>>

\* Mutant of extractOffset: the offsets in the set are taken for absolute ones.
extractOffsetZero(base, inner) == 0

\* The offset that those in a compressed set are relative to: that of the
\* wrapper less the last one in the set.
extractOffset(base, inner) == base - inner[Len(inner)]

PushV1 ==
  /\ Reading
  /\ msgs = "v1" /\ stack = <<>> /\ Next1 = "wrap"
  /\ stack' = <<[base |-> extractOffset(Data[1].offset, Data[1].inner),
                 data |-> [i \in DOMAIN Data[1].inner |-> Token("msg", Data[1].inner[i], <<>>)]]>>
  /\ stream' = Tail(stream)
  /\ UNCHANGED <<pc, messageCount, firstOffset, position, err, got, want>>

\* A message before the offset of the Batch is skipped.
SkipV1 ==
  /\ Reading
  /\ msgs = "v1" /\ Next1 = "msg"
  /\ Data[1].offset + Base < position
  /\ Consume
  /\ UNCHANGED <<pc, messageCount, firstOffset, position, err, got, want>>

TakeV1 ==
  /\ Reading
  /\ msgs = "v1" /\ Next1 = "msg"
  /\ Data[1].offset + Base >= position
  /\ Consume
  /\ Deliver(Data[1].offset + Base)
  /\ UNCHANGED <<messageCount, firstOffset>>

\* readMessageHeader meets the header of a version 2 batch.
UnsupportedV1 ==
  /\ Reading
  /\ msgs = "v1" /\ Next1 \in {"head", "packed"}
  /\ Fail

\* The records of the batch have been read.
PopV2 ==
  /\ Reading
  /\ msgs = "v2" /\ messageCount = 0 /\ stack # <<>> /\ Data = <<>>
  /\ stack' = Tail(stack)
  /\ UNCHANGED <<stream, pc, messageCount, firstOffset, position, err, got, want>>

\* readHeader, and the records decompressed.
HeaderV2 ==
  /\ Reading
  /\ msgs = "v2" /\ messageCount = 0 /\ stack = <<>>
  /\ Next1 = "head" \/ (Next1 = "packed" /\ Data[2].t = "blob")
  /\ messageCount' = Len(Data[1].inner)
  /\ firstOffset' = Data[1].offset
  /\ IF Next1 = "head"
       THEN Consume
       ELSE /\ stack' = <<[base |-> -1,
                          data |-> [i \in DOMAIN Data[2].inner |-> Token("rec", Data[2].inner[i], <<>>)]]>>
            /\ stream' = Tail(stream)
  /\ UNCHANGED <<pc, position, err, got, want>>

\* Peek fails: bufio.ErrBufferFull.
BigV2 ==
  /\ Reading
  /\ msgs = "v2" /\ messageCount = 0 /\ stack = <<>>
  /\ Next1 = "packed" /\ Data[2].t = "big"
  /\ Fail

RecordV2 ==
  /\ Reading
  /\ msgs = "v2" /\ messageCount > 0 /\ Next1 = "rec"
  /\ messageCount' = messageCount - 1
  /\ Consume
  /\ Deliver(firstOffset + Data[1].offset)
  /\ UNCHANGED firstOffset

\* Batch.Read, its buffer larger than what is left of a value that was cut: it
\* reads on until it has the whole value, for which there is only the deadline.
ReadPastV2 ==
  /\ Reading
  /\ msgs = "v2" /\ messageCount > 0 /\ Next1 = "part" /\ api = "Read"
  /\ IF timed THEN pc' = "batch" /\ err' = "failed" ELSE pc' = "hangs" /\ UNCHANGED err
  /\ stream' = <<>>
  /\ UNCHANGED <<stack, messageCount, firstOffset, position, got, want>>

-----------------------------------------------------------------------------
(* Batch.Close. *)

\* What is left is discarded, the Conn takes the offset of the Batch, and an
\* error that is neither Kafka's nor about the buffer closes the connection.
Close ==
  /\ pc = "batch"
  /\ pc' = "idle"
  /\ offset' = position
  /\ IF err = "failed"
       THEN netOpen' = FALSE /\ stream' = <<>>
       ELSE Discard /\ UNCHANGED netOpen
  /\ msgs' = "none" /\ stack' = <<>> /\ messageCount' = 0 /\ firstOffset' = 0
  /\ position' = 0 /\ err' = "nil" /\ saved' = 0 /\ fits' = TRUE
  /\ got' = None
  /\ UNCHANGED <<partition, config, seek, want, seeks, resets>>

-----------------------------------------------------------------------------
(* The life of the connection. *)

\* A request fails: the connection is closed.
RequestBreaks ==
  /\ pc \in {"first", "last", "fetch"} /\ resets < MaxResets
  /\ pc' = "idle" /\ netOpen' = FALSE /\ resets' = resets + 1
  /\ UNCHANGED <<partition, config, offset, stream, seek, reader, batch, got, want, seeks>>

\* The program makes a new Conn and, as Reader does, seeks to where it was.
Redial ==
  /\ pc = "idle" /\ ~netOpen
  /\ netOpen' = TRUE /\ offset' = FirstOffset
  /\ IF want = FirstOffset
       THEN UNCHANGED <<pc, seek>>
       ELSE /\ pc' = "first"
            /\ seek' = [to |-> want, whence |-> "absolute", for |-> "idle", first |-> 0]
  /\ UNCHANGED <<partition, config, stream, reader, batch, history>>

-----------------------------------------------------------------------------
seeking   == ReadFirstOffset \/ SeekReturn
fetching  == FetchError \/ FetchEmpty \/ FetchData
readingV1 == PopV1 \/ PushV1 \/ SkipV1 \/ TakeV1 \/ UnsupportedV1
readingV2 == PopV2 \/ HeaderV2 \/ BigV2 \/ RecordV2 \/ ReadPastV2

Next ==
  \/ Publish \/ Delete
  \/ \E s \in Seeks : Seek(s[1], s[2])
  \/ SeekToStart \/ seeking
  \/ ReadBatch \/ fetching \/ CallRead
  \/ ShortRead \/ ReadBreaks \/ readingV1 \/ readingV2
  \/ Close
  \/ RequestBreaks \/ Redial

Spec == Init /\ [][Next]_vars

\* A program that goes on reading: it reads at least now and then from a Batch
\* before it closes it, goes to the start when it has to, and dials again.
\* Requests are answered.
FairSpec ==
  /\ Spec
  /\ WF_vars(ReadBatch) /\ SF_vars(CallRead) /\ WF_vars(Close)
  /\ SF_vars(SeekToStart) /\ WF_vars(Redial)
  /\ WF_vars(seeking) /\ WF_vars(fetching)
  /\ WF_vars(ShortRead \/ readingV1 \/ readingV2)

-----------------------------------------------------------------------------
(* Properties. *)

\* The offsets of the messages of the log.
Messages == UNION {{log[i].offsets[j] : j \in DOMAIN log[i].offsets} : i \in DOMAIN log}

\* The message at o is the first from w on.
IsNext(o, w) == o \in Messages /\ w <= o /\ \A m \in Messages : ~(w <= m /\ m < o)

(***************************************************************************)
(* The program is given the messages one by one from where it was: each is *)
(* the first message of the log that it has not been given since it last   *)
(* sought, under its own offset, whatever batches, compression, compaction,*)
(* truncation, closes, failures and new connections come in between.  Read *)
(* is an exception for version 2 batches, of which it returns messages     *)
(* before the offset of the Conn.                                          *)
(***************************************************************************)
InSequence ==
  [][got = None /\ got' # None /\ (api = "ReadMessage" \/ msgs = "v1") => IsNext(got', want)]_vars

(***************************************************************************)
(* Close leaves nothing of the response on a connection that stays open,   *)
(* or the next operation would take it for its own response.  There are    *)
(* two exceptions: after an error code, or a timeout that stands for one,  *)
(* and when a version 2 batch that is compressed has not been read to its  *)
(* end.                                                                    *)
(***************************************************************************)
CloseConsumes ==
  [][pc = "batch" /\ pc' = "idle" =>
       stream' = <<>> \/ (msgs = "none" /\ err = "Kafka") \/ (msgs = "v2" /\ stack # <<>>)]_vars

\* What keeps ReadMessage from going on: a response left on the connection,
\* less than a message in a response, a compressed batch that is too big for
\* the buffer, and a batch that compaction has left without its last messages
\* when there is room for no other one in a response.
Blocked ==
  \/ pc = "idle" /\ netOpen /\ stream # <<>>
  \/ fetchVersion = 2 /\ room = 0
  \/ fetchVersion = 5 /\ \E i \in head .. end : log[i].big /\ want <= log[i].last
  \/ room <= 1 /\ \E i \in head .. end :
                     want <= log[i].last /\ \A j \in DOMAIN log[i].offsets : log[i].offsets[j] < want

\* Every message that is published, and not deleted, has been given.
CaughtUp == \A m \in Messages : m < want \/ m < LogStart \/ m >= HighWaterMark

(***************************************************************************)
(* A program that goes on calling ReadMessage catches up with what is      *)
(* published, again and again, but for what Blocked says.                  *)
(***************************************************************************)
Progress == api = "ReadMessage" => []<>(CaughtUp \/ Blocked)
=============================================================================
