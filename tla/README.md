# A verification of kafka-go in TLA+

These modules model the parts of this client library for Kafka in which
something can go wrong that a test would hardly reach: the writer with its
goroutine per partition, the balancers that choose the partition of a message,
the connection that several goroutines share, the decoding of fetch responses,
the reader of a partition, the member of a consumer group, and the assignment
of partitions inside a group. TLC checks them on small instances. TLAPS proves
most of their safety properties for every value of the constants, and that the
goroutine of a partition implements the abstract sink that the writer relies on.

The source is the reference. Every definition that models code is listed with
its lines under `map` in `PROJECT.json`; the names are those of the code where
TLA+ allows it.

## 1. Inventory

| Part of the library | State | Operations and steps | Modules | Status |
|---|---|---|---|---|
| partition writer (`writer.go`, type `writer`) | channel `msgs`, batch, `lastMsg`, byte count, batch timer, connection | receive, park, flush, produce with retries, answer, close | `PartitionWriter`, `PartitionSink`, `PartitionWriterProofs` | modelled |
| `Writer` (`writer.go`) | channel `msgs`, RWMutex, `closed`, the partition writers | `WriteMessages`, `Close`, `run`, rebalance | `Writer`, `WriterProofs` | partly: statistics and validation are left out |
| message balancers (`balancer.go`) | a counter, counts of bytes, a hasher | `Balance` of `RoundRobin`, `LeastBytes`, `Hash` | `Balancer`, `BalancerProofs` | modelled |
| `Conn` (`conn.go`, `read.go`) | correlation ids, `rlock`, `wlock`, the stream | request, `waitResponse`, read, `ReadBatch`, `Batch.Close`, `Close` | `Conn`, `ConnProofs` | partly: the arithmetic of deadlines and what the metadata requests return are left out |
| offset of a `Conn`, `Batch`, message sets (`conn.go`, `batch.go`, `message.go`, `discard.go`) | offset, position, stack of readers, bytes that remain | `Seek`, `ReadOffsets`, `ReadBatch`, `Read`, `ReadMessage`, `discard`, `Batch.Close` | `Batch`, `BatchProofs` | modelled |
| `Reader` of a partition (`reader.go`) | `offset`, `version`, `msgs`, the reader goroutines | `FetchMessage`, `SetOffset`, `Close`, `start`, `reader.run` | `Reader`, `ReaderProofs` | partly: lag, `SetOffsetAt`, statistics are left out |
| `Reader` in a group (`reader.go`, `commit.go`, `rungroup.go`) | member id, generation, `runGroup`, `commits`, stash | `handshake`, heartbeat, watcher, commit loops, `FetchMessage`, `CommitMessages`, `Close` | `GroupMember`, `GroupMemberInvariant`, `GroupMemberProofs` | partly: see section 8 |
| group balancers (`groupbalancer.go`) | none | `AssignGroups` of range and round robin | `GroupBalancer`, `BalancerProofs` | modelled |
| `Dialer` (`dialer.go`) | none that lasts | `LookupLeader`, dial with its fallback, SASL | | not modelled: see section 8 |
| codecs, compression, SASL mechanisms, `stats.go`, `error.go` | none that a decision depends on | | | not modelled |

How they interact. A call to `WriteMessages` sends each message, with a
response channel of the call, to `Writer.run`, which asks its balancer for a
partition and sends the message to the goroutine of that partition; that
goroutine writes batches on a `Conn` of its own and answers on the response
channel. A `Reader` starts one goroutine per partition it reads; each has a
`Conn` of its own, which it reads through a `Batch`, and all send to one channel
`msgs`. In a group the goroutine `Reader.run` decides which reader goroutines
there are; the heartbeat, the commit loop and the partition watcher share its
connection to the coordinator, which is why `Conn` has to serve concurrent
operations.

What is hard here, and what the properties aim at (the list with its lines is
`hazards` in `PROJECT.json`):

- a message that moves between channel, batch, parking place and retries, and
  must be answered exactly once, in order, also when the channel is closed;
- a `time.Timer` that is stopped and drained by hand;
- sends on channels that another goroutine is about to close;
- a mutex, two queues and goroutines that wait for each other;
- responses that arrive when their operation has gone, or that are not read to
  their end;
- responses that are cut anywhere, begin before the offset asked for, and hold
  compressed sets with relative offsets that compaction has thinned out;
- versions that tell old messages from new ones, compared before and after a
  `select`;
- generations that end at any moment, with messages and commits of the old
  generation still in queues;
- integer division at counts that do not divide, counters that wrap, and
  conversions that change a sign.

## 2. The modules and the code

### PartitionWriter and PartitionSink

`PartitionWriter` is the goroutine `writer.run` with `writer.write`. `pc` is
its place: `top` (the head of the loop, where a parked message comes back),
`select`, `flush`, the places of the dial and of the produce request, and
`spin` and `exited`. The timer is `batchTimerRunning`, which is the flag of the
code, and `timer`, which is what the runtime does: `idle`, `armed`, or `fired`
with its tick unread. The broker answers a produce request with an element of
`Replies`, and where the code cannot know whether the messages were appended
the model chooses. `copies`, `accepted`, `answered` and `acked` are history.

`DuplicateSequenceNumber` is taken for a success on a connection with unread
bytes; the next request on that connection finds no header and
`Conn.waitResponse` loops. The place `spin` stands for that loop, and the
liveness property names it as the one way not to finish.

`PartitionSink` is what the rest of the writer relies on: a bounded FIFO queue
that answers its first messages in groups and drains on close.
`ImplementsSink` and `ImplementsFairness` say that `PartitionWriter` implements
it, with the mapping `queue <- batch \o Parked \o msgs`.

### Writer

Calls to `WriteMessages` and to `Close`, the goroutine `run`, and a partition
writer for each open partition, which is here a queue that behaves as
`PartitionSink`: the composition rests on the refinement above. A partition
that disappears and comes back gets another instance, and the old one is closed
in the background, as in the code. A batch is answered one response at a time,
as the code sends them, so a call may collect in the middle of a batch. `sent`
and `skipped` are where the loop over the messages is and how many of them were
too large. The RWMutex is `readers` and the places of the closers. The balancer
is a free choice among the open partitions, so what is checked holds for all
balancers that return one of the partitions they are given: `RoundRobin` and
`Hash` always, `LeastBytes` as long as no partition goes from the list
(`RoutableCorrect` and `RoutableWhileGrowing` of `BalancerProofs`).
`CallsReturn` assumes the fairness of the sink, so it has the exceptions under
which a partition writer does not keep it: the loop `spin`, and a parked message
with an empty value.

### Balancer

`Balance` of the three balancers, called by one goroutine with a list of
partitions that a rebalance replaces. A list is its length, as Kafka numbers
the partitions of a topic from 0. `offset` is the counter of `RoundRobin`,
modulo `Modulus`; `counters` those of `LeastBytes`, which are made anew when a
partition of the list has none; `sum` is what a hasher from the pool still
holds. The hash function is the parameter `Digest`. `ToInt` is the conversion
of a `uint32` to an `int` that may be as narrow, and `Remainder` the `%` of Go,
which has the sign of its dividend.

### Conn

Operations with a correlation id of their own, `rlock`, and a stream of units:
the head that is peeked at, the body with the error code, the tail after it. A
`Batch` keeps `rlock` across calls of the program. A deadline is set or is not
set. The broker, the network and a `Close` by the program are environment.

The kinds of operations are the ones that differ in what they leave behind.
`plain` operations read their whole response or close the connection. The others
have returns after which part of a response stays in an open connection; `Leave`
marks them, and `left` remembers who took one:

- `produce` and `fetch5` at an error code: they stop reading there, and a Kafka
  `Error` does not close the connection;
- a fetch whose response is too short, past its deadline: that is reported as
  `RequestTimedOut`, a Kafka `Error`, and nothing more is read;
- `Batch.Close` inside a compressed version 2 batch, or when it cannot discard
  in time, as the error of `discard` is dropped;
- `versions`, which is `ApiVersions`: it returns without closing the connection
  when it cannot read its response, and does not notice one that is too long.

`waitResponse` compares raw bytes: what follows is then taken for a size and an
id (`PeekedIDs`). Most of the time the id is that of nobody and every operation
looks again and again; when it happens to be the id of an operation, that one
reads from the middle of a response (`astray`), and either fails, which closes
the connection, or returns what it made of the bytes. The same can happen on a
connection that another operation has closed, since its read buffer still holds
what had arrived.

### Batch

One goroutine reads a partition over a `Conn`. `Seek` is three steps, since
retention and producers go on between the two requests of `ReadOffsets`.
`ReadBatch` fetches at `offset` and finds an error code, nothing, or one of
`Responses` from the batch that `First` says the broker starts with: as many
batches as `MaxBytes` has room for, and the next one cut at any place. Bytes are
tokens, the pieces that the code reads at once, listed at the head of the
module, and `stream` is the tokens of each batch that is left; `Encode` is how a
broker lays out a batch of either format for either version of the fetch API.
The actions with `V1` and `V2` in
their names are the steps of the two message set readers: push and pop of the
stack of decompressed data, skip, take, the header of a batch, a record.
`ShortRead` is `errShortRead` with the `discard` that follows, `Deliver` what
`Batch.Read` and `Batch.ReadMessage` do with a message, `Close` what
`Batch.Close` leaves on the connection and in `conn.offset`.

### Reader

The calls to `FetchMessage`, `SetOffset` and `Close`, and the goroutines that
`start` makes, each with the places of `reader.run`: begin, initialize (dial,
read offsets, seek), read, send, sleep. The goroutine reads `r.version` when it
first runs and not when `start` is called, as the code does. A message is its
offset. The partition has a start that retention moves and an end that
producers move. Faults are the three classes of errors that `run` tells apart;
a `RequestTimedOut` of the broker, which `run` does not report, is a step of its
own. `Close` may be called again when it has returned. After an error code on a
connection with version 5 of fetch the goroutine is `Spinning` in
`waitResponse` as soon as it uses the connection again, unless the connection
breaks.

### GroupMember

`hpc` is the place of `Reader.run` in a handshake. `running` and `rgStop` are
the `runGroup`; `clpc` is the commit loop, with its attempt; `commits` and
`stash` the queue and the offsets to commit; `ppc` the program, which fetches,
keeps a message as long as it likes, and commits it or not; `kpc` the steps of
`Close`. The coordinator is external: whether it knows the member, whether the
member's generation is the group's, whether it waits for everybody to join, and
the committed offsets. The network, the session timeout and the other members
disturb the group at most `MaxDisruptions` times. Other members deliver and
commit messages of the partitions that are not this member's.

A reader goroutine is reduced to the offset it sends next and to its end when
its context is done; that the goroutine does end is `CancelledExits` of
`Reader`, and that it sends in order is `TaggedInOrder`. `CancelledExits` has
an exception, so the reduction has it too: `ReaderSpins` is a goroutine that is
caught in `waitResponse` and does not see that its context is done.
`unsubscribe` and `Close` then wait for it for ever.

### GroupBalancer

Members join, leave and change topics. `GroupRebalance` is
`assignTopicPartitions` of the leader: the members in any order, the partitions
in the order of a listing, one of the two balancers. `rangeOwns` and
`roundRobinOwns` are the conditions of the inner loops of the two
`AssignGroups`. A list that the code filters from another is here a function on
the positions that are kept, and the index of an element is the number of
positions before it (`Index`); sorting the members by id gives each the number
of smaller ids as its index. That way a proof needs no induction over lists.


## 3. The runs

Every passing run is complete: TLC explores all the states of the instance.

| Run | What it checks | Bounds | States |
|---|---|---|---|
| `partition_writer` | order, limits, timer, copies, exit, refinement of the sink and of its fairness | 4 messages of 1 and 2 bytes, batches of 2 messages and 3 bytes, 1 retry, every reply | 500,908 |
| `partition_writer_empty_value` | violation, section 6 | 3 messages, one with an empty value | |
| `writer` | responses accounted for, nil means written, no send on a closed channel, `Close` flushes, calls and `Close` return | 2 calls, one of several messages with an oversized one, 1 `Close`, 2 attempts, a rebalance between no partition and either of two, queues of capacity 1, synchronous and not | 466,904 |
| `balancer` | the partition returned can be looked up, messages and bytes are spread evenly, a key keeps its partition | 10 calls, lists of 1 to 4 partitions, a counter and a hash of 8 values, ints as narrow as the hash, 4 keys, messages of 0, 1 and 3 bytes | 57,844 |
| `conn` | nobody reads the response of another, nothing is left at the head of the stream, operations return | 3 operations in mixes of all the kinds, resets and closes | 254,388 |
| `conn_error_code` | violation, section 6 | 2 operations | |
| `batch` | messages in sequence, `Close` leaves nothing behind, a program that reads on catches up | 5 partitions of 2 or 3 batches, both versions of fetch, room for 0, 1 or 2 batches, every cut, 1 seek of each mode, 1 reset | 602,896 |
| `reader` | messages of a version in order, one live goroutine, reset, `SetOffset` honoured; cancelled goroutines exit, calls return, the channel is closed once and last | 2 starts, 2 offsets, both versions of the fetch API, every fault, 1 goroutine that calls `Close` again and again | 985,132 |
| `reader_reset` | violation, section 6 | `LastOffset`, 2 starts, 3 offsets | |
| `reader_seek_race` | violation, section 6 | 3 starts, 3 offsets | |
| `group` | nothing skipped, nil means committed, nothing forgotten, goroutines and connection, owned reads; rebalances end, expelled members rejoin, commits and `Close` return | 1 partition with 2 messages, 2 disruptions, both commit modes, the watcher on and off | 993,142 |
| `group_balancer` | one owner per partition, even shares, stability | 3 members, 2 topics, 1 to 7 partitions | 40,384 |

Why the bounds are enough. In `partition_writer` four messages are one more
than fill a batch and a parking place, so a flush by size, one by bytes, one by
the timer and one by the close all happen with another message behind; one
retry separates a first attempt from a last one. In `writer` two calls of
different lengths are needed for the responses of one to be mistaken for those
of the other, and one rebalance closes a partition writer that still holds
messages. Its topologies never have two partitions open at once; `WriterProofs`
covers any. In `balancer` 8 is not a multiple of 3, so the counter wraps in the
middle of a list, and ten calls wrap it; half of the hashes are negative as an
int. In `conn` three operations are the fewest in which two wait while a third
reads. In `batch` the five partitions are a topic that was upgraded from one
format to the other, one whose batches are compressed or not, one that was
compacted, one in the old format, and one with a compressed batch larger than
the buffer; a third batch behind two that fit is what is cut. In `reader` two
starts give a goroutine and its successor. Two `Close`s at once are left to the
theorem `ClosedOnceAndLast`; the run has one caller of `Close`, that calls it
repeatedly. In `group` two disruptions are a generation that fails and one that
fails while the member recovers; two messages let a commit be late behind
another. `group` was also checked once, before `ReaderSpins` was part of it, with
two partitions, a capacity of two and one disruption (20.8 million states),
where a commit is refused for one partition and stored for the other. The
inductive invariants of `GroupMemberInvariant`, `ReaderProofs`, `ConnProofs`,
`BatchProofs` and `WriterProofs` were checked as invariants of these instances
too.

`PROJECT.json` names, for each property of each run, a change of the code
(`mutants`) that makes TLC report it: a dropped guard, a missing reset, an
off-by-one.

Liveness is stated as `[]<>P` where a condition that has become true stays true
until the goal: that a call is infinitely often not in progress is then the same
as that each call that begins comes to its end, and TLC decides it much faster.
Some of these properties name an exception, a way to be stuck that the code
really has (section 6): a partition writer in `spin`, an operation of a `Conn`
on which part of a response was left or that is `Skewed` for good, a `Batch`
program that is `Blocked`, and a goroutine of a `Reader` that is `Spinning`, in
`Reader` and in `GroupMember`. In a group the last one is serious: the member
cannot leave its generation any more, so `RebalanceJoined`, `Rejoins` and
`CallsReturn` all except it.

`CHECK_DEADLOCK FALSE` is set where the program may stop: a writer or a reader
that is closed, a connection on which every operation has returned, a `Read`
that waits for bytes that never come.

## 4. Fairness

- Goroutines run: weak fairness of the steps of each goroutine of the library.
- A goroutine that waits for a `sync.Mutex` gets it when it is free again and
  again: strong fairness of `LockRead` in `Conn`. Go's mutex hands itself over
  to a waiter that has starved for a millisecond.
- A `select` with several cases ready takes each of them in the end, as Go
  chooses at random: strong fairness of `CommitStop`.
- An armed timer fires; bytes on their way arrive; the broker of `Conn` and of
  `Batch` answers. In `GroupMember` a request to the coordinator is answered or
  its connection breaks.
- The program need not do anything: fetch, commit, call `Close`, or cancel a
  context. A `Batch` that was opened is closed, as its documentation asks.
- `Progress` of `Batch` is about a program that goes on reading: it opens
  batches, does not close every one of them unread (strong fairness of
  `CallRead`), goes back to the start when its offset has been deleted, and
  dials again when the connection is closed. That is what `reader.run` does.

## 5. What is proved

Eight modules hold proofs; `GroupMemberInvariant` has the lemmas that the
theorems of `GroupMemberProofs` rest on. None takes anything on trust but the
assumptions on the constants, which TLC evaluates in the runs, and each is about
all values of them: any number of messages, operations, goroutines, partitions
and members, and any bound named in the guards.

| Module | Theorem | Property | Inductive invariant |
|---|---|---|---|
| `PartitionWriterProofs` | `TypeCorrect` | `TypeOK` | itself |
| | `TimerCorrect` | `TimerCoversBatch` | `TimerInv` |
| | `LimitsCorrect` | `BatchWithinLimits` | `BatchInv` |
| | `OrderCorrect` (*) | `InOrder` | `BatchInv /\ InOrder` |
| | `DrainCorrect` (*) | `ExitDrained` | `BatchInv /\ InOrder /\ DoneInv` |
| | `AckCorrect` (*) | `AckedIsWritten` | with `Distinct` and `CopiesInv` |
| | `SinkImplemented` (*) | `ImplementsSink` | with `SinkInv` |
| `WriterProofs` | `NeverSendsOnClosed` | `NoSendOnClosedChannel` | `IInv` |
| | `CloseHasFlushed` | `CloseFlushes` | `IInv` |
| | `EachAnsweredOnce` | `ResponsesAccounted` | `IInv /\ AccountInv` |
| | `NilIsWritten` | `NilMeansWritten` | `IInv /\ AccountInv /\ NilInv` |
| `BalancerProofs` | `RoutableWhileGrowing` | `InList`, when the list never shrinks | `CountsList` |
| | `RoutableCorrect`, `LeastBytesCorrect`, `SameKeyCorrect` | `Routable`, `LeastBytesEven`, `SameKeySamePartition` | themselves, with the type invariant; `Determined` |
| | `RoundRobinCorrect` | `RoundRobinEven` | `InRounds` |
| `ConnProofs` | `OwnResponse` | `ReadsOwnResponse` | `IInv` |
| | `NothingOrphaned` | `NoOrphanResponse` | `IInv` |
| `BatchProofs` | `BatchInvariant` | `BatchTypeOK /\ BatchInv` | itself |
| | `ReadsInSequence` | `InSequence` | `BatchInv` |
| | `ClosesClean` | `CloseConsumes` | `BatchInv` |
| `ReaderProofs` | `VersionsInOrder` | `TaggedInOrder` | `IInv` |
| | `OneReaderRuns` | `OneReader` | `IInv` |
| | `ClosedOnceAndLast` | `ChannelClosedLast` | `IInv` |
| | `ResetsToFirst` (**) | `ResetHonoured` | `IInv /\ AimInv` |
| | `SeeksAreHonoured` (**) | `SetOffsetHonoured` | `IInv /\ SeekInv` |
| `GroupMemberProofs` | `AtLeastOnce` | `NothingSkipped` | `IInv` |
| | `NilIsCommitted` | `NilMeansCommitted` | `IInv` |
| | `NoCommitForgotten` | `NothingForgotten` | `IInv` |
| | `ReadsOnlyOwned`, `GroupEndsFirst` | `OwnedReads`, `ConnOutlivesGroup` | `IInv` |
| `BalancerProofs` | `AssignedOnce`, `AssignedEvenly` | `EachOnce`, `Balanced` | themselves |
| | `AssignmentStable` | `Stable` | `Computed`: the assignments are a function of `basis` |
| | `OneOwner`, `RangeShares` | of the operators of `GroupBalancer` | |

(*) when no message has an empty value; without that they are false (section 6).

(**) when `AutoOffsetReset` is `FirstOffset`, as in the run: with `LastOffset`
`initialize` starts at the first offset all the same, which the run
`reader_reset` shows (section 6).
`SeeksAreHonoured` is about one goroutine that calls `FetchMessage`; two return
in any order.

**PartitionWriter.** `TimerCoversBatch` is not inductive: it speaks of the
select only, and the loop arrives there from its head, so `TimerInv` says the
same of both places. `BatchWithinLimits` is not inductive because a parked
message joins the batch without a check. `BatchInv` adds why it needs none: a
message is parked only when the batch is about to be flushed, so it comes back
to an empty batch, and none is parked at the select. `ExitDrained` needs to know
what `done` means while the last batch is written, which `DoneInv` says.
`SizeAssumption`, that no message is larger than `BatchBytes`, is what
`WriteMessages` sees to before it sends. For `AckedIsWritten` a message is sent
once, so it is in one place (`Distinct`), and it has at most as many copies as
its batch has had attempts (`CopiesInv`). The refinement maps the batch, the
parked message and the channel to one queue: a receive, a park and a flush are
stutters, an answer takes a front of the queue. It needs that a batch that is
written is not empty, and that while a message is parked the batch is below
`BatchSize`, or the queue would be deeper than `QueueCapacity + BatchSize`.

**Writer.** `IInv` is about `join`: it counts `run` and the partition writers
that are being closed, those that a rebalance let go included, and `run` knows
every one that is open. When it is 0 none is left. A call that sends holds the
mutex that `Close` needs. `AccountInv` counts the places where a message of a
call may be: in `msgs`, with `run`, in the queue of a partition writer. A step
moves one message from one place to another, or turns it into a response; the
lemmas `PlacesAppend`, `PlacesTail`, `QueuedAppend` and `QueuedTail` say what
that does to the counts. It adds to `ResponsesAccounted` that a call has no more
to retry than it has collected, which is why there is room in `res` for the next
attempt. `NilInv` follows each message instead of counting them: one that is not
stored has still to be sent, is in one of those places, has failed with its
response in `res`, or is to be retried, and then the call has an error. When a
call has collected what it waits for, the account says that nothing of it is in
those places or in `res`, so what is not stored is to be retried.

**Balancer.** The difficulty is `RoundRobinEven`, since the count of a partition
is no function of the counter once it has wrapped. `InRounds` says that each
count is what it was when the counter last wrapped or the list last changed,
and the turns since, which are spread to within one; every wrap adds one at most.
`Routable` excepts a `LeastBytes` that counts a partition that has gone;
`RoutableWhileGrowing` says that there is no other way: as long as the list never
shrinks the counters are those of partitions of the list.

**Conn.** The argument is about the bytes that have still to be read, whether
they have arrived or not. As long as nobody has left anything behind and the
connection is open they are whole responses, each with an id of its own, the
first of which may have lost its beginning. The operation that holds `rlock` is
at that place; every other response is for an operation that waits, so no id is
read where there is none. Once the connection is closed, or something has been
left, an operation may be astray, and what remains to be shown is that an
operation that found the beginning of its response reads all of it: nobody else
touches the stream, as it holds `rlock`.

**Batch.** `InSequence` relates one message to the offset that the program is
owed, `want`; four things have to stay in step for it: the offset of the `Conn`,
that of the `Batch`, `want`, and what is left of the bytes. `BatchInv` has three
parts. `Opening` says what a `Batch` without a message set may have come to.
`Aligned` says that from `offset`, or from `position`, and from `want` on, the
log has the same messages: they need not be equal, since compaction leaves
offsets without messages, and an offset may be inside a batch. `Tracking` says
that there is a place in the log, batch `i` with `k` messages read, such that
what is left begins there. Either the reader is on the connection and `stream`
is a run of the batches of the log, the first without what has been read and the
last perhaps cut (`OnStream`), or it is on decompressed data, `stack`, which is
the rest of batch `i`, and `stream` has the batches after it (`OnStack`). The
messages before that place are below `want` (`Behind`), and for `ReadMessage` of
version 2 the messages from there on that are not below one of `offset`,
`position` and `want` are not below the others (`Ahead`), although `position`
moves on with each record that is skipped. What a token says about the batch it
came from (`Typical`) is the lemma about `Encode` that the steps of the readers
rest on: a message of an old set has its own offset, that of a compressed one
its distance from the base that `extractOffset` finds, a record its distance
from the header. A cut is met only behind every message of the response that is
whole, so `errShortRead` leaves the `Batch` where the program is. `stream` is a
sequence of batches of tokens, and a response is described by its first batch
and its length, so that no step of the proof needs an induction over bytes.

**Reader.** A goroutine reads `r.version` when it first runs, maybe after its
successor was made, and its messages would then pass for those of the successor.
Such a goroutine has been cancelled already and gets no further than to dial.
So the messages of a version come from one goroutine, which resumes behind what
it has sent, or where retention has moved the start of the partition.
`TaggedInOrder` is about `AutoOffsetReset = FirstOffset`; with `LastOffset` a
gap is what is asked for. `AimInv` says that what `initialize` has computed from
its first request is no further than where retention has moved the start since,
so a seek that succeeds has found it there. `SeekInv` says that as long as no
`SetOffset` overlaps a `FetchMessage`, `r.offset` is what the program expects,
the version seen is the newest, and what leaves the channel under it goes on
there; `TaggedInOrder` is what the next message is taken from.

**GroupMember.** The reader goroutines of a generation start from committed
offsets and send without a gap. The program drops messages of a version only
when it has seen a newer one, and then it drops all that are left of that
version. So when a message is delivered all those before it have been, and what
is queued for the commit loop, stashed or stored is never ahead of that. For
`NilMeansCommitted`, at most one request is awaited, in the channel or with the
commit loop, and it is the one that the program holds.

**GroupBalancer.** `RangeBounds` turns the two quotients of the code into
products: member `i` has partition `k` exactly when
`i * pc < (k + 1) * mc <= (i + 1) * pc`. Ranges of different members then
cannot overlap, and `((k + 1) * mc - 1) \div pc` is the member that has `k`.
With round robin each member has the `k` of its residue. The lengths of both
differ by one at most (`RangeCount`, `RoundRobinCount`). These are facts about
indexes; that an index is a bijection between the positions of a list and
`0 .. n - 1` (`IndexUnique`, `IndexOnto`, from the pigeonhole fact `FS_Injection`)
carries them over to members and partitions.

Only model-checked: liveness, which is out of the prover's reach:
`ImplementsFairness` of the partition writer, `CallsReturn` of `Writer`,
`Reader` and `GroupMember`, `OperationsReturn`, `CancelledExits`,
`RebalanceJoined`, `Rejoins` and `Progress`. Every safety property that a
passing run checks has a theorem.

## 6. Disagreements between the code and its comments

Four are shown by a run of their own; the counterexamples are short.

- `partition_writer_empty_value`: `run` tells whether a message is parked by
  `len(lastMsg.msg.Value) != 0` (`writer.go:644`). A parked message with an
  empty value never joins a batch and is never answered, although "If a lstMsg
  exists we need to add it to the batch so we don't lose it" (`writer.go:643`).
- `conn_error_code`: the reader of a produce response returns at an error code
  before it has read the throttle time (`conn.go:1036`), and `do` keeps the
  connection open for a Kafka `Error`. The next operation peeks at bytes that
  are no header and loops, deadline or not (`conn.go:512`).
- `reader_seek_race`: a `FetchMessage` that overlaps a `SetOffset` may deliver a
  message of a newer version without moving `r.offset` (`reader.go:1301`); a
  later `SetOffset` to the offset still recorded there is taken for no change.
- `reader_reset`: `initialize` starts at the first offset when the one asked for
  was deleted (`reader.go:1865`), although `AutoOffsetReset` "decides what to do
  when there is no initial offset of if the current offset does not exist any
  more", and `LastOffset` is to "reset the offset to the latest offset"
  (`reader.go:995`). The reset in `run`, at an `OffsetOutOfRange` of a fetch,
  honours it. Whether a Reader with `LastOffset` continues at the end or reads
  everything again depends on which of the two notices.

Others were met while modelling. The models contain the behaviour where it
concerns them, and the properties name it as an exception; no run is dedicated
to it.

- Writer. An oversized message is skipped and `WriteMessages` may return nil
  (`writer.go:313`), so `NilMeansWritten` excludes such messages. `Close` does
  not abort a call that waits for its responses (`writer.go:426` says it does);
  the call gets them from the flush. The results of `backoff` at
  `writer.go:758` and `writer.go:787` are not used, so low-level retries follow
  each other at once.
- Message balancers. `LeastBytes` keeps the counters of partitions that have
  gone as long as no new one appears, and may return one of them, for which
  `Writer.run` has no partition writer (the exception in `Routable`; the lookup
  gives a nil writer, and the send through it panics, `writer.go:485`). `Hash`
  returns an index into its list of partitions and not the element, which is the
  same for the lists that Kafka gives.
- Connection. An operation with a deadline waits for `rlock` behind one that
  has none and gets no answer (`conn.go:1168`). `Batch.Close` drops the error
  of `discard` (`batch.go:68`). `ApiVersions` keeps a connection open whose
  response it could not read (`conn.go:1252`), where the others close it. On a
  closed connection an operation whose response is not in the read buffer loops
  as long as that of another is (`conn.go:1184`); when the other has gone it does
  not return (the exception `Skewed` of `OperationsReturn`). The case
  `LastOffset` of `Conn.Offset` cannot be reached, since `Seek` always stores an
  absolute offset.
- Batch. `discard` and `remaining` of the version 2 reader look at the top of
  the stack only (`message.go:564`): closing a `Batch` inside a compressed batch
  leaves what follows it on the connection, and the next operation loops as
  above (the second exception of `CloseConsumes`, the first of `Blocked`). A
  response with an error code, or with too few bytes to tell a version when the
  deadline is near, leaves bytes behind too. A compressed version 2 batch that
  does not fit the 4096 bytes of a `bufio.Reader` fails with `ErrBufferFull`,
  for ever. In a batch whose last messages compaction has removed the offset
  stays inside the batch, and with room for that batch only the same response
  comes again and again (the other exceptions of `Blocked`). `Conn.Read` on
  version 2 batches returns records before the offset of the `Conn`, since only
  `ReadMessage` skips them (`batch.go:167`): it returns the first record of the
  batch again and again, where the doc says that it reads the message at the
  current offset (`conn.go:622`). `Batch.Read` on a truncated version 2 value
  reads past the response and waits for the deadline. `Conn.Read` and
  `Conn.ReadMessage` return neither a message nor an error at the end of an
  empty batch. `ReadCommitted` does not filter what transactions aborted
  (`conn.go:90`).
- Reader. A goroutine that spins in `waitResponse` sees neither its context nor
  a deadline, so `Close` waits for it for ever; in a group the member cannot
  take part in the next rebalance (the exceptions `Spinning`).
- Group. `CommitMessages` may queue a request when `stctx` is done, as a select
  with two ready cases chooses at random ("ensure we don't allow commits after
  the reader was closed", `reader.go:1348`); a synchronous call then waits for
  its context, and an asynchronous commit is lost. `CallsReturn` therefore
  ends at `Close`. An assignment without partitions does not change `version`,
  so queued messages of the generation before are still delivered. Stashed
  offsets are sent under the next generation and may move the committed offset
  of a partition back, which delivers again and skips nothing
  (`NothingSkipped`). A `Close` between two handshakes ends `run` without
  `leaveGroup`, and the group waits for the session timeout; `RebalanceJoined`
  ends at `Close` for that reason. Requests to the coordinator have no deadline.
- Group balancers. The example of `RangeGroupBalancer` (`groupbalancer.go:42`:
  5 partitions, 2 consumers, C0 gets [0, 1, 2]) is not what the quotients give:
  C0 gets [0, 1] and C1 gets [2, 3, 4]. The shares are as even.
- Dialer. `LookupPartition` never reaches its `UnknownTopicOrPartition`.

## 7. Abstractions

- Time is not measured. A timer that is armed may fire at any later moment, a
  backoff may end at any moment, and a context that was cancelled before a
  sleep of at least 100 ms ends that sleep.
- Data. A message is an identifier with a size, or an offset, or a key with a
  size. Values, headers and checksums do not appear; compression is that the
  tokens of a set are one token until it is pushed on the stack.
- `Writer`: a caller makes one call. `MaxRebalances` bounds the ticks that are
  heard, `Depth` is the number of messages a partition writer can hold.
- `Balancer`: one goroutine calls `Balance`, as in `Writer`. `MaxCalls` bounds
  the calls.
- `Conn`: correlation ids do not wrap; 2^32 requests in flight would be needed.
  An operation that is astray returns "ok" where the bytes that it misread may
  also have been a Kafka error. `ApiVersions` leaves `rconn` set when it
  returns, which matters to the adjustment of deadlines only.
  `PartitionWriter` and `Reader` use the outcomes that are likely on a
  connection with bytes left behind, to spin or to fail; being astray is in
  `Conn` only.
- `Batch`: one goroutine uses the `Conn`; what sharing one does is in `Conn`.
  `BatchAssumption` leaves out version 2 batches without records and logs in
  which an older format follows a newer one. `MaxSeeks` and `MaxResets` bound
  the program and the network.
- `Reader`: the counter of errors is reduced to the attempt from which errors
  are reported. `MaxStarts` and `MaxOffset` bound the versions and the log.
  A `RequestTimedOut` that `ReadBatch` makes of a response too short to be
  decoded is not told from one of the broker.
- `GroupMember`: the topic of the Reader only, `AutoOffsetReset = FirstOffset`,
  one commit per request. A coordinator operation is one step: it is answered,
  or it fails; an offset commit that fails may have been stored for any of its
  partitions. The lookup of the coordinator retries until it succeeds or the
  Reader is closed. The heartbeat fails in one step when the coordinator refuses
  it; heartbeats that succeed change nothing.
- `GroupBalancer`: a member id is a number, for its order.

## 8. Not modelled

- Codecs are field by field serialization without state. Compression and the
  SASL mechanisms wrap other libraries. Statistics decide nothing.
- `Dialer`: what it orders in time is left to package `net` (the race of the two
  address families, the resolver), to `crypto/tls` and to the SASL mechanisms,
  and no state outlives a dial. A dial is one step of the modules that dial, and
  succeeds or fails.
- Of a `Conn`: what `ReadPartitions`, `Brokers` and `Controller` make of the
  metadata (the locking of their requests is that of `plain` operations), and
  the adjustment of deadlines.
- Of a `Reader`: `SetOffsetAt`, which is a lookup followed by `SetOffset`;
  `ReadLag` and the goroutine that reads the lag, on which nothing depends.
- Of the group: a JoinGroup or SyncGroup whose response is lost after the
  coordinator has acted, and a coordinator that is silent for ever.
- The validation and the defaults of configurations.

## 9. What is left

1. Composition: several `GroupMember`s with `GroupBalancer` in place of the free
   assignment, for `OwnedReads` between members; a `Reader` over `Batch` in
   place of its abstract fetch.
2. `GroupMember`: lost responses to JoinGroup and SyncGroup, the last offset as
   a reset.
3. Abstract specifications: an at-least-once consumer that `GroupMember`
   implements, a sequential connection that `Conn` implements when no error code
   leaves bytes behind.

## 10. Running TLC and TLAPS

    tlc -workers 2 -config PartitionWriter.cfg MCPartitionWriter
    tlapm PartitionWriterProofs.tla

and the same for the other runs and the other modules whose names end in
`Proofs` or `Invariant`. Each run of section 3 takes from a few seconds to a few
minutes, and so does each module of proofs (`BatchProofs` and `WriterProofs`, the
longest, less than ten); the module and the configuration of each run are in
`PROJECT.json`.
