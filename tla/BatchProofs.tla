----------------------------- MODULE BatchProofs -----------------------------
(***************************************************************************)
(* Proofs about Batch: the messages that Read and ReadMessage return are   *)
(* the messages of the partition, one after the other, and Batch.Close     *)
(* leaves the connection at a response boundary, for any log of the        *)
(* partition, any size of a response and both versions of a fetch.         *)
(*                                                                         *)
(* The argument follows a place in the log: batch i, of which k messages   *)
(* have been read.  While a call reads, the bytes that are left are those  *)
(* of the log from that place on, perhaps cut at the end of the response   *)
(* (OnStream), or the rest of a decompressed batch and the batches behind  *)
(* it (OnStack).  All messages before the place are below the offset of    *)
(* the Batch and below the one the program is owed; none that is owed is   *)
(* skipped (Tracks).  Between two fetches the Conn stands where the        *)
(* program is, up to offsets at which the log has no message (Aligned).    *)
(***************************************************************************)
EXTENDS Batch, TLAPS

-----------------------------------------------------------------------------
(* The invariant. *)

Tags == {"msg", "wrap", "head", "packed", "blob", "big", "rec", "part", "stub", "rest"}
Tokens == [t : Tags, offset : Int, inner : Seq(Int)]
Readers == [base : Int, data : Seq(Tokens)]

\* What the variables hold.
BatchTypeOK ==
  /\ log \in Logs /\ end \in 1 .. Len(log) /\ head \in 1 .. end + 1
  /\ fetchVersion \in {2, 5} /\ room \in Nat /\ api \in {"Read", "ReadMessage"}
  /\ offset \in Int /\ position \in Int /\ saved \in Int /\ want \in Int
  /\ stream \in Seq(Seq(Tokens)) /\ stack \in Seq(Readers)
  /\ seek \in [to : Int, whence : {"start", "absolute", "end", "current"},
               for : {"idle", "fetch"}, first : Int]
  /\ messageCount \in Int /\ firstOffset \in Int
  /\ msgs \in {"none", "empty", "v1", "v2"}

\* Nothing was read of a response that has no reader, and a call that reads has
\* not failed.
Opening ==
  /\ pc \in {"batch", "read"} /\ msgs = "none" => pc = "batch" /\ err \in {"Kafka", "failed"}
  /\ msgs = "empty" => stack = <<>>
  /\ pc = "read" => err = "nil"
  /\ pc \in {"first", "last", "fetch"} => netOpen
  /\ pc \in {"first", "last"} => seek.first >= 0

\* From p and from q on, l has the same messages.
Same(l, p, q) ==
  \A a \in 1 .. Len(l) : \A b \in 1 .. Len(l[a].offsets) :
    p <= l[a].offsets[b] <=> q <= l[a].offsets[b]

\* The Conn and the Batch are where the program is, but for a connection that
\* is about to be closed, and for ReadMessage while it skips messages.
Aligned ==
  /\ pc \in {"idle", "first", "last", "fetch"} /\ netOpen /\ offset # FirstOffset => Same(log, offset, want)
  /\ pc = "fetch" => offset # FirstOffset
  /\ pc = "batch" /\ err # "failed" => Same(log, position, want)
  /\ pc = "read" => Same(log, saved, want)
  /\ pc = "read" /\ (msgs # "v2" \/ api = "Read") => position = saved
  /\ pc \in {"batch", "read"} /\ msgs = "v1" => offset <= position

\* The messages of l before the one at i, k + 1 are below p.
Behind(l, p, i, k) ==
  \A a \in 1 .. Len(l) : \A b \in 1 .. Len(l[a].offsets) :
    a < i \/ (a = i /\ b <= k) => l[a].offsets[b] < p

\* Those from there on that are not below p are not below q.
Ahead(l, p, q, i, k) ==
  \A a \in 1 .. Len(l) : \A b \in 1 .. Len(l[a].offsets) :
    (i < a \/ (a = i /\ k < b)) /\ p <= l[a].offsets[b] => q <= l[a].offsets[b]

\* s is what is left of the bytes b without the first d tokens, perhaps cut.
Cut(s) == s[Len(s)] = Part
Piece(s, b, d) ==
  /\ Len(s) >= 1 /\ d + Len(s) <= Len(b)
  /\ \A j \in 1 .. Len(s) - 1 : s[j] = b[d + j]
  /\ Cut(s) \/ (s[Len(s)] = b[Len(b)] /\ d + Len(s) = Len(b))

\* s are the batches of l from i on, as version v sends them, without d tokens
\* of the first.  Reader v2 never has part of the batch with offset o.
Pieces(s, l, v, o, m, i, d) ==
  \A j \in 1 .. Len(s) :
    /\ i + j - 1 \in 1 .. Len(l)
    /\ Piece(s[j], Encode(l[i + j - 1], v), IF j = 1 THEN d ELSE 0)
    /\ m = "v2" /\ Cut(s[j]) => o < l[i + j - 1].base

\* s without the first token of its first batch.
Rest(s) == [s EXCEPT ![1] = Tail(@)]

\* The offsets of e, relative to its first.
Relative(r, e) ==
  /\ Len(r) = Len(e.offsets)
  /\ \A j \in 1 .. Len(e.offsets) : r[j] = e.offsets[j] - e.base

\* The bytes b of the batch e: messages, a wrapper, a header and records, a
\* header and a blob.
IsMsgs(b, e) ==
  /\ Len(b) = Len(e.offsets)
  /\ \A j \in 1 .. Len(b) : b[j].t = "msg" /\ b[j].offset = e.offsets[j]
IsWrap(b, e) ==
  /\ Len(b) = 1
  /\ b[1].t = "wrap" /\ b[1].offset = e.offsets[Len(e.offsets)] /\ Relative(b[1].inner, e)
IsPlain(b, e) ==
  /\ Len(b) = Len(e.offsets) + 1
  /\ b[1].t = "head" /\ b[1].offset = e.base /\ Relative(b[1].inner, e)
  /\ \A j \in 1 .. Len(e.offsets) : b[j + 1].t = "rec" /\ b[j + 1].offset = e.offsets[j] - e.base
IsPacked(b, e) ==
  /\ Len(b) = 2
  /\ b[1].t = "packed" /\ b[1].offset = e.base /\ Relative(b[1].inner, e)
  /\ b[2].t \in {"blob", "big"} /\ Relative(b[2].inner, e)

\* What a token of b says about it.
Typical(b, e, v) ==
  \A j \in 1 .. Len(b) :
    /\ b[j].t # "part" /\ b[j].t # "stub"
    /\ b[j].t = "msg" => IsMsgs(b, e)
    /\ b[j].t = "wrap" => IsWrap(b, e) /\ j = 1
    /\ b[j].t = "head" => IsPlain(b, e) /\ j = 1 /\ v = 5
    /\ b[j].t = "packed" => IsPacked(b, e) /\ j = 1 /\ v = 5
    /\ b[j].t = "rec" => IsPlain(b, e) /\ j # 1

\* The reader is on the connection, d tokens into the batch at i.
OnStream(i, d) ==
  /\ stack = <<>>
  /\ d > 0 => stream # <<>>
  /\ Pieces(stream, log, fetchVersion, offset, msgs, i, d)
  /\ msgs = "v1" /\ d > 0 => IsMsgs(Encode(log[i], fetchVersion), log[i])
  /\ msgs = "v2" /\ d = 0 => messageCount = 0
  /\ msgs = "v2" /\ d > 0 => /\ IsPlain(Encode(log[i], fetchVersion), log[i])
                             /\ messageCount = Len(log[i].offsets) - (d - 1)
                             /\ firstOffset = log[i].base
  /\ msgs = "v2" /\ stream = <<>> /\ i \in 1 .. Len(log) => offset < log[i].base

\* How many messages of the batch have been read then.
Messages1(d) == IF msgs = "v2" /\ d > 0 THEN d - 1 ELSE d

\* The reader is on the decompressed data of the batch at i, of which k messages
\* have been read.
OnStack(i, k) ==
  /\ Len(stack) = 1
  /\ i \in 1 .. Len(log)
  /\ Len(stack[1].data) = Len(log[i].offsets) - k
  /\ \A j \in 1 .. Len(stack[1].data) :
       stack[1].data[j].offset + (IF msgs = "v1" THEN stack[1].base ELSE firstOffset)
         = log[i].offsets[k + j]
  /\ msgs = "v2" => messageCount = Len(log[i].offsets) - k
  /\ msgs = "v1" => \A j \in 1 .. Len(stack[1].data) : stack[1].data[j].t = "msg"
  /\ msgs = "v2" => \A j \in 1 .. Len(stack[1].data) : stack[1].data[j].t = "rec"
  /\ Pieces(stream, log, fetchVersion, offset, msgs, i + 1, 0)

\* The message at i, k + 1 is the next that the Batch reads.
Tracks(i, k) ==
  /\ Behind(log, position, i, k) /\ Behind(log, want, i, k)
  /\ i \in 1 .. Len(log) => offset <= log[i].last
  /\ msgs = "v2" /\ api = "ReadMessage" =>
       /\ Ahead(log, offset, want, i, k)
       /\ Ahead(log, want, offset, i, k)
       /\ Ahead(log, offset, position, i, k)

Count(i) == IF i \in 1 .. Len(log) THEN Len(log[i].offsets) ELSE 0

\* k messages of the batch at i have been read.
At(i, k) == OnStack(i, k) \/ \E d \in 0 .. k + 1 : OnStream(i, d) /\ k = Messages1(d)

\* The offset of the message that is read next.
Current == IF msgs = "v1" THEN Data[1].offset + Base ELSE firstOffset + Data[1].offset

\* That message is read.
ReadsMessage ==
  /\ \/ msgs = "v1" /\ Next1 = "msg"
     \/ msgs = "v2" /\ messageCount > 0 /\ Next1 = "rec"
  /\ Consume
  /\ messageCount' = IF msgs = "v2" THEN messageCount - 1 ELSE messageCount
  /\ UNCHANGED <<log, fetchVersion, offset, msgs, firstOffset>>

Tracked == \E i \in 1 .. Len(log) + 1 : \E k \in 0 .. Count(i) : At(i, k) /\ Tracks(i, k)

Tracking == pc \in {"batch", "read"} /\ err = "nil" /\ msgs \in {"v1", "v2"} => Tracked

BatchInv == Opening /\ Aligned /\ Tracking

-----------------------------------------------------------------------------
(* Sequences. *)

LEMMA LenProperties ==
  ASSUME NEW S, NEW s \in Seq(S)
  PROVE  Len(s) \in Nat /\ DOMAIN s = 1 .. Len(s) /\ s \in [1 .. Len(s) -> S]
OBVIOUS

LEMMA ElementOfSeq ==
  ASSUME NEW S, NEW s \in Seq(S), NEW i \in 1 .. Len(s)
  PROVE  s[i] \in S
OBVIOUS

LEMMA EmptySeq ==
  ASSUME NEW S
  PROVE  <<>> \in Seq(S) /\ Len(<<>>) = 0 /\ \A s \in Seq(S) : s # <<>> => Len(s) \in Nat \ {0}
OBVIOUS

LEMMA ConcatProperties ==
  ASSUME NEW S, NEW s \in Seq(S), NEW t \in Seq(S)
  PROVE  /\ s \o t \in Seq(S) /\ Len(s \o t) = Len(s) + Len(t)
         /\ \A i \in 1 .. Len(s) + Len(t) :
              (s \o t)[i] = IF i <= Len(s) THEN s[i] ELSE t[i - Len(s)]
OBVIOUS

LEMMA SubSeqProperties ==
  ASSUME NEW S, NEW s, NEW a \in Int, NEW b \in Int, \A i \in a .. b : s[i] \in S
  PROVE  /\ SubSeq(s, a, b) \in Seq(S)
         /\ Len(SubSeq(s, a, b)) = IF a <= b THEN b - a + 1 ELSE 0
         /\ \A i \in 1 .. b - a + 1 : SubSeq(s, a, b)[i] = s[a + i - 1]
OBVIOUS

LEMMA HeadTailProperties ==
  ASSUME NEW S, NEW s \in Seq(S), s # <<>>
  PROVE  /\ Head(s) \in S /\ Tail(s) \in Seq(S) /\ Len(Tail(s)) = Len(s) - 1
         /\ \A i \in 1 .. Len(Tail(s)) : Tail(s)[i] = s[i + 1]
OBVIOUS

LEMMA AppendProperties ==
  ASSUME NEW S, NEW s \in Seq(S), NEW e \in S
  PROVE  /\ Append(s, e) \in Seq(S) /\ Append(s, e) # <<>> /\ Len(Append(s, e)) = Len(s) + 1
         /\ \A i \in 1 .. Len(s) : Append(s, e)[i] = s[i]
         /\ Append(s, e)[Len(s) + 1] = e
OBVIOUS


-----------------------------------------------------------------------------
(* The log. *)

\* What the assumption says of a log.
LEMMA LogEntries ==
  ASSUME NEW l \in Logs
  PROVE  /\ l \in Seq(Entry) /\ Len(l) \in Nat
         /\ \A i \in 1 .. Len(l) :
              /\ l[i] \in Entry
              /\ l[i].base \in Nat /\ l[i].last \in Nat /\ l[i].offsets \in Seq(Nat)
              /\ Len(l[i].offsets) \in Nat \ {0}
              /\ \A j \in 1 .. Len(l[i].offsets) :
                   /\ l[i].offsets[j] \in Nat
                   /\ l[i].base <= l[i].offsets[j] /\ l[i].offsets[j] <= l[i].last
              /\ \A j, k \in 1 .. Len(l[i].offsets) : j < k => l[i].offsets[j] < l[i].offsets[k]
         /\ \A i, j \in 1 .. Len(l) : i < j => l[i].last < l[j].base
<1>1. l \in Seq(Entry) /\ Len(l) \in Nat /\ DOMAIN l = 1 .. Len(l)
  BY BatchAssumption DEF BatchAssumption
<1>2. ASSUME NEW i \in 1 .. Len(l)
      PROVE  /\ l[i] \in Entry
             /\ l[i].base \in Nat /\ l[i].last \in Nat /\ l[i].offsets \in Seq(Nat)
             /\ Len(l[i].offsets) \in Nat \ {0}
             /\ \A j \in 1 .. Len(l[i].offsets) :
                  /\ l[i].offsets[j] \in Nat
                  /\ l[i].base <= l[i].offsets[j] /\ l[i].offsets[j] <= l[i].last
             /\ \A j, k \in 1 .. Len(l[i].offsets) : j < k => l[i].offsets[j] < l[i].offsets[k]
  <2>1. l[i] \in Entry
    BY <1>1
  <2>2. l[i].base \in Nat /\ l[i].last \in Nat /\ l[i].offsets \in Seq(Nat)
    BY Zenon, <2>1 DEF Entry
  <2>3. /\ l[i].offsets # <<>>
        /\ \A j \in 1 .. Len(l[i].offsets) : l[i].offsets[j] \in l[i].base .. l[i].last
        /\ \A j, k \in 1 .. Len(l[i].offsets) : j < k => l[i].offsets[j] < l[i].offsets[k]
    BY ZenonT(60), <1>1, BatchAssumption DEF BatchAssumption
  <2>4. Len(l[i].offsets) \in Nat \ {0}
    BY Zenon, <2>2, <2>3, EmptySeq, LenProperties
  <2> QED
    BY SMTT(40), <2>1, <2>2, <2>3, <2>4
<1>3. \A i, j \in 1 .. Len(l) : i < j => l[i].last < l[j].base
  BY Zenon, <1>1, BatchAssumption DEF BatchAssumption
<1> QED
  BY Zenon, <1>1, <1>2, <1>3

\* The numbers in a log are numbers.
LEMMA LogTypes ==
  ASSUME NEW l \in Logs
  PROVE  /\ Len(l) \in Nat
         /\ \A a \in 1 .. Len(l) : /\ l[a].base \in Int /\ l[a].last \in Int
                                   /\ Len(l[a].offsets) \in Nat
                                   /\ \A b \in 1 .. Len(l[a].offsets) : l[a].offsets[b] \in Int
<1>1. \A n \in Nat : n \in Int
  OBVIOUS
<1> QED
  BY <1>1, Zenon, LogEntries

\* Messages are in order, within a batch and from one to the next.
LEMMA Ordered ==
  ASSUME NEW l \in Logs, NEW a \in 1 .. Len(l), NEW b \in 1 .. Len(l[a].offsets),
         NEW i \in 1 .. Len(l), NEW k \in 1 .. Len(l[i].offsets)
  PROVE  (a < i \/ (a = i /\ b < k)) => l[a].offsets[b] < l[i].offsets[k]
<1>1. ASSUME a = i, b < k PROVE l[a].offsets[b] < l[i].offsets[k]
  BY <1>1, Zenon, LogEntries
<1>2. ASSUME a < i PROVE l[a].offsets[b] < l[i].offsets[k]
  <2>1. /\ l[a].last < l[i].base /\ l[a].offsets[b] <= l[a].last /\ l[i].base <= l[i].offsets[k]
    BY <1>2, Zenon, LogEntries
  <2>2. /\ l[a].last \in Int /\ l[i].base \in Int
        /\ l[a].offsets[b] \in Int /\ l[i].offsets[k] \in Int
    BY Zenon, LogTypes
  <2> QED
    BY ONLY SMTT(40), <2>1, <2>2
<1> QED
  BY <1>1, <1>2, Zenon

\* The next batch, when all messages of one have been read.
LEMMA NextBatch ==
  ASSUME NEW l \in Logs, NEW i \in 1 .. Len(l), NEW p \in Int, NEW q \in Int
  PROVE  /\ Behind(l, p, i, Len(l[i].offsets)) => Behind(l, p, i + 1, 0)
         /\ Ahead(l, p, q, i, Len(l[i].offsets)) => Ahead(l, p, q, i + 1, 0)
<1>1. \A a \in 1 .. Len(l) : Len(l[a].offsets) \in Nat
  BY Zenon, LogTypes
<1>2. ASSUME NEW a \in 1 .. Len(l), NEW b \in 1 .. Len(l[a].offsets)
      PROVE  /\ a < i + 1 \/ (a = i + 1 /\ b <= 0) => a < i \/ (a = i /\ b <= Len(l[i].offsets))
             /\ i + 1 < a \/ (a = i + 1 /\ 0 < b) => i < a
  BY <1>1
<1> QED
  BY ONLY <1>2, Zenon DEF Behind, Ahead

\* One message further: it is below p; it is o.
LEMMA NextMessage ==
  ASSUME NEW l \in Logs, NEW i \in 1 .. Len(l), NEW k \in Nat, k + 1 \in 1 .. Len(l[i].offsets),
         NEW p \in Int, NEW q \in Int
  PROVE  /\ Behind(l, p, i, k) /\ l[i].offsets[k + 1] < p => Behind(l, p, i, k + 1)
         /\ Ahead(l, p, q, i, k) => Ahead(l, p, q, i, k + 1)
         /\ Behind(l, l[i].offsets[k + 1] + 1, i, k + 1)
         /\ Ahead(l, p, l[i].offsets[k + 1] + 1, i, k + 1)
         /\ p <= l[i].offsets[k + 1] + 1 => Ahead(l, l[i].offsets[k + 1] + 1, p, i, k + 1)
<1> DEFINE o == l[i].offsets[k + 1]
<1>1. \A a \in 1 .. Len(l) : /\ Len(l[a].offsets) \in Nat
                             /\ \A b \in 1 .. Len(l[a].offsets) : l[a].offsets[b] \in Int
  BY Zenon, LogTypes
<1>2. ASSUME NEW a \in 1 .. Len(l), NEW b \in 1 .. Len(l[a].offsets)
      PROVE  /\ a < i \/ (a = i /\ b <= k + 1) => (a < i \/ (a = i /\ b <= k)) \/ l[a].offsets[b] = o
             /\ i < a \/ (a = i /\ k + 1 < b) => i < a \/ (a = i /\ k < b)
  <2>1. b \in Nat
    BY <1>1
  <2> QED
    BY <2>1
<1>3. ASSUME NEW a \in 1 .. Len(l), NEW b \in 1 .. Len(l[a].offsets)
      PROVE  /\ a < i \/ (a = i /\ b <= k + 1) => l[a].offsets[b] < o + 1
             /\ i < a \/ (a = i /\ k + 1 < b) => o + 1 <= l[a].offsets[b]
  <2>1. b \in Nat /\ a \in Nat /\ i \in Nat /\ o \in Int /\ l[a].offsets[b] \in Int
    BY <1>1
  <2>2. /\ (a < i \/ (a = i /\ b < k + 1)) => l[a].offsets[b] < o
        /\ (i < a \/ (i = a /\ k + 1 < b)) => o < l[a].offsets[b]
    BY Zenon, Ordered
  <2>3. a = i /\ b = k + 1 => l[a].offsets[b] = o
    BY Zenon
  <2> HIDE DEF o
  <2> QED
    BY ONLY <2>1, <2>2, <2>3, k \in Nat
<1>4. o \in Int
  BY Zenon, <1>1
<1>5. Behind(l, p, i, k) /\ o < p => Behind(l, p, i, k + 1)
  <2> HIDE DEF o
  <2> QED
    BY ONLY <1>2, Zenon DEF Behind
<1>6. Ahead(l, p, q, i, k) => Ahead(l, p, q, i, k + 1)
  BY ONLY <1>2, Zenon DEF Ahead
<1>7. Behind(l, o + 1, i, k + 1) /\ Ahead(l, p, o + 1, i, k + 1)
  <2> HIDE DEF o
  <2> QED
    BY ONLY <1>3, Zenon DEF Behind, Ahead
<1>8. p <= o + 1 => Ahead(l, o + 1, p, i, k + 1)
  <2> HIDE DEF o
  <2> QED
    BY ONLY SMTT(40), <1>1, <1>4, p \in Int DEF Ahead
<1> QED
  BY Zenon, <1>5, <1>6, <1>7, <1>8

-----------------------------------------------------------------------------
(* The bytes of batches. *)

LEMMA Prefixed ==
  ASSUME NEW x \in Tokens, NEW c \in Seq(Tokens), NEW b, b = <<x>> \o c
  PROVE  /\ b \in Seq(Tokens) /\ Len(b) = Len(c) + 1
         /\ b[1] = x /\ \A j \in 1 .. Len(c) : b[j + 1] = c[j]
<1>1. <<x>> \in Seq(Tokens) /\ Len(<<x>>) = 1 /\ <<x>>[1] = x
  OBVIOUS
<1> DEFINE h == <<x>>
<1> HIDE DEF h
<1>2. /\ h \o c \in Seq(Tokens) /\ Len(h \o c) = Len(h) + Len(c)
      /\ \A i \in 1 .. Len(h) + Len(c) : (h \o c)[i] = IF i <= Len(h) THEN h[i] ELSE c[i - Len(h)]
  <2>1. h \in Seq(Tokens)
    BY Zenon, <1>1 DEF h
  <2> QED
    BY <2>1, Zenon, ConcatProperties
<1>3. b = h \o c /\ Len(h) = 1 /\ h[1] = x
  BY Zenon, <1>1 DEF h
<1> QED
  BY <1>2, <1>3

\* A batch has one of four forms, the first two for version 2.
LEMMA Forms ==
  ASSUME NEW l \in Logs, NEW i \in 1 .. Len(l), NEW v \in {2, 5}
  PROVE  /\ Encode(l[i], v) \in Seq(Tokens) /\ Len(Encode(l[i], v)) \in Nat \ {0}
         /\ \/ IsMsgs(Encode(l[i], v), l[i]) \/ IsWrap(Encode(l[i], v), l[i])
            \/ v = 5 /\ (IsPlain(Encode(l[i], v), l[i]) \/ IsPacked(Encode(l[i], v), l[i]))
<1> DEFINE e == l[i]
           n == Len(e.offsets)
           r == [j \in 1 .. n |-> e.offsets[j] - e.base]
           b == Encode(e, v)
<1>1. /\ e \in Entry /\ n \in Nat \ {0} /\ e.base \in Nat
      /\ \A j \in 1 .. n : e.offsets[j] \in Nat
  BY Zenon, LogEntries
<1>2. r \in Seq(Int) /\ Len(r) = n /\ Relative(r, e)
  <2>1. \A j \in 1 .. n : e.offsets[j] - e.base \in Int
    BY <1>1
  <2> QED
    BY <1>1, <2>1 DEF Relative
<1>3. \A t \in Tags, o \in Int, inner \in Seq(Int) : Token(t, o, inner) \in Tokens
  BY Zenon DEF Token, Tokens
<1>4. /\ <<>> \in Seq(Int) /\ e.offsets[n] \in Int /\ e.base \in Int /\ 0 \in Int
      /\ \A j \in 1 .. n : e.offsets[j] \in Int /\ e.offsets[j] - e.base \in Int
  BY ONLY <1>1
<1>10. \A t \in {"wrap", "packed", "blob", "big", "msg", "head", "rec"} : t \in Tags
  BY Zenon DEF Tags
<1>11. \A j \in 1 .. n : r[j] \in Int
  BY ONLY Zenon, <1>4
<1>5. e.packed \in BOOLEAN
  BY Zenon, <1>1 DEF Entry
<1>6. CASE e.packed /\ (e.magic = 1 \/ v = 2)
  <2>1. b = <<Token("wrap", e.offsets[n], r)>>
    BY Zenon, <1>6 DEF Encode
  <2>2. Token("wrap", e.offsets[n], r) \in Tokens
    <3> HIDE DEF r
    <3> QED
      BY <1>2, <1>3, <1>4, <1>10, <1>11, Zenon
  <2> HIDE DEF r
  <2>3. b \in Seq(Tokens) /\ Len(b) = 1
    BY <2>1, <2>2
  <2>4. b[1].t = "wrap" /\ b[1].offset = e.offsets[n] /\ b[1].inner = r
    BY <2>1 DEF Token
  <2> QED
    BY <1>2, <2>3, <2>4 DEF IsWrap
<1>7. CASE e.packed /\ ~(e.magic = 1 \/ v = 2)
  <2> DEFINE t == IF e.big THEN "big" ELSE "blob"
  <2>1. b = <<Token("packed", e.base, r), Token(t, 0, r)>>
    BY Zenon, <1>7 DEF Encode
  <2>2. t \in {"blob", "big"}
    BY Zenon
  <2> HIDE DEF r, t
  <2>3. Token("packed", e.base, r) \in Tokens /\ Token(t, 0, r) \in Tokens
    BY <1>2, <1>3, <1>4, <1>10, <2>2, Zenon
  <2>4. b \in Seq(Tokens) /\ Len(b) = 2
    BY <2>1, <2>3
  <2>5. b[1].t = "packed" /\ b[1].offset = e.base /\ b[1].inner = r /\ b[2].t = t /\ b[2].inner = r
    BY <2>1 DEF Token
  <2> QED
    BY <1>2, <1>7, <2>2, <2>4, <2>5 DEF IsPacked
<1>8. CASE ~e.packed /\ (e.magic = 1 \/ v = 2)
  <2>1. b = [j \in 1 .. n |-> Token("msg", e.offsets[j], <<>>)]
    BY Zenon, <1>8 DEF Encode
  <2>2. \A j \in 1 .. n : Token("msg", e.offsets[j], <<>>) \in Tokens
    BY <1>3, <1>4, <1>10, Zenon
  <2>3. b \in Seq(Tokens) /\ Len(b) = n
    BY <1>1, <2>1, <2>2
  <2>4. \A j \in 1 .. n : b[j].t = "msg" /\ b[j].offset = e.offsets[j]
    BY <2>1 DEF Token
  <2> QED
    BY Zenon, <1>1, <2>3, <2>4 DEF IsMsgs
<1>9. CASE ~e.packed /\ ~(e.magic = 1 \/ v = 2)
  <2> DEFINE x == Token("head", e.base, r)
             c == [j \in 1 .. n |-> Token("rec", r[j], <<>>)]
  <2>1. b = <<x>> \o c /\ v = 5
    BY Zenon, <1>9 DEF Encode
  <2>2. x \in Tokens /\ \A j \in 1 .. n : Token("rec", r[j], <<>>) \in Tokens
    <3> HIDE DEF r
    <3> QED
      BY <1>2, <1>3, <1>4, <1>10, <1>11, Zenon
  <2>3. \A j \in 1 .. n : r[j] = e.offsets[j] - e.base
    BY Zenon
  <2> HIDE DEF r
  <2>4. c \in Seq(Tokens) /\ Len(c) = n
    BY <1>1, <2>2
  <2>5. x.t = "head" /\ x.offset = e.base /\ x.inner = r
    BY Zenon DEF Token
  <2>6. \A j \in 1 .. n : c[j].t = "rec" /\ c[j].offset = r[j]
    BY Zenon DEF Token
  <2> HIDE DEF x, c, b
  <2>7. /\ b \in Seq(Tokens) /\ Len(b) = n + 1
        /\ b[1] = x /\ \A j \in 1 .. n : b[j + 1] = c[j]
    <3>1. /\ b \in Seq(Tokens) /\ Len(b) = Len(c) + 1
          /\ b[1] = x /\ \A j \in 1 .. Len(c) : b[j + 1] = c[j]
      BY <2>1, <2>2, <2>4, Prefixed
    <3> QED
      BY ONLY <2>4, <3>1, Zenon
  <2>8. \A j \in 1 .. n : b[j + 1].t = "rec" /\ b[j + 1].offset = e.offsets[j] - e.base
    BY ONLY <2>3, <2>6, <2>7, ZenonT(60)
  <2>9. IsPlain(b, e)
    BY ONLY <1>2, <2>5, <2>7, <2>8, Zenon DEF IsPlain
  <2>10. Len(b) \in Nat \ {0}
    BY ONLY <1>1, <2>7
  <2> QED
    BY Zenon, <2>1, <2>7, <2>9, <2>10 DEF b
<1> QED
  BY Zenon, <1>5, <1>6, <1>7, <1>8, <1>9

\* What a token says about its batch.
LEMMA Tells ==
  ASSUME NEW l \in Logs, NEW i \in 1 .. Len(l), NEW v \in {2, 5}
  PROVE  Typical(Encode(l[i], v), l[i], v)
<1> DEFINE b == Encode(l[i], v)
           e == l[i]
<1>1. Len(e.offsets) \in Nat \ {0} /\ Len(b) \in Nat \ {0}
  BY Forms, LogEntries, Zenon
<1>2. \/ IsMsgs(b, e) \/ IsWrap(b, e)
      \/ v = 5 /\ (IsPlain(b, e) \/ IsPacked(b, e))
  BY Forms, Zenon
<1> HIDE DEF b, e
<1> SUFFICES ASSUME NEW j \in 1 .. Len(b)
             PROVE  /\ b[j].t # "part" /\ b[j].t # "stub"
                    /\ b[j].t = "msg" => IsMsgs(b, e)
                    /\ b[j].t = "wrap" => IsWrap(b, e) /\ j = 1
                    /\ b[j].t = "head" => IsPlain(b, e) /\ j = 1 /\ v = 5
                    /\ b[j].t = "packed" => IsPacked(b, e) /\ j = 1 /\ v = 5
                    /\ b[j].t = "rec" => IsPlain(b, e) /\ j # 1
  BY Zenon DEF Typical, b, e
<1>3. CASE IsMsgs(b, e)
  <2>1. b[j].t = "msg"
    BY <1>3, Zenon DEF IsMsgs
  <2> QED
    BY Zenon, <1>3, <2>1
<1>4. CASE IsWrap(b, e)
  <2>1. j = 1 /\ b[j].t = "wrap"
    BY <1>4 DEF IsWrap
  <2> QED
    BY Zenon, <1>4, <2>1
<1>5. CASE v = 5 /\ IsPlain(b, e)
  <2>1. j = 1 => b[j].t = "head"
    BY Zenon, <1>5 DEF IsPlain
  <2>2. ASSUME j # 1 PROVE b[j].t = "rec"
    <3>1. j - 1 \in 1 .. Len(e.offsets) /\ (j - 1) + 1 = j
      BY <1>1, <1>5, <2>2 DEF IsPlain
    <3> QED
      BY <1>5, <3>1, Zenon DEF IsPlain
  <2> QED
    BY Zenon, <1>5, <2>1, <2>2
<1>6. CASE v = 5 /\ IsPacked(b, e)
  <2>1. (j = 1 /\ b[j].t = "packed") \/ b[j].t \in {"blob", "big"}
    BY <1>6 DEF IsPacked
  <2> QED
    BY Zenon, <1>6, <2>1
<1> QED
  BY Zenon, <1>2, <1>3, <1>4, <1>5, <1>6

\* The first token of a piece, and what is left after it.
LEMMA PieceFirst ==
  ASSUME NEW b \in Seq(Tokens), NEW s \in Seq(Tokens), NEW d \in Nat, Piece(s, b, d),
         \A j \in 1 .. Len(b) : b[j].t # "part"
  PROVE  /\ Len(s) \in Nat \ {0}
         /\ s[1].t = "part" => Cut(s)
         /\ s[1].t # "part" => d + 1 \in 1 .. Len(b) /\ s[1] = b[d + 1]
         /\ s[1].t # "part" /\ Len(s) = 1 => d + 1 = Len(b)
<1>1. Len(s) \in Nat /\ Len(b) \in Nat
  OBVIOUS
<1>2. ASSUME Len(s) # 1 PROVE d + 1 \in 1 .. Len(b) /\ s[1] = b[d + 1]
  <2>2. Len(s) >= 1 /\ d + Len(s) <= Len(b)
    BY Zenon DEF Piece
  <2>3. \A n, k \in Nat : n # 1 /\ n >= 1 /\ d + n <= k => 1 \in 1 .. n - 1 /\ d + 1 \in 1 .. k
    BY ONLY d \in Nat
  <2>1. 1 \in 1 .. Len(s) - 1 /\ d + 1 \in 1 .. Len(b)
    BY ONLY <1>1, <1>2, <2>2, <2>3, Zenon
  <2> QED
    BY <2>1, Zenon DEF Piece
<1>3. Len(s) = 1 /\ ~Cut(s) => d + 1 \in 1 .. Len(b) /\ s[1] = b[d + 1] /\ d + 1 = Len(b)
  BY <1>1 DEF Piece
<1>4. Len(s) = 1 /\ Cut(s) => s[1].t = "part"
  BY DEF Cut, Part, Token
<1>5. Len(s) >= 1
  BY Zenon DEF Piece
<1> QED
  BY <1>1, <1>2, <1>3, <1>4, <1>5

LEMMA PieceTail ==
  ASSUME NEW b \in Seq(Tokens), NEW s \in Seq(Tokens), NEW d \in Nat, Piece(s, b, d), Len(s) # 1
  PROVE  /\ Tail(s) \in Seq(Tokens)
         /\ Piece(Tail(s), b, d + 1)
         /\ Cut(Tail(s)) => Cut(s)
<1>1. Len(s) \in Nat /\ Len(b) \in Nat /\ Len(s) >= 1 /\ s # <<>>
  BY DEF Piece
<1> DEFINE t == Tail(s)
<1>2. t \in Seq(Tokens) /\ Len(t) = Len(s) - 1 /\ \A j \in 1 .. Len(t) : t[j] = s[j + 1]
  BY Zenon, <1>1, HeadTailProperties
<1> HIDE DEF t
<1>3. Cut(t) <=> Cut(s)
  BY <1>1, <1>2 DEF Cut
<1>4. Len(t) >= 1 /\ d + 1 + Len(t) <= Len(b)
  BY <1>1, <1>2 DEF Piece
<1>5. \A j \in 1 .. Len(t) - 1 : t[j] = b[d + 1 + j]
  <2>1. \A j \in 1 .. Len(s) - 1 : s[j] = b[d + j]
    BY Zenon DEF Piece
  <2>2. ASSUME NEW j \in 1 .. Len(t) - 1 PROVE t[j] = b[d + 1 + j]
    <3>1. j + 1 \in 1 .. Len(s) - 1 /\ j \in 1 .. Len(t) /\ d + (j + 1) = d + 1 + j
      BY ONLY <1>1, <1>2, <2>2, d \in Nat
    <3>2. t[j] = s[j + 1] /\ s[j + 1] = b[d + (j + 1)]
      BY ONLY <1>2, <2>1, <3>1, Zenon
    <3> QED
      BY ONLY Zenon, <3>1, <3>2
  <2> QED
    BY Zenon, <2>2
<1>6. Cut(t) \/ (t[Len(t)] = b[Len(b)] /\ d + 1 + Len(t) = Len(b))
  BY SMTT(40), <1>1, <1>2, <1>3, <1>4 DEF Piece
<1> QED
  BY Zenon, <1>2, <1>3, <1>4, <1>5, <1>6 DEF t, Piece

\* The first batch of a response.
LEMMA PiecesFirst ==
  ASSUME NEW l \in Logs, NEW v \in {2, 5}, NEW o, NEW m, NEW i \in Nat \ {0}, NEW d \in Nat,
         NEW s \in Seq(Seq(Tokens)), s # <<>>, Pieces(s, l, v, o, m, i, d)
  PROVE  /\ i \in 1 .. Len(l) /\ s[1] \in Seq(Tokens) /\ Piece(s[1], Encode(l[i], v), d)
         /\ m = "v2" /\ Cut(s[1]) => o < l[i].base
<1>1. 1 \in 1 .. Len(s) /\ i + 1 - 1 = i
  <2>1. Len(s) \in Nat /\ Len(s) # 0
    BY Zenon, EmptySeq
  <2> QED
    BY <2>1
<1>2. /\ i + 1 - 1 \in 1 .. Len(l)
      /\ Piece(s[1], Encode(l[i + 1 - 1], v), IF 1 = 1 THEN d ELSE 0)
      /\ m = "v2" /\ Cut(s[1]) => o < l[i + 1 - 1].base
  BY <1>1, Zenon DEF Pieces
<1>3. s[1] \in Seq(Tokens)
  BY Zenon, <1>1, ElementOfSeq
<1>4. (IF 1 = 1 THEN d ELSE 0) = d
  BY Zenon
<1> QED
  BY ONLY <1>1, <1>2, <1>3, <1>4, Zenon

\* The batches after it.
LEMMA PiecesTail ==
  ASSUME NEW l \in Logs, NEW v \in {2, 5}, NEW o, NEW m, NEW i \in Nat \ {0}, NEW d \in Nat,
         NEW s \in Seq(Seq(Tokens)), s # <<>>, Pieces(s, l, v, o, m, i, d)
  PROVE  Tail(s) \in Seq(Seq(Tokens)) /\ Pieces(Tail(s), l, v, o, m, i + 1, 0)
<1> DEFINE t == Tail(s)
<1>1. t \in Seq(Seq(Tokens)) /\ Len(t) = Len(s) - 1 /\ \A j \in 1 .. Len(t) : t[j] = s[j + 1]
  BY Zenon, HeadTailProperties
<1>2. Len(s) \in Nat
  OBVIOUS
<1> HIDE DEF t
<1>3. ASSUME NEW j \in 1 .. Len(t)
      PROVE  /\ (i + 1) + j - 1 \in 1 .. Len(l)
             /\ Piece(t[j], Encode(l[(i + 1) + j - 1], v), IF j = 1 THEN 0 ELSE 0)
             /\ m = "v2" /\ Cut(t[j]) => o < l[(i + 1) + j - 1].base
  <2>1. j + 1 \in 1 .. Len(s) /\ i + (j + 1) - 1 = (i + 1) + j - 1 /\ j + 1 # 1
    BY ONLY <1>1, <1>2, <1>3, i \in Nat
  <2>2. /\ i + (j + 1) - 1 \in 1 .. Len(l)
        /\ Piece(s[j + 1], Encode(l[i + (j + 1) - 1], v), IF j + 1 = 1 THEN d ELSE 0)
        /\ m = "v2" /\ Cut(s[j + 1]) => o < l[i + (j + 1) - 1].base
    BY <2>1, Zenon DEF Pieces
  <2>3. (IF j + 1 = 1 THEN d ELSE 0) = 0 /\ (IF j = 1 THEN 0 ELSE 0) = 0
    BY ONLY <2>1, Zenon
  <2>4. t[j] = s[j + 1]
    BY Zenon, <1>1
  <2> QED
    BY ONLY <2>1, <2>2, <2>3, <2>4, Zenon
<1>4. Pieces(t, l, v, o, m, i + 1, 0)
  BY ONLY <1>3, Zenon DEF Pieces
<1> QED
  BY Zenon, <1>1, <1>4 DEF t

\* The batches after a token of the first.
LEMMA PiecesWithin ==
  ASSUME NEW l \in Logs, NEW v \in {2, 5}, NEW o, NEW m, NEW i \in Nat \ {0}, NEW d \in Nat,
         NEW s \in Seq(Seq(Tokens)), s # <<>>, Pieces(s, l, v, o, m, i, d), Len(s[1]) # 1
  PROVE  Rest(s) \in Seq(Seq(Tokens)) /\ Rest(s) # <<>> /\ Pieces(Rest(s), l, v, o, m, i, d + 1)
<1> DEFINE t == Rest(s)
           c == s[1]
           b == Encode(l[i], v)
<1>1. /\ i \in 1 .. Len(l) /\ c \in Seq(Tokens) /\ Piece(c, b, d)
      /\ m = "v2" /\ Cut(c) => o < l[i].base
  BY Zenon, PiecesFirst
<1>2. b \in Seq(Tokens)
  BY <1>1, Forms, Zenon
<1>3. Tail(c) \in Seq(Tokens) /\ Piece(Tail(c), b, d + 1) /\ (Cut(Tail(c)) => Cut(c))
  <2> HIDE DEF b, c
  <2>1. Len(c) # 1
    BY Zenon DEF c
  <2> QED
    BY <1>1, <1>2, <2>1, PieceTail, Zenon
<1>4. Len(s) \in Nat /\ Len(s) # 0
  BY Zenon, EmptySeq
<1>5. /\ t \in Seq(Seq(Tokens)) /\ Len(t) = Len(s)
      /\ t[1] = Tail(c) /\ \A j \in 1 .. Len(s) : j # 1 => t[j] = s[j]
  BY <1>3, <1>4 DEF Rest
<1> HIDE DEF t, b, c
<1>6. t # <<>>
  BY Zenon, <1>4, <1>5, EmptySeq
<1>7. ASSUME NEW j \in 1 .. Len(t)
      PROVE  /\ i + j - 1 \in 1 .. Len(l)
             /\ Piece(t[j], Encode(l[i + j - 1], v), IF j = 1 THEN d + 1 ELSE 0)
             /\ m = "v2" /\ Cut(t[j]) => o < l[i + j - 1].base
  <2>1. CASE j = 1
    <3>1. i + j - 1 = i /\ (IF j = 1 THEN d + 1 ELSE 0) = d + 1
      BY <2>1
    <3> QED
      BY ONLY <1>1, <1>3, <1>5, <2>1, <3>1, Zenon DEF b
  <2>2. CASE j # 1
    <3>1. /\ i + j - 1 \in 1 .. Len(l)
          /\ Piece(s[j], Encode(l[i + j - 1], v), IF j = 1 THEN d ELSE 0)
          /\ m = "v2" /\ Cut(s[j]) => o < l[i + j - 1].base
      BY <1>5, Zenon DEF Pieces
    <3>2. (IF j = 1 THEN d ELSE 0) = (IF j = 1 THEN d + 1 ELSE 0) /\ t[j] = s[j]
      BY ONLY <1>5, <1>7, <2>2, Zenon
    <3> QED
      BY ONLY <3>1, <3>2, Zenon
  <2> QED
    BY Zenon, <2>1, <2>2
<1>8. Pieces(t, l, v, o, m, i, d + 1)
  BY ONLY <1>7, Zenon DEF Pieces
<1> QED
  BY Zenon, <1>5, <1>6, <1>8 DEF t

-----------------------------------------------------------------------------
(* Where the reader is. *)

LEMMA OnToken ==
  ASSUME BatchTypeOK, NEW i \in 1 .. Len(log) + 1, NEW d \in Nat, OnStream(i, d), stream # <<>>,
         NEW b, b = Encode(log[i], fetchVersion)
  PROVE  /\ i \in 1 .. Len(log) /\ Data = stream[1] /\ Next1 = Data[1].t /\ Base = 0
         /\ Piece(Data, b, d)
         /\ msgs = "v2" /\ Cut(Data) => offset < log[i].base
         /\ Next1 = "part" => Cut(Data)
         /\ Next1 # "part" => d + 1 \in 1 .. Len(b) /\ Data[1] = b[d + 1]
         /\ Next1 # "part" /\ Len(Data) = 1 => d + 1 = Len(b)
         /\ Next1 \notin {"none", "stub"}
         /\ Next1 = "msg" => IsMsgs(b, log[i])
         /\ Next1 = "wrap" => IsWrap(b, log[i]) /\ d = 0
         /\ Next1 = "head" => IsPlain(b, log[i]) /\ d = 0
         /\ Next1 = "packed" => IsPacked(b, log[i]) /\ d = 0
         /\ Next1 = "rec" => IsPlain(b, log[i]) /\ d # 0
<1>1. log \in Logs /\ fetchVersion \in {2, 5} /\ stream \in Seq(Seq(Tokens)) /\ Len(log) \in Nat
  BY Zenon, LogTypes DEF BatchTypeOK
<1>2. stack = <<>> /\ Pieces(stream, log, fetchVersion, offset, msgs, i, d)
  BY Zenon DEF OnStream
<1>4. Data = stream[1] /\ Base = 0
  BY <1>2, Zenon DEF Data, Base
<1>3. /\ i \in 1 .. Len(log) /\ Data \in Seq(Tokens) /\ Piece(Data, b, d)
      /\ msgs = "v2" /\ Cut(Data) => offset < log[i].base
  <2>1. i \in Nat \ {0}
    BY <1>1
  <2> QED
    BY Zenon, <1>1, <1>2, <1>4, <2>1, PiecesFirst
<1>5. b \in Seq(Tokens) /\ Len(b) \in Nat
  <2>1. b \in Seq(Tokens)
    BY <1>1, <1>3, Forms, Zenon
  <2> QED
    BY <2>1
<1>14. Typical(b, log[i], fetchVersion)
  BY <1>1, <1>3, Tells, Zenon
<1>6. \A j \in 1 .. Len(b) : b[j].t # "part"
  BY <1>14, Zenon DEF Typical
<1>7. /\ Len(Data) \in Nat \ {0}
      /\ Data[1].t = "part" => Cut(Data)
      /\ Data[1].t # "part" => d + 1 \in 1 .. Len(b) /\ Data[1] = b[d + 1]
      /\ Data[1].t # "part" /\ Len(Data) = 1 => d + 1 = Len(b)
  BY <1>3, <1>5, <1>6, PieceFirst, ZenonT(60)
<1>8. Next1 = Data[1].t /\ Data[1] \in Tokens
  <2>1. Data # <<>> /\ 1 \in 1 .. Len(Data)
    BY <1>3, <1>7, EmptySeq
  <2>2. Data[1] \in Tokens
    BY Zenon, <1>3, <2>1, ElementOfSeq
  <2> QED
    BY <1>4, <2>1, <2>2, Zenon DEF Next1
<1>9. Next1 \in Tags
  BY Zenon, <1>8 DEF Tokens
<1>10. Next1 # "none" /\ "part" # "msg" /\ "part" # "wrap" /\ "part" # "head" /\ "part" # "packed"
        /\ "part" # "rec" /\ "part" # "stub"
  BY Zenon, <1>9 DEF Tags
<1>11. ASSUME Next1 # "part"
       PROVE  /\ Next1 # "stub"
              /\ Next1 = "msg" => IsMsgs(b, log[i])
              /\ Next1 = "wrap" => IsWrap(b, log[i]) /\ d = 0
              /\ Next1 = "head" => IsPlain(b, log[i]) /\ d = 0
              /\ Next1 = "packed" => IsPacked(b, log[i]) /\ d = 0
              /\ Next1 = "rec" => IsPlain(b, log[i]) /\ d # 0
  <2> DEFINE j == d + 1
  <2>1. j \in 1 .. Len(b) /\ b[j].t = Next1
    BY <1>7, <1>8, <1>11, Zenon
  <2>2. j = 1 <=> d = 0
    OBVIOUS
  <2> HIDE DEF j
  <2> QED
    BY ONLY <1>14, <2>1, <2>2, Zenon DEF Typical
<1>12. Next1 \notin {"none", "stub"}
  BY ONLY <1>10, <1>11, Zenon
<1>13. /\ Next1 = "msg" => IsMsgs(b, log[i])
       /\ Next1 = "wrap" => IsWrap(b, log[i]) /\ d = 0
       /\ Next1 = "head" => IsPlain(b, log[i]) /\ d = 0
       /\ Next1 = "packed" => IsPacked(b, log[i]) /\ d = 0
       /\ Next1 = "rec" => IsPlain(b, log[i]) /\ d # 0
  BY ONLY <1>10, <1>11, Zenon
<1> QED
  BY ONLY <1>3, <1>4, <1>7, <1>8, <1>12, <1>13, Zenon

LEMMA ConsumeStream ==
  ASSUME BatchTypeOK, NEW i \in 1 .. Len(log) + 1, NEW d \in Nat, OnStream(i, d), stream # <<>>,
         Consume
  PROVE  /\ stack' = <<>> /\ stream' \in Seq(Seq(Tokens))
         /\ Len(Data) = 1 => Pieces(stream', log, fetchVersion, offset, msgs, i + 1, 0)
         /\ Len(Data) # 1 => /\ stream' # <<>>
                             /\ Pieces(stream', log, fetchVersion, offset, msgs, i, d + 1)
<1>1. log \in Logs /\ fetchVersion \in {2, 5} /\ stream \in Seq(Seq(Tokens)) /\ Len(log) \in Nat
  BY Zenon, LogTypes DEF BatchTypeOK
<1>2. stack = <<>> /\ Pieces(stream, log, fetchVersion, offset, msgs, i, d)
  BY Zenon DEF OnStream
<1>3. Data = stream[1]
  BY <1>2, Zenon DEF Data
<1>4. /\ stack' = <<>>
      /\ stream' = IF Len(Data) = 1 THEN Tail(stream) ELSE [stream EXCEPT ![1] = Tail(@)]
  BY <1>2, Zenon DEF Consume
<1>5. i \in Nat \ {0}
  BY <1>1
<1>6. CASE Len(Data) = 1
  <2>1. /\ Tail(stream) \in Seq(Seq(Tokens))
        /\ Pieces(Tail(stream), log, fetchVersion, offset, msgs, i + 1, 0)
    BY <1>1, <1>2, <1>5, PiecesTail, Zenon
  <2> QED
    BY ONLY <1>4, <1>6, <2>1, Zenon
<1>7. CASE Len(Data) # 1
  <2>1. stream' = Rest(stream) /\ Len(stream[1]) # 1
    BY ONLY <1>3, <1>4, <1>7, Zenon DEF Rest
  <2>2. /\ Rest(stream) \in Seq(Seq(Tokens)) /\ Rest(stream) # <<>>
        /\ Pieces(Rest(stream), log, fetchVersion, offset, msgs, i, d + 1)
    BY <1>1, <1>2, <1>5, <2>1, PiecesWithin, Zenon
  <2> QED
    BY ONLY <1>4, <1>7, <2>1, <2>2, Zenon
<1> QED
  BY ONLY <1>6, <1>7, Zenon

\* The batch after one that does not end before offset begins after it.
LEMMA NextBase ==
  ASSUME BatchTypeOK, NEW i \in 1 .. Len(log), offset <= log[i].last
  PROVE  i + 1 \in 1 .. Len(log) => offset < log[i + 1].base
<1>1. log \in Logs /\ offset \in Int
  BY Zenon DEF BatchTypeOK
<1>2. SUFFICES ASSUME i + 1 \in 1 .. Len(log) PROVE offset < log[i + 1].base
  BY Zenon
<1>3. i < i + 1
  OBVIOUS
<1>4. log[i].last < log[i + 1].base /\ log[i].last \in Int /\ log[i + 1].base \in Int
  BY <1>1, <1>2, <1>3, LogEntries, LogTypes, Zenon
<1> QED
  BY ONLY <1>1, <1>4, offset <= log[i].last

LEMMA MessageOnStream1 ==
  ASSUME BatchTypeOK, NEW i \in 1 .. Len(log) + 1, NEW d \in Nat, OnStream(i, d), stream # <<>>,
         ReadsMessage, msgs = "v1"
  PROVE  /\ i \in 1 .. Len(log) /\ d + 1 \in 1 .. Len(log[i].offsets)
         /\ Current = log[i].offsets[d + 1]
         /\ At(i, d + 1)' \/ (d + 1 = Len(log[i].offsets) /\ At(i + 1, 0)')
<1> DEFINE b == Encode(log[i], fetchVersion)
<1>1. /\ Next1 = "msg" /\ Consume
      /\ log' = log /\ fetchVersion' = fetchVersion /\ offset' = offset /\ msgs' = msgs
  BY Zenon DEF ReadsMessage
<1>2. "msg" # "part" /\ "v1" # "v2"
  BY Zenon
<1>3. /\ i \in 1 .. Len(log) /\ Base = 0
      /\ d + 1 \in 1 .. Len(b) /\ Data[1] = b[d + 1] /\ (Len(Data) = 1 => d + 1 = Len(b))
      /\ IsMsgs(b, log[i])
  BY <1>1, <1>2, OnToken, ZenonT(60)
<1> HIDE DEF b
<1>4. /\ d + 1 \in 1 .. Len(log[i].offsets) /\ Len(b) = Len(log[i].offsets)
      /\ Data[1].offset = log[i].offsets[d + 1]
  BY ONLY <1>3, Zenon DEF IsMsgs
<1>5. Current = log[i].offsets[d + 1]
  <2>1. log[i].offsets[d + 1] \in Int
    BY <1>3, <1>4, LogTypes, Zenon DEF BatchTypeOK
  <2>2. Current = Data[1].offset + Base
    BY Zenon DEF Current
  <2> QED
    BY ONLY <1>3, <1>4, <2>1, <2>2
<1>6. /\ stack' = <<>>
      /\ Len(Data) = 1 => Pieces(stream', log, fetchVersion, offset, msgs, i + 1, 0)
      /\ Len(Data) # 1 => /\ stream' # <<>>
                          /\ Pieces(stream', log, fetchVersion, offset, msgs, i, d + 1)
  BY <1>1, ConsumeStream, Zenon
<1>7. CASE Len(Data) = 1
  <2>1. OnStream(i + 1, 0)'
    <3>1. ~(0 > 0)
      OBVIOUS
    <3> QED
      BY ONLY <1>1, <1>2, <1>6, <1>7, <3>1, msgs = "v1", Zenon DEF OnStream
  <2>2. Messages1(0)' = 0 /\ 0 \in 0 .. 0 + 1
    BY DEF Messages1
  <2>3. At(i + 1, 0)'
    BY ONLY <2>1, <2>2, Zenon DEF At
  <2> QED
    BY ONLY <1>3, <1>4, <1>5, <1>7, <2>3, Zenon
<1>8. CASE Len(Data) # 1
  <2>1. OnStream(i, d + 1)'
    <3>1. IsMsgs(Encode(log[i], fetchVersion), log[i])
      BY Zenon, <1>3 DEF b
    <3> QED
      BY ONLY <1>1, <1>2, <1>6, <1>8, <3>1, msgs = "v1", Zenon DEF OnStream
  <2>2. Messages1(d + 1)' = d + 1 /\ d + 1 \in 0 .. (d + 1) + 1
    BY <1>1, <1>2 DEF Messages1
  <2>3. At(i, d + 1)'
    BY ONLY <2>1, <2>2, Zenon DEF At
  <2> QED
    BY ONLY <1>3, <1>4, <1>5, <2>3, Zenon
<1> QED
  BY ONLY Zenon, <1>7, <1>8

LEMMA MessageOnStream2 ==
  ASSUME BatchTypeOK, NEW i \in 1 .. Len(log) + 1, NEW d \in Nat, OnStream(i, d), stream # <<>>,
         i \in 1 .. Len(log) => offset <= log[i].last,
         ReadsMessage, msgs = "v2"
  PROVE  /\ i \in 1 .. Len(log) /\ d \in 1 .. Len(log[i].offsets)
         /\ Current = log[i].offsets[d]
         /\ At(i, d)' \/ (d = Len(log[i].offsets) /\ At(i + 1, 0)')
<1> DEFINE b == Encode(log[i], fetchVersion)
           n == Len(log[i].offsets)
<1>1. /\ Next1 = "rec" /\ Consume /\ messageCount' = messageCount - 1
      /\ log' = log /\ fetchVersion' = fetchVersion /\ offset' = offset /\ msgs' = msgs
      /\ firstOffset' = firstOffset
  <2>1. "v1" # "v2"
    BY Zenon
  <2> QED
    BY <2>1, Zenon DEF ReadsMessage
<1>2. "rec" # "part" /\ "v1" # "v2"
  BY Zenon
<1>3. /\ i \in 1 .. Len(log)
      /\ d + 1 \in 1 .. Len(b) /\ Data[1] = b[d + 1] /\ (Len(Data) = 1 => d + 1 = Len(b))
      /\ IsPlain(b, log[i]) /\ d # 0
  BY <1>1, <1>2, OnToken, ZenonT(60)
<1>4. /\ n \in Nat /\ log[i].base \in Int /\ \A j \in 1 .. n : log[i].offsets[j] \in Int
  BY <1>3, LogTypes, Zenon DEF BatchTypeOK
<1>5. d > 0
  BY <1>3
<1>6. messageCount = n - (d - 1) /\ firstOffset = log[i].base
  BY <1>5, Zenon DEF OnStream
<1> HIDE DEF b, n
<1>7. Len(b) = n + 1 /\ \A j \in 1 .. n : b[j + 1].offset = log[i].offsets[j] - log[i].base
  BY ONLY <1>3, Zenon DEF IsPlain, n
<1>8. d \in 1 .. n
  BY ONLY <1>3, <1>4, <1>7, d \in Nat
<1>9. Current = log[i].offsets[d]
  <2>1. Data[1].offset = log[i].offsets[d] - log[i].base
    BY ONLY <1>3, <1>7, <1>8, Zenon
  <2>2. Current = firstOffset + Data[1].offset
    BY <1>2, Zenon DEF Current
  <2>3. log[i].offsets[d] \in Int
    BY ONLY <1>4, <1>8, Zenon
  <2> QED
    BY ONLY <1>4, <1>6, <2>1, <2>2, <2>3
<1>10. /\ stack' = <<>>
       /\ Len(Data) = 1 => Pieces(stream', log, fetchVersion, offset, msgs, i + 1, 0)
       /\ Len(Data) # 1 => /\ stream' # <<>>
                           /\ Pieces(stream', log, fetchVersion, offset, msgs, i, d + 1)
  BY <1>1, ConsumeStream, Zenon
<1>11. CASE Len(Data) = 1
  <2>1. d = n /\ messageCount' = 0
    BY ONLY <1>1, <1>3, <1>4, <1>6, <1>7, <1>8, <1>11
  <2>2. i + 1 \in 1 .. Len(log) => offset < log[i + 1].base
    BY <1>3, NextBase, Zenon
  <2>3. OnStream(i + 1, 0)'
    <3>1. ~(0 > 0)
      OBVIOUS
    <3> QED
      BY ONLY <1>1, <1>2, <1>10, <1>11, <2>1, <2>2, <3>1, msgs = "v2", Zenon DEF OnStream
  <2>4. Messages1(0)' = 0 /\ 0 \in 0 .. 0 + 1
    BY DEF Messages1
  <2>5. At(i + 1, 0)'
    BY ONLY <2>3, <2>4, Zenon DEF At
  <2> QED
    BY ONLY <1>3, <1>8, <1>9, <2>1, <2>5, Zenon DEF n
<1>12. CASE Len(Data) # 1
  <2>1. d + 1 # 0 /\ messageCount' = n - ((d + 1) - 1)
    BY ONLY <1>1, <1>4, <1>6, <1>8
  <2>2. OnStream(i, d + 1)'
    <3>1. IsPlain(Encode(log[i], fetchVersion), log[i])
      BY Zenon, <1>3 DEF b
    <3> QED
      BY ONLY <1>1, <1>2, <1>6, <1>10, <1>12, <2>1, <3>1, msgs = "v2", Zenon DEF OnStream, n
  <2>3. Messages1(d + 1)' = d /\ d + 1 \in 0 .. d + 1
    BY <1>1, <1>5 DEF Messages1
  <2>4. At(i, d)'
    BY ONLY <2>2, <2>3, Zenon DEF At
  <2> QED
    BY ONLY <1>3, <1>8, <1>9, <2>4, Zenon DEF n
<1> QED
  BY ONLY Zenon, <1>11, <1>12

\* A reader of decompressed data.
LEMMA OnTop ==
  ASSUME BatchTypeOK, NEW i, NEW k \in Nat, OnStack(i, k)
  PROVE  /\ i \in 1 .. Len(log) /\ stack # <<>> /\ Data \in Seq(Tokens) /\ Len(Data) \in Nat
         /\ Data = stack[1].data /\ Base = stack[1].base /\ stack[1] \in Readers
         /\ Len(Data) = Len(log[i].offsets) - k
         /\ Data = <<>> <=> k = Len(log[i].offsets)
         /\ Next1 = "none" <=> Data = <<>>
         /\ Data # <<>> => Next1 = Data[1].t /\ 1 \in 1 .. Len(Data)
<1>1. Len(stack) = 1 /\ i \in 1 .. Len(log) /\ Len(stack[1].data) = Len(log[i].offsets) - k
  BY Zenon DEF OnStack
<1>2. stack \in Seq(Readers) /\ log \in Logs
  BY Zenon DEF BatchTypeOK
<1>3. stack # <<>> /\ stack[1] \in Readers
  <2>1. 1 \in 1 .. Len(stack) /\ Len(stack) # 0
    BY <1>1
  <2>2. stack[1] \in Readers
    BY <1>2, <2>1, ElementOfSeq, Zenon
  <2>3. Len(<<>>) = 0
    BY Zenon
  <2> QED
    BY ONLY <2>1, <2>2, <2>3, Zenon
<1>4. Data = stack[1].data /\ Base = stack[1].base
  BY <1>3, Zenon DEF Data, Base
<1>5. Data \in Seq(Tokens)
  BY Zenon, <1>3, <1>4 DEF Readers
<1>6. Len(Data) \in Nat /\ (Data = <<>> <=> Len(Data) = 0)
  BY <1>5, EmptySeq
<1>7. Len(log[i].offsets) \in Nat
  BY <1>1, <1>2, LogTypes, Zenon
<1>8. Len(Data) = Len(log[i].offsets) - k
  BY ONLY <1>1, <1>4, Zenon
<1>9. Data = <<>> <=> k = Len(log[i].offsets)
  BY ONLY <1>6, <1>7, <1>8, k \in Nat
<1>10. ASSUME Data # <<>> PROVE Next1 = Data[1].t /\ 1 \in 1 .. Len(Data) /\ Next1 # "none"
  <2>1. 1 \in 1 .. Len(Data)
    BY ONLY <1>6, <1>10
  <2>2. Data[1] \in Tokens
    BY Zenon, <1>5, <2>1, ElementOfSeq
  <2>3. Data[1].t # "none"
    BY Zenon, <2>2 DEF Tokens, Tags
  <2> QED
    BY <1>10, <2>1, <2>3, Zenon DEF Next1
<1>11. Data = <<>> => Next1 = "none"
  BY Zenon DEF Next1
<1> QED
  BY ONLY <1>1, <1>3, <1>4, <1>5, <1>6, <1>8, <1>9, <1>10, <1>11, Zenon

LEMMA MessageOnStack ==
  ASSUME BatchTypeOK, NEW i, NEW k \in Nat, OnStack(i, k), ReadsMessage
  PROVE  /\ i \in 1 .. Len(log) /\ k + 1 \in 1 .. Len(log[i].offsets)
         /\ Current = log[i].offsets[k + 1]
         /\ OnStack(i, k + 1)'
<1> DEFINE n == Len(log[i].offsets)
           base == IF msgs = "v1" THEN stack[1].base ELSE firstOffset
<1>1. /\ Next1 # "none" /\ Consume
      /\ msgs \in {"v1", "v2"} /\ (msgs = "v2" => messageCount' = messageCount - 1)
      /\ log' = log /\ fetchVersion' = fetchVersion /\ offset' = offset /\ msgs' = msgs
      /\ firstOffset' = firstOffset
  BY Zenon DEF ReadsMessage
<1>2. /\ i \in 1 .. Len(log) /\ stack # <<>> /\ Data \in Seq(Tokens) /\ Len(Data) \in Nat
      /\ Data = stack[1].data /\ Base = stack[1].base /\ stack[1] \in Readers
      /\ Len(Data) = n - k /\ 1 \in 1 .. Len(Data) /\ Data # <<>>
  BY <1>1, OnTop, Zenon
<1>3. log \in Logs /\ stack \in Seq(Readers) /\ messageCount \in Int /\ firstOffset \in Int
  BY Zenon DEF BatchTypeOK
<1>4. n \in Nat /\ \A j \in 1 .. n : log[i].offsets[j] \in Int
  BY <1>2, <1>3, LogTypes, Zenon
<1>5. /\ Len(stack) = 1
      /\ \A j \in 1 .. Len(Data) : Data[j].offset + base = log[i].offsets[k + j]
      /\ msgs = "v2" => messageCount = n - k
      /\ msgs = "v1" => \A j \in 1 .. Len(Data) : Data[j].t = "msg"
      /\ msgs = "v2" => \A j \in 1 .. Len(Data) : Data[j].t = "rec"
      /\ Pieces(stream, log, fetchVersion, offset, msgs, i + 1, 0)
  BY <1>2, Zenon DEF OnStack
<1> HIDE DEF n
<1>6. k + 1 \in 1 .. n
  BY ONLY <1>2, <1>4, k \in Nat
<1>7. base \in Int
  BY Zenon, <1>2, <1>3 DEF Readers
<1>8. Current = log[i].offsets[k + 1]
  <2>1. Data[1].offset + base = log[i].offsets[k + 1]
    BY ONLY <1>2, <1>5, Zenon
  <2>2. Data[1].offset \in Int
    <3>1. Data[1] \in Tokens
      BY Zenon, <1>2, ElementOfSeq
    <3> QED
      BY Zenon, <3>1 DEF Tokens
  <2>3. Current = IF msgs = "v1" THEN Data[1].offset + base ELSE base + Data[1].offset
    BY <1>2, Zenon DEF Current
  <2> HIDE DEF base
  <2> QED
    BY ONLY <1>7, <2>1, <2>2, <2>3
<1> DEFINE t == Tail(Data)
<1>9. stream' = stream /\ stack' = [stack EXCEPT ![1].data = Tail(@)]
  BY ONLY Zenon, <1>1, <1>2 DEF Consume
<1>10. Len(stack') = 1 /\ stack'[1].data = t /\ stack'[1].base = stack[1].base
  BY <1>2, <1>3, <1>5, <1>9 DEF Readers
<1>11. t \in Seq(Tokens) /\ Len(t) = Len(Data) - 1 /\ \A j \in 1 .. Len(t) : t[j] = Data[j + 1]
  BY Zenon, <1>2, HeadTailProperties
<1> HIDE DEF t
<1>12. Len(t) = n - (k + 1)
  BY ONLY <1>2, <1>4, <1>11, k \in Nat
<1>13. ASSUME NEW j \in 1 .. Len(t)
       PROVE  /\ t[j].offset + base = log[i].offsets[(k + 1) + j]
              /\ msgs = "v1" => t[j].t = "msg"
              /\ msgs = "v2" => t[j].t = "rec"
  <2>1. j + 1 \in 1 .. Len(Data) /\ k + (j + 1) = (k + 1) + j
    BY ONLY <1>2, <1>11, <1>13, k \in Nat
  <2>2. t[j] = Data[j + 1]
    BY ONLY <1>11, <1>13, Zenon
  <2> HIDE DEF base
  <2> QED
    BY ONLY <1>5, <2>1, <2>2, Zenon
<1>14. base' = base
  BY ONLY <1>1, <1>10, Zenon
<1>15. msgs = "v2" => messageCount' = n - (k + 1)
  BY ONLY <1>1, <1>3, <1>4, <1>5, k \in Nat
<1>16. OnStack(i, k + 1)'
  <2>1. \A j \in 1 .. Len(t) : /\ t[j].offset + base' = log[i].offsets[(k + 1) + j]
                               /\ msgs = "v1" => t[j].t = "msg"
                               /\ msgs = "v2" => t[j].t = "rec"
    BY ONLY <1>13, <1>14, Zenon
  <2> QED
    BY ONLY <1>1, <1>2, <1>5, <1>9, <1>10, <1>12, <1>15, <2>1, ZenonT(60) DEF OnStack, n
<1> QED
  BY ONLY <1>2, <1>6, <1>8, <1>16, Zenon DEF n

\* A message is read from the connection or from decompressed data.
LEMMA MessageRead ==
  ASSUME BatchTypeOK, NEW i \in 1 .. Len(log) + 1, NEW k \in Nat, At(i, k),
         i \in 1 .. Len(log) => offset <= log[i].last, ReadsMessage
  PROVE  /\ i \in 1 .. Len(log) /\ k + 1 \in 1 .. Len(log[i].offsets)
         /\ Current = log[i].offsets[k + 1]
         /\ At(i, k + 1)' \/ (k + 1 = Len(log[i].offsets) /\ At(i + 1, 0)')
<1>1. CASE OnStack(i, k)
  <2>1. /\ i \in 1 .. Len(log) /\ k + 1 \in 1 .. Len(log[i].offsets)
        /\ Current = log[i].offsets[k + 1] /\ OnStack(i, k + 1)'
    BY <1>1, MessageOnStack, Zenon
  <2>2. At(i, k + 1)'
    BY ONLY <2>1, Zenon DEF At
  <2> QED
    BY ONLY <2>1, <2>2, Zenon
<1>2. CASE \E d \in 0 .. k + 1 : OnStream(i, d) /\ k = Messages1(d)
  <2>1. PICK d \in 0 .. k + 1 : OnStream(i, d) /\ k = Messages1(d)
    BY Zenon, <1>2
  <2>2. d \in Nat
    OBVIOUS
  <2>3. stream # <<>>
    <3>1. stack = <<>>
      BY <2>1, Zenon DEF OnStream
    <3>2. Next1 # "none"
      BY Zenon DEF ReadsMessage
    <3> QED
      BY ONLY <3>1, <3>2, Zenon DEF Next1, Data
  <2>4. CASE msgs = "v1"
    <3>1. k = d
      BY Zenon, <2>1, <2>4 DEF Messages1
    <3>2. /\ i \in 1 .. Len(log) /\ d + 1 \in 1 .. Len(log[i].offsets)
          /\ Current = log[i].offsets[d + 1]
          /\ At(i, d + 1)' \/ (d + 1 = Len(log[i].offsets) /\ At(i + 1, 0)')
      BY <2>1, <2>2, <2>3, <2>4, MessageOnStream1, Zenon
    <3> QED
      BY ONLY <3>1, <3>2, Zenon
  <2>5. CASE msgs = "v2"
    <3>1. /\ i \in 1 .. Len(log) /\ d \in 1 .. Len(log[i].offsets)
          /\ Current = log[i].offsets[d]
          /\ At(i, d)' \/ (d = Len(log[i].offsets) /\ At(i + 1, 0)')
      BY <2>1, <2>2, <2>3, <2>5, MessageOnStream2, Zenon
    <3>2. Len(log[i].offsets) \in Nat
      BY <3>1, LogTypes, Zenon DEF BatchTypeOK
    <3>3. d > 0
      BY ONLY <3>1, <3>2
    <3>4. k = d - 1
      BY <2>1, <2>5, <3>3, Zenon DEF Messages1
    <3>5. k + 1 = d
      BY ONLY <2>2, <3>4
    <3> QED
      BY ONLY <3>1, <3>5, Zenon
  <2>6. msgs = "v1" \/ msgs = "v2"
    BY Zenon DEF ReadsMessage
  <2> QED
    BY ONLY <2>4, <2>5, <2>6, Zenon
<1> QED
  BY <1>1, <1>2, Zenon DEF At

-----------------------------------------------------------------------------
(* Where the program is. *)

\* At the end of a batch is at the start of the next.
LEMMA TracksNext ==
  ASSUME BatchTypeOK', NEW i \in 1 .. Len(log'), Tracks(i, Len(log[i].offsets))'
  PROVE  Tracks(i + 1, 0)'
<1> DEFINE l == log'
           n == Len(l[i].offsets)
<1>1. l \in Logs /\ position' \in Int /\ want' \in Int /\ offset' \in Int
  BY Zenon DEF BatchTypeOK
<1>2. /\ Behind(l, position', i, n) /\ Behind(l, want', i, n) /\ offset' <= l[i].last
      /\ msgs' = "v2" /\ api' = "ReadMessage" =>
           /\ Ahead(l, offset', want', i, n) /\ Ahead(l, want', offset', i, n)
           /\ Ahead(l, offset', position', i, n)
  BY Zenon DEF Tracks
<1>3. i + 1 \in 1 .. Len(l) => offset' <= l[i + 1].last
  <2>1. SUFFICES ASSUME i + 1 \in 1 .. Len(l) PROVE offset' <= l[i + 1].last
    BY Zenon
  <2>2. i < i + 1
    OBVIOUS
  <2>3. /\ l[i].last < l[i + 1].base /\ l[i + 1].base <= l[i + 1].last
        /\ l[i].last \in Int /\ l[i + 1].base \in Int /\ l[i + 1].last \in Int
    <3>1. 1 \in 1 .. Len(l[i + 1].offsets)
      BY SMTT(40), <1>1, <2>1, LogEntries
    <3>2. /\ l[i].last < l[i + 1].base
          /\ l[i + 1].base <= l[i + 1].offsets[1] /\ l[i + 1].offsets[1] <= l[i + 1].last
      BY <1>1, <2>1, <2>2, <3>1, LogEntries, Zenon
    <3>3. /\ l[i].last \in Int /\ l[i + 1].base \in Int /\ l[i + 1].last \in Int
          /\ l[i + 1].offsets[1] \in Int
      BY <1>1, <2>1, <3>1, LogTypes, Zenon
    <3> QED
      BY ONLY <3>2, <3>3
  <2> QED
    BY ONLY SMTT(40), <1>1, <1>2, <2>3
<1> HIDE DEF l, n
<1>4. \A p, q \in Int : /\ Behind(l, p, i, n) => Behind(l, p, i + 1, 0)
                        /\ Ahead(l, p, q, i, n) => Ahead(l, p, q, i + 1, 0)
  BY <1>1, NextBatch, Zenon DEF l, n
<1>5. /\ Behind(l, position', i + 1, 0) /\ Behind(l, want', i + 1, 0)
      /\ msgs' = "v2" /\ api' = "ReadMessage" =>
           /\ Ahead(l, offset', want', i + 1, 0) /\ Ahead(l, want', offset', i + 1, 0)
           /\ Ahead(l, offset', position', i + 1, 0)
  BY ONLY <1>1, <1>2, <1>4, Zenon
<1> QED
  BY ONLY <1>3, <1>5, Zenon DEF Tracks, l

\* The reader has come past a message.
LEMMA TrackedPast ==
  ASSUME BatchTypeOK', NEW i \in 1 .. Len(log'), NEW k \in Nat,
         k + 1 \in 1 .. Len(log'[i].offsets), Tracks(i, k + 1)',
         At(i, k + 1)' \/ (k + 1 = Len(log'[i].offsets) /\ At(i + 1, 0)')
  PROVE  Tracked'
<1>1. Len(log') \in Nat
  BY LogTypes, Zenon DEF BatchTypeOK
<1>2. CASE At(i, k + 1)'
  <2>1. i \in 1 .. Len(log') + 1
    BY ONLY <1>1, i \in 1 .. Len(log')
  <2>2. k + 1 \in 0 .. Count(i)'
    BY DEF Count
  <2> QED
    BY <1>2, <2>1, <2>2, Zenon DEF Tracked
<1>3. CASE k + 1 = Len(log'[i].offsets) /\ At(i + 1, 0)'
  <2>1. i + 1 \in 1 .. Len(log') + 1
    BY ONLY <1>1, i \in 1 .. Len(log')
  <2>2. 0 \in 0 .. Count(i + 1)'
    <3>1. \A j \in 1 .. Len(log') : Len(log'[j].offsets) \in Nat
      BY LogTypes, Zenon DEF BatchTypeOK
    <3> QED
      BY <3>1 DEF Count
  <2>3. Tracks(i + 1, 0)'
    BY <1>3, TracksNext, Zenon
  <2> QED
    BY <1>3, <2>1, <2>2, <2>3, Zenon DEF Tracked
<1> QED
  BY Zenon, <1>2, <1>3

\* From p and from q on, the messages are the same.
LEMMA SameMessages ==
  ASSUME NEW l \in Logs, NEW p \in Int, NEW q \in Int, Same(l, p, q), NEW i, NEW k
  PROVE  /\ Ahead(l, p, q, i, k) /\ Ahead(l, q, p, i, k)
         /\ Behind(l, p, i, k) => Behind(l, q, i, k)
<1>1. \A a \in 1 .. Len(l) : \A b \in 1 .. Len(l[a].offsets) :
        (l[a].offsets[b] < p <=> ~(p <= l[a].offsets[b])) /\ (l[a].offsets[b] < q <=> ~(q <= l[a].offsets[b]))
  <2>1. \A m \in Int : (m < p <=> ~(p <= m)) /\ (m < q <=> ~(q <= m))
    OBVIOUS
  <2> QED
    BY <2>1, LogTypes, Zenon
<1>2. Ahead(l, p, q, i, k) /\ Ahead(l, q, p, i, k)
  BY Zenon DEF Same, Ahead
<1>3. Behind(l, p, i, k) => Behind(l, q, i, k)
  BY ONLY <1>1, Same(l, p, q), Zenon DEF Same, Behind
<1> QED
  BY Zenon, <1>2, <1>3

\* The message at i, k + 1 is the first from w on.
LEMMA FirstFrom ==
  ASSUME BatchTypeOK, NEW i \in 1 .. Len(log), NEW k \in Nat, k + 1 \in 1 .. Len(log[i].offsets),
         NEW w \in Int, Behind(log, w, i, k), w <= log[i].offsets[k + 1]
  PROVE  IsNext(log[i].offsets[k + 1], w)
<1> DEFINE o == log[i].offsets[k + 1]
<1>1. log \in Logs
  BY Zenon DEF BatchTypeOK
<1>2. /\ DOMAIN log = 1 .. Len(log)
      /\ \A a \in 1 .. Len(log) : DOMAIN log[a].offsets = 1 .. Len(log[a].offsets)
  <2>1. log \in Seq(Entry) /\ \A a \in 1 .. Len(log) : log[a].offsets \in Seq(Nat)
    BY <1>1, LogEntries, Zenon
  <2> QED
    BY <2>1, LenProperties, Zenon
<1>3. o \in Messages
  <2> DEFINE M(a) == {log[a].offsets[j] : j \in DOMAIN log[a].offsets}
  <2>1. o \in M(i) /\ i \in DOMAIN log
    BY <1>2, Zenon
  <2>2. M(i) \in {M(a) : a \in DOMAIN log}
    BY <2>1, Zenon
  <2>3. Messages = UNION {M(a) : a \in DOMAIN log}
    BY Zenon DEF Messages
  <2> HIDE DEF M
  <2> QED
    BY ONLY <2>1, <2>2, <2>3, Zenon
<1>4. ASSUME NEW m \in Messages PROVE ~(w <= m /\ m < o)
  <2>7. PICK a \in 1 .. Len(log) : \E b \in 1 .. Len(log[a].offsets) : m = log[a].offsets[b]
    BY <1>2, Zenon DEF Messages
  <2>1. PICK b \in 1 .. Len(log[a].offsets) : m = log[a].offsets[b]
    BY Zenon, <2>7
  <2>2. /\ \A c \in 1 .. Len(log) : Len(log[c].offsets) \in Nat
        /\ m \in Int /\ o \in Int
    BY <1>1, <2>1, LogTypes, Zenon
  <2>3. (i < a \/ (i = a /\ k + 1 < b)) => o < m
    BY <1>1, <2>1, Ordered, Zenon
  <2>4. a < i \/ (a = i /\ b <= k) => m < w
    BY <2>1, Zenon DEF Behind
  <2>5. a = i /\ b = k + 1 => m = o
    BY Zenon, <2>1
  <2>6. a \in Int /\ b \in Int /\ i \in Int
    BY <2>2
  <2> HIDE DEF o
  <2> QED
    BY ONLY <2>2, <2>3, <2>4, <2>5, <2>6, k \in Nat, w \in Int
<1> QED
  BY <1>3, <1>4, Zenon DEF IsNext

\* A message has been read.
LEMMA DeliverStep ==
  ASSUME BatchTypeOK, BatchTypeOK', Aligned, pc = "read",
         NEW i \in 1 .. Len(log) + 1, NEW k \in Nat, At(i, k), Tracks(i, k),
         ReadsMessage, Deliver(Current), msgs = "v1" => Current >= position,
         UNCHANGED <<api, saved>>
  PROVE  /\ Aligned' /\ Tracking'
         /\ got' # got /\ (api = "ReadMessage" \/ msgs = "v1") => IsNext(got', want)
<1> DEFINE o == log[i].offsets[k + 1]
<1>1. /\ log' = log /\ fetchVersion' = fetchVersion /\ offset' = offset /\ msgs' = msgs
      /\ api' = api /\ saved' = saved /\ msgs \in {"v1", "v2"}
  BY Zenon DEF ReadsMessage
<1>2. /\ log \in Logs /\ position \in Int /\ want \in Int /\ offset \in Int /\ saved \in Int
  BY Zenon DEF BatchTypeOK
<1>3. /\ Behind(log, position, i, k) /\ Behind(log, want, i, k)
      /\ i \in 1 .. Len(log) => offset <= log[i].last
      /\ msgs = "v2" /\ api = "ReadMessage" =>
           /\ Ahead(log, offset, want, i, k) /\ Ahead(log, want, offset, i, k)
           /\ Ahead(log, offset, position, i, k)
  BY Zenon DEF Tracks
<1>4. /\ i \in 1 .. Len(log) /\ k + 1 \in 1 .. Len(log[i].offsets) /\ Current = o
      /\ At(i, k + 1)' \/ (k + 1 = Len(log[i].offsets) /\ At(i + 1, 0)')
  BY <1>3, MessageRead, Zenon
<1>5. o \in Int
  BY <1>2, <1>4, LogTypes, Zenon
<1>6. ASSUME NEW p \in Int, NEW q \in Int
      PROVE  /\ Behind(log, p, i, k) /\ o < p => Behind(log, p, i, k + 1)
             /\ Ahead(log, p, q, i, k) => Ahead(log, p, q, i, k + 1)
             /\ Behind(log, o + 1, i, k + 1)
             /\ Ahead(log, p, o + 1, i, k + 1)
             /\ p <= o + 1 => Ahead(log, o + 1, p, i, k + 1)
  BY <1>2, <1>4, NextMessage, Zenon
<1>7. msgs = "v2" /\ api = "ReadMessage" =>
        /\ offset <= o => want <= o
        /\ want <= o => offset <= o
  <2>1. i < i \/ (i = i /\ k < k + 1)
    OBVIOUS
  <2> QED
    BY <1>3, <1>4, <2>1, Zenon DEF Ahead
<1>8. /\ Same(log, saved, want)
      /\ msgs # "v2" \/ api = "Read" => position = saved
      /\ msgs = "v1" => offset <= position
  BY Zenon DEF Aligned
<1>9. msgs = "v1" => offset <= o /\ want <= o
  <2>1. saved <= o <=> want <= o
    BY <1>4, <1>8, Zenon DEF Same
  <2>2. msgs = "v1" => offset <= o /\ position = saved /\ position <= o
    <3>1. msgs = "v1" => position <= o /\ position = saved /\ offset <= position
      BY Zenon, <1>4, <1>8
    <3> HIDE DEF o
    <3> QED
      BY ONLY <1>2, <1>5, <3>1
  <2> QED
    BY ONLY Zenon, <2>1, <2>2
<1>10. ASSUME Tracks(i, k + 1)' PROVE Tracked'
  <2>1. /\ i \in 1 .. Len(log') /\ k + 1 \in 1 .. Len(log'[i].offsets)
        /\ At(i, k + 1)' \/ (k + 1 = Len(log'[i].offsets) /\ At(i + 1, 0)')
    BY ONLY <1>1, <1>4, Zenon
  <2> QED
    BY <1>10, <2>1, TrackedPast, Zenon
<1> HIDE DEF o
<1>11. CASE api = "ReadMessage" /\ Current < offset
  <2>1. position' = o + 1 /\ pc' = pc /\ err' = err /\ got' = got /\ want' = want
    BY <1>4, <1>11, Zenon DEF Deliver
  <2>2. msgs = "v2" /\ o < offset
    BY <1>1, <1>2, <1>4, <1>5, <1>9, <1>11
  <2>3. o < want
    BY ONLY <1>2, <1>5, <1>7, <1>11, <2>2
  <2>4. Tracks(i, k + 1)'
    <3>1. /\ Behind(log, o + 1, i, k + 1) /\ Behind(log, want, i, k + 1)
          /\ Ahead(log, offset, want, i, k + 1) /\ Ahead(log, want, offset, i, k + 1)
          /\ Ahead(log, offset, o + 1, i, k + 1)
      BY ONLY <1>2, <1>3, <1>6, <1>11, <2>2, <2>3, Zenon
    <3> QED
      BY ONLY <1>1, <1>3, <2>1, <3>1, Zenon DEF Tracks
  <2>5. Tracking'
    BY ONLY <1>10, <2>4, Zenon DEF Tracking
  <2>6. Aligned'
    <3>1. /\ "read" \notin {"idle", "first", "last", "fetch"} /\ "read" # "fetch" /\ "read" # "batch"
          /\ "v2" # "v1" /\ "ReadMessage" # "Read"
      BY Zenon
    <3> QED
      BY ONLY <1>1, <1>8, <1>11, <2>1, <2>2, <3>1, pc = "read", Zenon DEF Aligned
  <2> QED
    BY ONLY <2>1, <2>5, <2>6, Zenon
<1>12. CASE ~(api = "ReadMessage" /\ Current < offset) /\ fits
  <2>1. pc' = "batch" /\ position' = o + 1 /\ got' = o /\ want' = o + 1
    BY <1>4, <1>12, Zenon DEF Deliver
  <2>2. api = "ReadMessage" => offset <= o
    BY ONLY <1>2, <1>4, <1>5, <1>12
  <2>3. api = "ReadMessage" \/ msgs = "v1" => offset <= o + 1 /\ want <= o
    BY ONLY <1>1, <1>2, <1>5, <1>7, <1>9, <2>2
  <2>4. Tracks(i, k + 1)'
    <3>1. /\ Behind(log, o + 1, i, k + 1)
          /\ Ahead(log, offset, o + 1, i, k + 1)
          /\ api = "ReadMessage" => Ahead(log, o + 1, offset, i, k + 1)
      BY ONLY <1>2, <1>6, <2>3, Zenon
    <3> QED
      BY ONLY <1>1, <1>3, <2>1, <3>1, Zenon DEF Tracks
  <2>5. Tracking'
    BY ONLY <1>10, <2>4, Zenon DEF Tracking
  <2>6. Aligned'
    <3>1. "batch" \notin {"idle", "first", "last", "fetch"} /\ "batch" # "fetch" /\ "batch" # "read"
      BY Zenon
    <3>2. Same(log', o + 1, o + 1)
      BY ONLY Zenon DEF Same
    <3> QED
      BY ONLY <1>1, <2>1, <2>3, <3>1, <3>2, Zenon DEF Aligned
  <2>7. api = "ReadMessage" \/ msgs = "v1" => IsNext(o, want)
    BY <1>2, <1>3, <1>4, <2>3, FirstFrom, Zenon DEF o
  <2> QED
    BY ONLY <2>1, <2>5, <2>6, <2>7, Zenon
<1>13. CASE ~(api = "ReadMessage" /\ Current < offset) /\ ~fits
  <2>1. pc' = "batch" /\ position' = saved /\ err' = "ShortBuffer" /\ got' = got /\ want' = want
    BY <1>13, Zenon DEF Deliver
  <2>2. "ShortBuffer" # "nil"
    BY Zenon
  <2>3. Tracking'
    BY ONLY <2>1, <2>2, Zenon DEF Tracking
  <2>4. Aligned'
    <3>1. "batch" \notin {"idle", "first", "last", "fetch"} /\ "batch" # "fetch" /\ "batch" # "read"
          /\ "v1" # "v2"
      BY Zenon
    <3> QED
      BY ONLY <1>1, <1>8, <2>1, <3>1, Zenon DEF Aligned
  <2> QED
    BY ONLY <2>1, <2>3, <2>4, Zenon
<1> QED
  BY ONLY <1>11, <1>12, <1>13, Zenon

-----------------------------------------------------------------------------
(* The steps of a read. *)

LEMMA ReadingFrame ==
  ASSUME Reading
  PROVE  /\ pc = "read" /\ log' = log /\ head' = head /\ end' = end
         /\ fetchVersion' = fetchVersion /\ room' = room /\ timed' = timed /\ api' = api
         /\ offset' = offset /\ netOpen' = netOpen /\ seek' = seek /\ msgs' = msgs /\ saved' = saved
BY Zenon DEF Reading, partition, config

LEMMA ReadingType ==
  ASSUME BatchTypeOK, Reading, stream' \in Seq(Seq(Tokens)), stack' \in Seq(Readers),
         position' \in Int, want' \in Int, messageCount' \in Int, firstOffset' \in Int
  PROVE  BatchTypeOK'
BY ReadingFrame, Zenon DEF BatchTypeOK

\* What a read relies on.
LEMMA ReadingNow ==
  ASSUME BatchInv, Reading, msgs \in {"v1", "v2"}
  PROVE  /\ Aligned /\ Opening /\ err = "nil" /\ Tracked
         /\ Same(log, saved, want)
         /\ msgs # "v2" \/ api = "Read" => position = saved
         /\ msgs = "v1" => offset <= position
<1>1. pc = "read" /\ "read" \in {"batch", "read"}
  BY Zenon, ReadingFrame
<1> QED
  BY <1>1, Zenon DEF BatchInv, Opening, Aligned, Tracking

\* A step that goes on reading, or fails.
LEMMA ReadingOn ==
  ASSUME BatchInv, Reading, msgs \in {"v1", "v2"}, Tracked',
         UNCHANGED <<pc, position, err, want>>
  PROVE  BatchInv'
<1>1. /\ pc = "read" /\ log' = log /\ api' = api /\ offset' = offset
      /\ netOpen' = netOpen /\ seek' = seek /\ msgs' = msgs /\ saved' = saved
      /\ pc' = pc /\ position' = position /\ err' = err /\ want' = want
  BY Zenon, ReadingFrame
<1>2. Tracking'
  BY Zenon DEF Tracking
<1>3. Aligned'
  BY <1>1, Zenon DEF BatchInv, Aligned
<1>4. Opening'
  <2>1. /\ "read" \notin {"first", "last", "fetch"} /\ "read" \notin {"first", "last"}
        /\ msgs # "none" /\ msgs # "empty"
    BY Zenon
  <2>2. err = "nil"
    BY ReadingNow, Zenon
  <2> QED
    BY ONLY <1>1, <2>1, <2>2, Zenon DEF Opening
<1> QED
  BY Zenon, <1>2, <1>3, <1>4 DEF BatchInv

LEMMA FailStep ==
  ASSUME BatchTypeOK, BatchInv, pc = "read", pc' = "batch", err' = "failed", msgs # "empty",
         UNCHANGED <<log, api, offset, msgs, position, saved, want>>
  PROVE  BatchInv'
<1>1. /\ log' = log /\ api' = api /\ offset' = offset
      /\ msgs' = msgs /\ saved' = saved /\ position' = position /\ want' = want
  BY Zenon
<1>2. /\ "batch" \notin {"idle", "first", "last", "fetch"} /\ "batch" # "fetch" /\ "batch" # "read"
      /\ "batch" \notin {"first", "last", "fetch"} /\ "batch" \notin {"first", "last"}
      /\ "failed" # "nil" /\ "failed" \in {"Kafka", "failed"} /\ "read" \in {"batch", "read"}
  BY Zenon
<1>3. Tracking'
  BY <1>2, Zenon DEF Tracking
<1>4. Aligned'
  BY <1>1, <1>2, Zenon DEF BatchInv, Aligned
<1>5. Opening'
  BY <1>1, <1>2, Zenon DEF Opening
<1> QED
  BY Zenon, <1>3, <1>4, <1>5 DEF BatchInv

LEMMA ConsumeType ==
  ASSUME BatchTypeOK, Data # <<>>, Consume
  PROVE  stream' \in Seq(Seq(Tokens)) /\ stack' \in Seq(Readers)
<1>1. stream \in Seq(Seq(Tokens)) /\ stack \in Seq(Readers)
  BY Zenon DEF BatchTypeOK
<1>2. CASE stack = <<>>
  <2>1. /\ stack' = stack /\ stream # <<>> /\ Data = stream[1]
        /\ stream' = IF Len(Data) = 1 THEN Tail(stream) ELSE [stream EXCEPT ![1] = Tail(@)]
    BY <1>2, Zenon DEF Consume, Data
  <2>2. Tail(stream) \in Seq(Seq(Tokens)) /\ 1 \in 1 .. Len(stream)
    BY <1>1, <2>1, HeadTailProperties, EmptySeq
  <2>3. Data \in Seq(Tokens)
    BY Zenon, <1>1, <2>1, <2>2, ElementOfSeq
  <2>4. Tail(Data) \in Seq(Tokens)
    BY Zenon, <2>3, HeadTailProperties
  <2>5. [stream EXCEPT ![1] = Tail(@)] \in Seq(Seq(Tokens))
    BY ONLY <1>1, <2>1, <2>2, <2>4
  <2> QED
    BY ONLY <1>1, <2>1, <2>2, <2>5, Zenon
<1>3. CASE stack # <<>>
  <2>1. stream' = stream /\ stack' = [stack EXCEPT ![1].data = Tail(@)] /\ Data = stack[1].data
    BY Zenon, <1>3 DEF Consume, Data
  <2>2. 1 \in 1 .. Len(stack)
    BY <1>1, <1>3, EmptySeq
  <2>3. stack[1] \in Readers
    BY Zenon, <1>1, <2>2, ElementOfSeq
  <2>4. Tail(Data) \in Seq(Tokens)
    <3>1. Data \in Seq(Tokens)
      BY Zenon, <2>1, <2>3 DEF Readers
    <3> QED
      BY Zenon, <3>1, HeadTailProperties
  <2>5. [stack[1] EXCEPT !.data = Tail(Data)] \in Readers
    BY ONLY Zenon, <2>3, <2>4 DEF Readers
  <2>6. stack' = [stack EXCEPT ![1] = [stack[1] EXCEPT !.data = Tail(Data)]]
    BY ONLY Zenon, <2>1
  <2> QED
    BY ONLY <1>1, <2>1, <2>2, <2>5, <2>6
<1> QED
  BY Zenon, <1>2, <1>3

\* What a reader of decompressed data is when the one below is the connection.
LEMMA OnlyOnStack ==
  ASSUME NEW i, NEW k, At(i, k), stack # <<>>
  PROVE  OnStack(i, k)
BY Zenon DEF At, OnStream

LEMMA OnlyOnStream ==
  ASSUME NEW i, NEW k \in Nat, At(i, k), stack = <<>>
  PROVE  \E d \in 0 .. k + 1 : OnStream(i, d) /\ k = Messages1(d)
<1>1. ~OnStack(i, k)
  <2>1. Len(<<>>) # 1
    OBVIOUS
  <2> QED
    BY <2>1, Zenon DEF OnStack
<1> QED
  BY <1>1, Zenon DEF At

LEMMA TrackedAt ==
  ASSUME BatchTypeOK, Tracked
  PROVE  \E i \in 1 .. Len(log) + 1 : \E k \in Nat : At(i, k) /\ Tracks(i, k)
<1>1. PICK i \in 1 .. Len(log) + 1 : \E k \in 0 .. Count(i) : At(i, k) /\ Tracks(i, k)
  BY Zenon DEF Tracked
<1>2. PICK k \in 0 .. Count(i) : At(i, k) /\ Tracks(i, k)
  BY <1>1, Zenon
<1>3. k \in Nat
  <2>1. \A j \in 1 .. Len(log) : Len(log[j].offsets) \in Nat
    BY LogTypes, Zenon DEF BatchTypeOK
  <2>2. Count(i) \in Nat
    BY <2>1, Zenon DEF Count
  <2> QED
    BY <2>2
<1> QED
  BY <1>2, <1>3, Zenon

LEMMA PopStep ==
  ASSUME BatchTypeOK, BatchInv, PopV1 \/ PopV2
  PROVE  BatchTypeOK' /\ BatchInv'
<1>1. /\ Reading /\ msgs \in {"v1", "v2"} /\ (msgs = "v2" => messageCount = 0)
      /\ stack # <<>> /\ Data = <<>> /\ stack' = Tail(stack) /\ stream' = stream
      /\ messageCount' = messageCount /\ firstOffset' = firstOffset
      /\ pc' = pc /\ position' = position /\ err' = err /\ got' = got /\ want' = want
  BY Zenon DEF PopV1, PopV2
<1>2. PICK i \in 1 .. Len(log) + 1 : \E k \in Nat : At(i, k) /\ Tracks(i, k)
  BY <1>1, ReadingNow, TrackedAt, Zenon
<1>3. PICK k \in Nat : At(i, k) /\ Tracks(i, k)
  BY Zenon, <1>2
<1>4. OnStack(i, k)
  BY <1>1, <1>3, OnlyOnStack, Zenon
<1>5. i \in 1 .. Len(log) /\ k = Len(log[i].offsets)
  BY <1>1, <1>4, OnTop, Zenon
<1>6. Len(stack) = 1 /\ Pieces(stream, log, fetchVersion, offset, msgs, i + 1, 0)
  BY <1>4, Zenon DEF OnStack
<1>7. stack \in Seq(Readers)
  BY Zenon DEF BatchTypeOK
<1>8. stack' = <<>> /\ stack' \in Seq(Readers)
  BY <1>1, <1>6, <1>7, HeadTailProperties, EmptySeq
<1>9. BatchTypeOK'
  <2>1. /\ stream \in Seq(Seq(Tokens)) /\ position \in Int /\ want \in Int
        /\ messageCount \in Int /\ firstOffset \in Int
    BY Zenon DEF BatchTypeOK
  <2> QED
    BY <1>1, <1>8, <2>1, ReadingType, Zenon
<1>10. /\ log' = log /\ fetchVersion' = fetchVersion /\ offset' = offset /\ msgs' = msgs /\ api' = api
  BY <1>1, ReadingFrame, Zenon
<1>11. OnStream(i + 1, 0)'
  <2>1. ~(0 > 0)
    OBVIOUS
  <2>2. i + 1 \in 1 .. Len(log) => offset < log[i + 1].base
    BY <1>3, <1>5, NextBase, Zenon DEF Tracks
  <2> QED
    BY ONLY <1>1, <1>6, <1>8, <1>10, <2>1, <2>2, Zenon DEF OnStream
<1>12. At(i + 1, 0)'
  <2>1. Messages1(0)' = 0 /\ 0 \in 0 .. 0 + 1
    BY DEF Messages1
  <2> QED
    BY <1>11, <2>1, Zenon DEF At
<1>13. Tracks(i + 1, 0)'
  <2>1. Tracks(i, Len(log[i].offsets))'
    BY ONLY <1>1, <1>3, <1>5, <1>10, Zenon DEF Tracks
  <2> QED
    BY <1>5, <1>9, <1>10, <2>1, TracksNext, Zenon
<1>14. Tracked'
  <2>1. Len(log) \in Nat /\ \A j \in 1 .. Len(log) : Len(log[j].offsets) \in Nat
    BY LogTypes, Zenon DEF BatchTypeOK
  <2>2. i + 1 \in 1 .. Len(log) + 1
    BY ONLY <1>5, <2>1
  <2>3. 0 \in 0 .. Count(i + 1)
    BY <2>1 DEF Count
  <2>4. i + 1 \in 1 .. Len(log') + 1 /\ 0 \in 0 .. Count(i + 1)'
    BY ONLY <1>10, <2>2, <2>3, Zenon DEF Count
  <2> QED
    BY ONLY <1>12, <1>13, <2>4, Zenon DEF Tracked
<1>15. BatchInv'
  BY <1>1, <1>14, ReadingOn, Zenon
<1> QED
  BY Zenon, <1>9, <1>15

\* A message is skipped.
LEMMA SkipStep ==
  ASSUME BatchTypeOK, BatchInv, SkipV1
  PROVE  BatchTypeOK' /\ BatchInv'
<1>1. /\ Reading /\ msgs = "v1" /\ Next1 = "msg" /\ Data[1].offset + Base < position /\ Consume
      /\ messageCount' = messageCount /\ firstOffset' = firstOffset
      /\ pc' = pc /\ position' = position /\ err' = err /\ got' = got /\ want' = want
  BY Zenon DEF SkipV1
<1>2. msgs \in {"v1", "v2"} /\ msgs # "v2"
  BY Zenon, <1>1
<1>3. PICK i \in 1 .. Len(log) + 1 : \E k \in Nat : At(i, k) /\ Tracks(i, k)
  BY <1>1, <1>2, ReadingNow, TrackedAt, Zenon
<1>4. PICK k \in Nat : At(i, k) /\ Tracks(i, k)
  BY Zenon, <1>3
<1>5. log' = log /\ fetchVersion' = fetchVersion /\ offset' = offset /\ msgs' = msgs /\ api' = api
  BY <1>1, ReadingFrame, Zenon
<1>6. ReadsMessage
  <2>1. UNCHANGED <<log, fetchVersion, offset, msgs, firstOffset>>
    BY Zenon, <1>1, <1>5
  <2>2. messageCount' = IF msgs = "v2" THEN messageCount - 1 ELSE messageCount
    BY Zenon, <1>1
  <2>3. \/ msgs = "v1" /\ Next1 = "msg"
        \/ msgs = "v2" /\ messageCount > 0 /\ Next1 = "rec"
    BY <1>1, Zenon
  <2>4. Consume
    BY <1>1, Zenon
  <2> QED
    BY ONLY <2>1, <2>2, <2>3, <2>4, Zenon DEF ReadsMessage
<1>7. Current < position
  BY <1>1, Zenon DEF Current
<1>8. BatchTypeOK'
  <2>1. Data # <<>>
    BY Zenon, <1>1 DEF Next1
  <2>2. stream' \in Seq(Seq(Tokens)) /\ stack' \in Seq(Readers)
    BY <1>1, <2>1, ConsumeType, Zenon
  <2>3. position \in Int /\ want \in Int /\ messageCount \in Int /\ firstOffset \in Int
    BY Zenon DEF BatchTypeOK
  <2> QED
    BY <1>1, <2>2, <2>3, ReadingType, Zenon
<1> DEFINE o == log[i].offsets[k + 1]
<1>9. /\ Behind(log, position, i, k) /\ Behind(log, want, i, k)
      /\ i \in 1 .. Len(log) => offset <= log[i].last
  BY <1>4, Zenon DEF Tracks
<1>10. /\ i \in 1 .. Len(log) /\ k + 1 \in 1 .. Len(log[i].offsets) /\ Current = o
       /\ At(i, k + 1)' \/ (k + 1 = Len(log[i].offsets) /\ At(i + 1, 0)')
  BY <1>4, <1>6, <1>9, MessageRead, Zenon
<1>11. log \in Logs /\ position \in Int /\ want \in Int /\ saved \in Int
  BY Zenon DEF BatchTypeOK
<1>12. o < position /\ o < want
  <2>1. o \in Int
    BY <1>10, <1>11, LogTypes, Zenon
  <2>2. saved <= o <=> want <= o
    BY <1>1, <1>2, <1>10, ReadingNow, Zenon DEF Same
  <2>3. position = saved
    BY <1>1, <1>2, ReadingNow, Zenon
  <2>4. o < position
    BY Zenon, <1>7, <1>10
  <2> HIDE DEF o
  <2> QED
    BY ONLY <1>11, <2>1, <2>2, <2>3, <2>4
<1>13. Behind(log, position, i, k + 1) /\ Behind(log, want, i, k + 1)
  <2>1. \A p \in Int : Behind(log, p, i, k) /\ o < p => Behind(log, p, i, k + 1)
    BY <1>10, <1>11, NextMessage, Zenon
  <2> HIDE DEF o
  <2> QED
    BY ONLY <1>9, <1>11, <1>12, <2>1, Zenon
<1>14. Tracks(i, k + 1)'
  BY ONLY <1>1, <1>2, <1>5, <1>9, <1>13, Zenon DEF Tracks
<1>15. Tracked'
  <2>1. /\ i \in 1 .. Len(log') /\ k + 1 \in 1 .. Len(log'[i].offsets)
        /\ At(i, k + 1)' \/ (k + 1 = Len(log'[i].offsets) /\ At(i + 1, 0)')
    BY ONLY <1>5, <1>10, Zenon
  <2> QED
    BY <1>8, <1>14, <2>1, TrackedPast, Zenon
<1>16. BatchInv'
  BY <1>1, <1>2, <1>15, ReadingOn, Zenon
<1> QED
  BY Zenon, <1>8, <1>16

\* A message is returned, or skipped by ReadMessage.
LEMMA TakeStep ==
  ASSUME BatchTypeOK, BatchInv, TakeV1 \/ RecordV2
  PROVE  /\ BatchTypeOK' /\ BatchInv'
         /\ got' # got /\ (api = "ReadMessage" \/ msgs = "v1") => IsNext(got', want)
<1>1. /\ Reading /\ Consume /\ Deliver(Current) /\ firstOffset' = firstOffset
      /\ \/ /\ msgs = "v1" /\ Next1 = "msg" /\ Current >= position
            /\ messageCount' = messageCount
         \/ /\ msgs = "v2" /\ messageCount > 0 /\ Next1 = "rec"
            /\ messageCount' = messageCount - 1
  <2>1. "v1" # "v2"
    BY Zenon
  <2>2. CASE TakeV1
    <3>1. msgs = "v1" /\ Current = Data[1].offset + Base
      BY <2>2, Zenon DEF TakeV1, Current
    <3> QED
      BY <2>2, <3>1, Zenon DEF TakeV1
  <2>3. CASE RecordV2
    <3>1. msgs = "v2" /\ Current = firstOffset + Data[1].offset
      BY <2>1, <2>3, Zenon DEF RecordV2, Current
    <3> QED
      BY <2>3, <3>1, Zenon DEF RecordV2
  <2> QED
    BY Zenon, <2>2, <2>3
<1>2. msgs \in {"v1", "v2"} /\ (msgs = "v1" => Current >= position)
  BY Zenon, <1>1
<1>3. PICK i \in 1 .. Len(log) + 1 : \E k \in Nat : At(i, k) /\ Tracks(i, k)
  BY <1>1, <1>2, ReadingNow, TrackedAt, Zenon
<1>4. PICK k \in Nat : At(i, k) /\ Tracks(i, k)
  BY Zenon, <1>3
<1>5. /\ pc = "read" /\ log' = log /\ fetchVersion' = fetchVersion /\ offset' = offset
      /\ msgs' = msgs /\ api' = api /\ saved' = saved /\ netOpen' = netOpen /\ seek' = seek
  BY <1>1, ReadingFrame, Zenon
<1>6. ReadsMessage
  <2>1. UNCHANGED <<log, fetchVersion, offset, msgs, firstOffset>>
    BY Zenon, <1>1, <1>5
  <2>2. messageCount' = IF msgs = "v2" THEN messageCount - 1 ELSE messageCount
    BY Zenon, <1>1
  <2>3. \/ msgs = "v1" /\ Next1 = "msg"
        \/ msgs = "v2" /\ messageCount > 0 /\ Next1 = "rec"
    BY <1>1, Zenon
  <2>4. Consume
    BY <1>1, Zenon
  <2> QED
    BY ONLY <2>1, <2>2, <2>3, <2>4, Zenon DEF ReadsMessage
<1>7. Current \in Int
  <2>1. /\ i \in 1 .. Len(log) /\ k + 1 \in 1 .. Len(log[i].offsets)
        /\ Current = log[i].offsets[k + 1]
    <3>1. i \in 1 .. Len(log) => offset <= log[i].last
      BY <1>4, Zenon DEF Tracks
    <3> QED
      BY <1>4, <1>6, <3>1, MessageRead, Zenon
  <2> QED
    BY <2>1, LogTypes, Zenon DEF BatchTypeOK
<1>8. BatchTypeOK'
  <2>1. Data # <<>>
    BY Zenon, <1>1 DEF Next1
  <2>2. stream' \in Seq(Seq(Tokens)) /\ stack' \in Seq(Readers)
    BY <1>1, <2>1, ConsumeType, Zenon
  <2>3. /\ position \in Int /\ want \in Int /\ messageCount \in Int /\ firstOffset \in Int
        /\ saved \in Int
    BY Zenon DEF BatchTypeOK
  <2>4. position' \in {saved, Current + 1} /\ want' \in {want, Current + 1}
    BY Zenon, <1>1 DEF Deliver
  <2>5. position' \in Int /\ want' \in Int /\ messageCount' \in Int /\ firstOffset' \in Int
    BY <1>1, <1>7, <2>3, <2>4
  <2> QED
    BY <1>1, <2>2, <2>5, ReadingType, Zenon
<1>9. Aligned /\ err = "nil"
  BY <1>1, <1>2, ReadingNow, Zenon
<1>10. /\ Aligned' /\ Tracking'
       /\ got' # got /\ (api = "ReadMessage" \/ msgs = "v1") => IsNext(got', want)
  <2>1. UNCHANGED <<api, saved>>
    BY Zenon, <1>5
  <2> QED
    BY <1>1, <1>2, <1>4, <1>5, <1>6, <1>8, <1>9, <2>1, DeliverStep, Zenon
<1>11. Opening'
  <2>1. pc' = "batch" \/ (pc' = "read" /\ err' = "nil")
    BY <1>1, <1>5, <1>9, Zenon DEF Deliver
  <2>2. msgs' # "none" /\ msgs' # "empty"
    BY Zenon, <1>2, <1>5
  <2>3. /\ "batch" \notin {"first", "last", "fetch"} /\ "batch" \notin {"first", "last"}
        /\ "read" \notin {"first", "last", "fetch"} /\ "read" \notin {"first", "last"}
        /\ "batch" # "read"
    BY Zenon
  <2> QED
    BY ONLY <2>1, <2>2, <2>3, Zenon DEF Opening
<1> QED
  BY Zenon, <1>8, <1>10, <1>11 DEF BatchInv

\* The response ends: the rest of the log has the messages that the program has
\* not been given.
LEMMA ShortStep ==
  ASSUME BatchTypeOK, BatchInv, ShortRead
  PROVE  BatchTypeOK' /\ BatchInv'
<1>1. /\ Reading /\ Discard /\ pc' = "batch" /\ err' \in TimeoutErrors
      /\ stack' = stack /\ messageCount' = messageCount /\ firstOffset' = firstOffset
      /\ position' = position /\ got' = got /\ want' = want
      /\ \/ msgs = "empty"
         \/ msgs = "v1" /\ stack = <<>> /\ Next1 \in {"none", "part"}
         \/ msgs = "v2" /\ messageCount = 0 /\ stack = <<>> /\ Next1 \in {"none", "part"}
         \/ msgs = "v2" /\ messageCount = 0 /\ Next1 = "packed" /\ Data[2].t = "part"
         \/ msgs = "v2" /\ messageCount > 0 /\ Next1 = "part"
  BY Zenon DEF ShortRead
<1>2. /\ pc = "read" /\ log' = log /\ offset' = offset /\ msgs' = msgs /\ api' = api
      /\ saved' = saved
  BY <1>1, ReadingFrame, Zenon
<1>3. BatchTypeOK'
  <2>1. stream \in Seq(Seq(Tokens)) /\ <<>> \in Seq(Seq(Tokens)) /\ stream' \in {stream, <<>>}
    BY <1>1 DEF BatchTypeOK, Discard
  <2>2. stream' \in Seq(Seq(Tokens))
    BY Zenon, <2>1
  <2>3. /\ stack \in Seq(Readers) /\ position \in Int /\ want \in Int
        /\ messageCount \in Int /\ firstOffset \in Int
    BY Zenon DEF BatchTypeOK
  <2> QED
    BY <1>1, <2>2, <2>3, ReadingType, Zenon
<1>4. /\ Same(log, saved, want) /\ (msgs # "v2" \/ api = "Read" => position = saved)
      /\ msgs = "v1" => offset <= position
      /\ msgs = "empty" => stack = <<>>
      /\ msgs # "none"
  <2>1. pc \in {"batch", "read"} /\ "read" # "batch"
    BY Zenon, <1>2
  <2> QED
    BY <1>2, <2>1, Zenon DEF BatchInv, Aligned, Opening
<1>5. ASSUME msgs = "v2", api = "ReadMessage" PROVE Same(log, position, want)
  <2>1. msgs \in {"v1", "v2"}
    BY Zenon, <1>5
  <2>2. PICK i \in 1 .. Len(log) + 1 : \E k \in Nat : At(i, k) /\ Tracks(i, k)
    BY <1>1, <2>1, ReadingNow, TrackedAt, Zenon
  <2>3. PICK k \in Nat : At(i, k) /\ Tracks(i, k)
    BY Zenon, <2>2
  <2>4. /\ Behind(log, position, i, k) /\ Behind(log, want, i, k)
        /\ Ahead(log, offset, want, i, k) /\ Ahead(log, offset, position, i, k)
    BY <1>5, <2>3, Zenon DEF Tracks
  <2>5. /\ "v2" # "empty" /\ "v2" # "v1" /\ "packed" # "none" /\ "packed" # "part"
        /\ "part" # "none"
    BY Zenon
  <2>6. stack = <<>>
    <3>1. SUFFICES ASSUME stack # <<>> PROVE FALSE
      BY Zenon
    <3>2. OnStack(i, k)
      BY <2>3, <3>1, OnlyOnStack, Zenon
    <3>3. Next1 # "none" => Next1 = Data[1].t /\ 1 \in 1 .. Len(Data) /\ Data = stack[1].data
      BY <3>2, OnTop, Zenon
    <3>4. Next1 # "none" => Next1 = "rec"
      BY <1>5, <3>2, <3>3, Zenon DEF OnStack
    <3> QED
      BY Zenon, <1>1, <1>5, <3>1, <3>4
  <2>7. PICK d \in 0 .. k + 1 : OnStream(i, d) /\ k = Messages1(d)
    BY <2>3, <2>6, OnlyOnStream, Zenon
  <2>8. d \in Nat
    OBVIOUS
  <2>9. i \in 1 .. Len(log) => offset < log[i].base
    <3>1. CASE stream = <<>>
      BY <1>5, <2>7, <3>1, Zenon DEF OnStream
    <3>2. CASE stream # <<>>
      <4> DEFINE b == Encode(log[i], fetchVersion)
      <4>1. /\ Piece(Data, b, d) /\ Next1 # "none"
            /\ Cut(Data) => offset < log[i].base
            /\ Next1 = "part" => Cut(Data)
            /\ Next1 = "packed" => IsPacked(b, log[i]) /\ d = 0
            /\ i \in 1 .. Len(log) /\ Next1 = Data[1].t /\ Data = stream[1]
        BY <1>5, <2>7, <2>8, <3>2, OnToken, Zenon
      <4>2. CASE Next1 = "part"
        BY <4>1, <4>2, Zenon
      <4>3. CASE Next1 = "packed" /\ Data[2].t = "part"
        <5>1. b \in Seq(Tokens) /\ Data \in Seq(Tokens)
          <6>1. stream \in Seq(Seq(Tokens)) /\ log \in Logs /\ fetchVersion \in {2, 5}
            BY Zenon DEF BatchTypeOK
          <6>2. b \in Seq(Tokens)
            BY <4>1, <6>1, Forms, Zenon
          <6>3. 1 \in 1 .. Len(stream)
            BY <3>2, <6>1, EmptySeq
          <6> QED
            BY Zenon, <4>1, <6>1, <6>2, <6>3, ElementOfSeq
        <5>2. d = 0 /\ Len(b) = 2 /\ b[2].t \in {"blob", "big"}
          BY <4>1, <4>3, Zenon DEF IsPacked
        <5> HIDE DEF b
        <5>3. Len(Data) \in Nat /\ Len(Data) >= 1 /\ Len(Data) <= 2
          BY <4>1, <5>1, <5>2 DEF Piece
        <5>4. Cut(Data) \/ (Data[Len(Data)] = b[2] /\ Len(Data) = 2)
          BY <4>1, <5>2, <5>3 DEF Piece
        <5>5. ~(Data[2] = b[2])
          BY Zenon, <4>3, <5>2
        <5> QED
          BY Zenon, <4>1, <5>4, <5>5
      <4>4. Next1 = "part" \/ (Next1 = "packed" /\ Data[2].t = "part")
        BY Zenon, <1>1, <1>5, <4>1
      <4> QED
        BY Zenon, <4>2, <4>3, <4>4
    <3> QED
      BY Zenon, <3>1, <3>2
  <2>10. log \in Logs /\ offset \in Int /\ position \in Int /\ want \in Int /\ Len(log) \in Nat
    BY Zenon, LogTypes DEF BatchTypeOK
  <2>11. ASSUME NEW a \in 1 .. Len(log), NEW b \in 1 .. Len(log[a].offsets)
         PROVE  position <= log[a].offsets[b] <=> want <= log[a].offsets[b]
    <3> DEFINE m == log[a].offsets[b]
    <3>1. m \in Int
      BY <2>10, LogTypes, Zenon
    <3>2. CASE a < i \/ (a = i /\ b <= k)
      <4>1. m < position /\ m < want
        BY <2>4, <3>2, Zenon DEF Behind
      <4> HIDE DEF m
      <4>2. position <= m <=> want <= m
        BY ONLY <2>10, <3>1, <4>1
      <4> QED
        BY Zenon, <4>2 DEF m
    <3>3. CASE i < a \/ (a = i /\ k < b)
      <4>1. i \in 1 .. Len(log)
        BY ONLY <2>10, <3>3, i \in 1 .. Len(log) + 1, a \in 1 .. Len(log)
      <4>2. offset <= m
        <5>1. 1 \in 1 .. Len(log[i].offsets)
          BY SMTT(40), <2>10, <4>1, LogEntries
        <5>2. /\ i < a => log[i].base <= log[i].offsets[1] /\ log[i].offsets[1] < m
              /\ a = i => log[i].base <= m
          BY <2>10, <4>1, <5>1, LogEntries, Ordered, Zenon
        <5>3. log[i].base \in Int /\ log[i].offsets[1] \in Int
          BY <2>10, <4>1, <5>1, LogTypes, Zenon
        <5>4. offset < log[i].base
          BY Zenon, <2>9, <4>1
        <5> HIDE DEF m
        <5> QED
          BY ONLY <2>10, <3>1, <3>3, <5>2, <5>3, <5>4
      <4>3. want <= m /\ position <= m
        BY <2>4, <3>3, <4>2, Zenon DEF Ahead
      <4> QED
        BY Zenon, <4>3
    <3>4. a \in Int /\ b \in Int /\ i \in Int
      <4>1. Len(log[a].offsets) \in Nat
        BY <2>10, LogTypes, Zenon
      <4> QED
        BY <2>10, <4>1
    <3>5. (a < i \/ (a = i /\ b <= k)) \/ (i < a \/ (a = i /\ k < b))
      BY ONLY <3>4, k \in Nat
    <3> QED
      BY ONLY <3>2, <3>3, <3>5, Zenon
  <2> QED
    BY ONLY <2>11, Zenon DEF Same
<1>6. Same(log, position, want)
  <2>1. api \in {"Read", "ReadMessage"}
    BY Zenon DEF BatchTypeOK
  <2> QED
    BY <1>4, <1>5, <2>1, Zenon
<1>7. err' # "nil" /\ err' # "failed"
  BY Zenon, <1>1 DEF TimeoutErrors
<1>8. /\ "batch" \notin {"idle", "first", "last", "fetch"} /\ "batch" # "fetch" /\ "batch" # "read"
      /\ "batch" \notin {"first", "last", "fetch"} /\ "batch" \notin {"first", "last"}
  BY Zenon
<1>9. Aligned'
  BY ONLY <1>1, <1>2, <1>4, <1>6, <1>8, Zenon DEF Aligned
<1>10. Tracking'
  BY <1>7, Zenon DEF Tracking
<1>11. Opening'
  BY ONLY <1>1, <1>2, <1>4, <1>8, Zenon DEF Opening
<1> QED
  BY Zenon, <1>3, <1>9, <1>10, <1>11 DEF BatchInv

\* A compressed set of messages is on top of the connection.
LEMMA PushStep ==
  ASSUME BatchTypeOK, BatchInv, PushV1
  PROVE  BatchTypeOK' /\ BatchInv'
<1> DEFINE r == Data[1].inner
           base == extractOffset(Data[1].offset, r)
           data == [j \in DOMAIN r |-> Token("msg", r[j], <<>>)]
<1>1. /\ Reading /\ msgs = "v1" /\ stack = <<>> /\ Next1 = "wrap"
      /\ stack' = <<[base |-> base, data |-> data]>> /\ stream' = Tail(stream)
      /\ messageCount' = messageCount /\ firstOffset' = firstOffset
      /\ pc' = pc /\ position' = position /\ err' = err /\ got' = got /\ want' = want
  BY Zenon DEF PushV1
<1>2. msgs \in {"v1", "v2"} /\ msgs # "v2" /\ "wrap" # "none" /\ "wrap" # "part"
  BY Zenon, <1>1
<1>3. PICK i \in 1 .. Len(log) + 1 : \E k \in Nat : At(i, k) /\ Tracks(i, k)
  BY <1>1, <1>2, ReadingNow, TrackedAt, Zenon
<1>4. PICK k \in Nat : At(i, k) /\ Tracks(i, k)
  BY Zenon, <1>3
<1>5. /\ log' = log /\ fetchVersion' = fetchVersion /\ offset' = offset /\ msgs' = msgs /\ api' = api
  BY <1>1, ReadingFrame, Zenon
<1>6. PICK d \in 0 .. k + 1 : OnStream(i, d) /\ k = Messages1(d)
  BY <1>1, <1>4, OnlyOnStream, Zenon
<1>7. stream # <<>> /\ d \in Nat
  BY <1>1, <1>2 DEF Next1, Data
<1> DEFINE b == Encode(log[i], fetchVersion)
           n == Len(log[i].offsets)
<1>8. i \in 1 .. Len(log) /\ d + 1 \in 1 .. Len(b) /\ Data[1] = b[d + 1] /\ IsWrap(b, log[i]) /\ d = 0
  BY <1>1, <1>2, <1>6, <1>7, OnToken, Zenon
<1>9. k = 0 /\ Data[1] = b[1]
  BY <1>2, <1>6, <1>8 DEF Messages1
<1>10. /\ log \in Logs /\ fetchVersion \in {2, 5} /\ stream \in Seq(Seq(Tokens))
  BY Zenon DEF BatchTypeOK
<1>11. /\ n \in Nat \ {0} /\ log[i].base \in Int /\ \A j \in 1 .. n : log[i].offsets[j] \in Int
  BY <1>8, <1>10, LogTypes, LogEntries, Zenon
<1>12. Data[1] \in Tokens
  <2>1. b \in Seq(Tokens)
    BY <1>8, <1>10, Forms, Zenon
  <2>2. 1 \in 1 .. Len(b)
    BY <1>8
  <2> QED
    BY <1>9, <2>1, <2>2, ElementOfSeq, Zenon
<1>13. r \in Seq(Int) /\ Data[1].offset \in Int
  BY Zenon, <1>12 DEF Tokens
<1>14. Data[1].offset = log[i].offsets[n] /\ Relative(r, log[i])
  BY <1>8, <1>9, Zenon DEF IsWrap
<1> HIDE DEF r, b, n
<1>15. Len(r) = n /\ \A j \in 1 .. n : r[j] = log[i].offsets[j] - log[i].base
  BY <1>14, Zenon DEF Relative, n
<1>16. base = log[i].base
  <2>1. n \in 1 .. n
    BY <1>11
  <2>2. base = log[i].offsets[n] - (log[i].offsets[n] - log[i].base) /\ log[i].offsets[n] \in Int
    BY ONLY <1>11, <1>14, <1>15, <2>1, Zenon DEF extractOffset
  <2> QED
    BY ONLY <1>11, <2>2
<1>17. DOMAIN r = 1 .. n /\ \A j \in 1 .. n : r[j] \in Int
  <2>1. DOMAIN r = 1 .. Len(r) /\ \A j \in 1 .. Len(r) : r[j] \in Int
    BY ONLY <1>13
  <2> QED
    BY ONLY <1>15, <2>1, Zenon
<1>18. /\ data \in Seq(Tokens) /\ Len(data) = n
       /\ \A j \in 1 .. n : data[j].t = "msg" /\ data[j].offset = r[j]
  <2>1. \A j \in 1 .. n : Token("msg", r[j], <<>>) \in Tokens
    <3>1. "msg" \in Tags /\ <<>> \in Seq(Int)
      BY DEF Tags
    <3>2. \A o \in Int : Token("msg", o, <<>>) \in Tokens
      BY ONLY <3>1, Zenon DEF Token, Tokens
    <3> QED
      BY <1>17, <3>2, Zenon
  <2>2. data = [j \in 1 .. n |-> Token("msg", r[j], <<>>)]
    BY <1>17, Zenon
  <2> HIDE DEF data
  <2>3. data \in Seq(Tokens) /\ Len(data) = n
    BY ONLY <1>11, <2>1, <2>2
  <2>4. \A j \in 1 .. n : data[j].t = "msg" /\ data[j].offset = r[j]
    BY ONLY Zenon, <2>2 DEF Token
  <2> QED
    BY Zenon, <2>3, <2>4
<1> HIDE DEF base, data
<1>19. /\ Len(stack') = 1 /\ stack'[1].base = log[i].base /\ stack'[1].data = data
       /\ stack' \in Seq(Readers)
  <2>1. [base |-> base, data |-> data] \in Readers
    BY ONLY Zenon, <1>11, <1>16, <1>18 DEF Readers
  <2> QED
    BY ONLY <1>1, <1>16, <2>1
<1>20. stream' \in Seq(Seq(Tokens)) /\ Pieces(stream', log, fetchVersion, offset, msgs, i + 1, 0)
  <2>1. Pieces(stream, log, fetchVersion, offset, msgs, i, d)
    BY <1>6, Zenon DEF OnStream
  <2>2. i \in Nat \ {0}
    BY <1>8
  <2> QED
    BY <1>1, <1>7, <1>10, <2>1, <2>2, PiecesTail, Zenon
<1>21. BatchTypeOK'
  <2>1. position \in Int /\ want \in Int /\ messageCount \in Int /\ firstOffset \in Int
    BY Zenon DEF BatchTypeOK
  <2> QED
    BY <1>1, <1>19, <1>20, <2>1, ReadingType, Zenon
<1>22. OnStack(i, 0)'
  <2>1. Len(stack'[1].data) = n - 0 /\ \A j \in 1 .. n : 0 + j = j
    BY ONLY <1>11, <1>18, <1>19
  <2>2. \A j \in 1 .. n : data[j].offset + log[i].base = log[i].offsets[j]
    BY ONLY <1>11, <1>15, <1>18
  <2>3. /\ Len(stack'[1].data) = n
        /\ \A j \in 1 .. n : /\ stack'[1].data[j].offset + stack'[1].base = log[i].offsets[0 + j]
                             /\ stack'[1].data[j].t = "msg"
    BY ONLY <1>18, <1>19, <2>1, <2>2, ZenonT(60)
  <2> QED
    BY ONLY <1>1, <1>2, <1>5, <1>8, <1>19, <1>20, <2>1, <2>3, Zenon DEF OnStack, n
<1>23. Tracked'
  <2>1. Tracks(i, 0)'
    BY ONLY <1>1, <1>4, <1>5, <1>9, Zenon DEF Tracks
  <2>2. At(i, 0)'
    BY ONLY <1>22, Zenon DEF At
  <2>3. 0 \in 0 .. Count(i)
    BY <1>8, <1>11 DEF Count, n
  <2>4. i \in 1 .. Len(log') + 1 /\ 0 \in 0 .. Count(i)'
    BY <1>5, <2>3, Zenon DEF Count
  <2> QED
    BY ONLY <2>1, <2>2, <2>4, Zenon DEF Tracked
<1>24. BatchInv'
  BY <1>1, <1>2, <1>23, ReadingOn, Zenon
<1> QED
  BY Zenon, <1>21, <1>24

\* The header of a batch, its records next on the connection or decompressed.
LEMMA HeaderStep ==
  ASSUME BatchTypeOK, BatchInv, HeaderV2
  PROVE  BatchTypeOK' /\ BatchInv'
<1> DEFINE r == Data[2].inner
           data == [j \in DOMAIN r |-> Token("rec", r[j], <<>>)]
<1>1. /\ Reading /\ msgs = "v2" /\ messageCount = 0 /\ stack = <<>>
      /\ Next1 = "head" \/ (Next1 = "packed" /\ Data[2].t = "blob")
      /\ messageCount' = Len(Data[1].inner) /\ firstOffset' = Data[1].offset
      /\ pc' = pc /\ position' = position /\ err' = err /\ got' = got /\ want' = want
  BY Zenon DEF HeaderV2
<1>2. IF Next1 = "head" THEN Consume
        ELSE stack' = <<[base |-> -1, data |-> data]>> /\ stream' = Tail(stream)
  BY Zenon DEF HeaderV2
<1>3. /\ msgs \in {"v1", "v2"} /\ msgs # "v1" /\ "v2" # "v1" /\ "head" # "packed"
      /\ Next1 # "none" /\ Next1 # "part"
  BY Zenon, <1>1
<1>4. PICK i \in 1 .. Len(log) + 1 : \E k \in Nat : At(i, k) /\ Tracks(i, k)
  BY <1>1, <1>3, ReadingNow, TrackedAt, Zenon
<1>5. PICK k \in Nat : At(i, k) /\ Tracks(i, k)
  BY Zenon, <1>4
<1>6. /\ log' = log /\ fetchVersion' = fetchVersion /\ offset' = offset /\ msgs' = msgs /\ api' = api
  BY <1>1, ReadingFrame, Zenon
<1>7. PICK d \in 0 .. k + 1 : OnStream(i, d) /\ k = Messages1(d)
  BY <1>1, <1>5, OnlyOnStream, Zenon
<1>8. stream # <<>> /\ d \in Nat
  BY <1>1, <1>3 DEF Next1, Data
<1> DEFINE b == Encode(log[i], fetchVersion)
           n == Len(log[i].offsets)
<1>9. /\ i \in 1 .. Len(log) /\ d + 1 \in 1 .. Len(b) /\ Data[1] = b[d + 1] /\ d = 0
      /\ Next1 = "head" => IsPlain(b, log[i])
      /\ Next1 = "packed" => IsPacked(b, log[i])
      /\ Len(Data) = 1 => d + 1 = Len(b)
      /\ Piece(Data, b, d) /\ Data = stream[1]
  BY <1>1, <1>3, <1>7, <1>8, OnToken, ZenonT(60)
<1>10. k = 0 /\ Data[1] = b[1]
  BY <1>7, <1>9 DEF Messages1
<1>11. /\ log \in Logs /\ fetchVersion \in {2, 5} /\ stream \in Seq(Seq(Tokens))
       /\ position \in Int /\ want \in Int
  BY Zenon DEF BatchTypeOK
<1>12. /\ n \in Nat \ {0} /\ log[i].base \in Int /\ \A j \in 1 .. n : log[i].offsets[j] \in Int
  BY <1>9, <1>11, LogTypes, LogEntries, Zenon
<1>13. b \in Seq(Tokens)
  BY <1>9, <1>11, Forms, Zenon
<1> HIDE DEF b, n
<1>14. Data[1].offset = log[i].base /\ Len(Data[1].inner) = n
  BY <1>1, <1>9, <1>10, Zenon DEF IsPlain, IsPacked, Relative, n
<1>15. messageCount' = n /\ firstOffset' = log[i].base /\ messageCount' \in Int /\ firstOffset' \in Int
  BY ONLY <1>1, <1>12, <1>14
<1>16. ASSUME At(i, 0)' PROVE BatchInv'
  <2>1. Tracks(i, 0)'
    BY ONLY <1>1, <1>5, <1>6, <1>10, Zenon DEF Tracks
  <2>2. 0 \in 0 .. Count(i)
    BY <1>9, <1>12 DEF Count, n
  <2>3. i \in 1 .. Len(log') + 1 /\ 0 \in 0 .. Count(i)'
    BY <1>6, <2>2, Zenon DEF Count
  <2>4. Tracked'
    BY ONLY <1>16, <2>1, <2>3, Zenon DEF Tracked
  <2> QED
    BY <1>1, <1>3, <2>4, ReadingOn, Zenon
<1>17. CASE Next1 = "head"
  <2>1. Consume /\ IsPlain(b, log[i]) /\ Len(b) = n + 1
    BY <1>2, <1>9, <1>17, Zenon DEF IsPlain, n
  <2>2. Len(Data) # 1
    BY ONLY <1>9, <1>12, <2>1
  <2>3. /\ stack' = <<>> /\ stream' \in Seq(Seq(Tokens)) /\ stream' # <<>>
        /\ Pieces(stream', log, fetchVersion, offset, msgs, i, d + 1)
    BY <1>7, <1>8, <2>1, <2>2, ConsumeStream, Zenon
  <2>4. d + 1 = 1 /\ 1 > 0 /\ 1 # 0 /\ n - (1 - 1) = n
    BY ONLY <1>9, <1>12
  <2>5. OnStream(i, 1)'
    <3>1. IsPlain(Encode(log[i], fetchVersion), log[i])
      BY Zenon, <2>1 DEF b
    <3>2. messageCount' = Len(log[i].offsets) - (1 - 1)
      BY Zenon, <1>15, <2>4 DEF n
    <3> QED
      BY ONLY <1>1, <1>3, <1>6, <1>15, <2>3, <2>4, <3>1, <3>2, Zenon DEF OnStream
  <2>6. At(i, 0)'
    <3>1. Messages1(1)' = 0 /\ 1 \in 0 .. 0 + 1
      BY <1>1, <1>6 DEF Messages1
    <3> QED
      BY ONLY <2>5, <3>1, Zenon DEF At
  <2>7. stack' \in Seq(Readers)
    BY <2>3
  <2> QED
    BY <1>1, <1>11, <1>15, <1>16, <2>3, <2>6, <2>7, ReadingType, Zenon
<1>18. CASE Next1 = "packed" /\ Data[2].t = "blob"
  <2>1. stack' = <<[base |-> -1, data |-> data]>> /\ stream' = Tail(stream) /\ IsPacked(b, log[i])
    BY <1>2, <1>3, <1>9, <1>18, Zenon
  <2>2. Len(b) = 2 /\ Relative(b[2].inner, log[i])
    BY <2>1, Zenon DEF IsPacked
  <2>3. Data[2] = b[2]
    <3>1. 1 \in 1 .. Len(stream)
      BY <1>8, <1>11, EmptySeq
    <3>2. Data \in Seq(Tokens)
      BY Zenon, <1>9, <1>11, <3>1, ElementOfSeq
    <3>3. Len(Data) \in Nat /\ Len(Data) >= 1 /\ Len(Data) <= 2
      BY <1>9, <2>2, <3>2 DEF Piece
    <3>7. Len(Data) # 1
      <4>1. d + 1 = 1 /\ 1 # 2
        BY <1>9
      <4> QED
        BY ONLY <1>9, <2>2, <4>1, Zenon
    <3>4. Len(Data) = 2
      <4>1. \A m \in Nat : m >= 1 /\ m <= 2 /\ m # 1 => m = 2
        BY ONLY TRUE
      <4> QED
        BY ONLY <3>3, <3>7, <4>1, Zenon
    <3>5. Cut(Data) \/ Data[Len(Data)] = b[Len(b)]
      BY <1>9, Zenon DEF Piece
    <3>6. ~Cut(Data)
      BY <1>18, <3>4 DEF Cut, Part, Token
    <3> QED
      BY ONLY <2>2, <3>4, <3>5, <3>6, Zenon
  <2>4. r \in Seq(Int)
    <3>1. b[2] \in Tokens
      <4>1. 2 \in 1 .. Len(b)
        BY <2>2
      <4> QED
        BY <1>13, <4>1, ElementOfSeq, Zenon
    <3> QED
      BY Zenon, <2>3, <3>1 DEF Tokens
  <2>5. Relative(r, log[i])
    BY <2>2, <2>3, Zenon
  <2> HIDE DEF r
  <2>6. Len(r) = n /\ \A j \in 1 .. n : r[j] = log[i].offsets[j] - log[i].base
    BY <2>5, Zenon DEF Relative, n
  <2>7. DOMAIN r = 1 .. n /\ \A j \in 1 .. n : r[j] \in Int
    <3>1. DOMAIN r = 1 .. Len(r) /\ \A j \in 1 .. Len(r) : r[j] \in Int
      BY ONLY <2>4
    <3> QED
      BY ONLY <2>6, <3>1, Zenon
  <2>8. data \in Seq(Tokens) /\ Len(data) = n
        /\ \A j \in 1 .. n : data[j].t = "rec" /\ data[j].offset = r[j]
    <3>1. \A j \in 1 .. n : Token("rec", r[j], <<>>) \in Tokens
      <4>1. "rec" \in Tags /\ <<>> \in Seq(Int)
        BY DEF Tags
      <4>2. \A o \in Int : Token("rec", o, <<>>) \in Tokens
        BY ONLY <4>1, Zenon DEF Token, Tokens
      <4> QED
        BY <2>7, <4>2, Zenon
    <3>2. data = [j \in 1 .. n |-> Token("rec", r[j], <<>>)]
      BY <2>7, Zenon
    <3> HIDE DEF data
    <3>3. data \in Seq(Tokens) /\ Len(data) = n
      BY ONLY <1>12, <3>1, <3>2
    <3>4. \A j \in 1 .. n : data[j].t = "rec" /\ data[j].offset = r[j]
      BY ONLY Zenon, <3>2 DEF Token
    <3> QED
      BY Zenon, <3>3, <3>4
  <2> HIDE DEF data
  <2>9. Len(stack') = 1 /\ stack'[1].data = data /\ stack' \in Seq(Readers)
    <3>1. [base |-> -1, data |-> data] \in Readers
      BY ONLY <2>8 DEF Readers
    <3> QED
      BY ONLY <2>1, <3>1
  <2>10. stream' \in Seq(Seq(Tokens)) /\ Pieces(stream', log, fetchVersion, offset, msgs, i + 1, 0)
    <3>1. Pieces(stream, log, fetchVersion, offset, msgs, i, d)
      BY <1>7, Zenon DEF OnStream
    <3>2. i \in Nat \ {0}
      BY <1>9
    <3> QED
      BY <1>8, <1>11, <2>1, <3>1, <3>2, PiecesTail, Zenon
  <2>11. OnStack(i, 0)'
    <3>1. n - 0 = n /\ \A j \in 1 .. n : 0 + j = j
      BY ONLY <1>12
    <3>4. \A j \in 1 .. n : data[j].offset = log[i].offsets[j] - log[i].base
      BY ONLY <2>6, <2>8, Zenon
    <3>2. \A j \in 1 .. n : data[j].offset + log[i].base = log[i].offsets[j]
      BY ONLY <1>12, <3>4
    <3>3. /\ Len(stack'[1].data) = n
          /\ \A j \in 1 .. n : /\ stack'[1].data[j].offset + firstOffset' = log[i].offsets[0 + j]
                               /\ stack'[1].data[j].t = "rec"
      BY ONLY <1>15, <2>8, <2>9, <3>1, <3>2, ZenonT(60)
    <3> QED
      BY ONLY <1>1, <1>3, <1>6, <1>9, <1>15, <2>9, <2>10, <3>1, <3>3, ZenonT(60) DEF OnStack, n
  <2>12. At(i, 0)'
    BY ONLY <2>11, Zenon DEF At
  <2> QED
    BY <1>1, <1>11, <1>15, <1>16, <2>9, <2>10, <2>12, ReadingType, Zenon
<1> QED
  BY Zenon, <1>1, <1>17, <1>18

-----------------------------------------------------------------------------
(* Responses. *)

LEMMA PieceWhole ==
  ASSUME NEW l \in Logs, NEW i \in 1 .. Len(l), NEW v \in {2, 5}
  PROVE  Piece(Encode(l[i], v), Encode(l[i], v), 0) /\ ~Cut(Encode(l[i], v))
<1> DEFINE b == Encode(l[i], v)
<1>1. b \in Seq(Tokens) /\ Len(b) \in Nat \ {0} /\ Typical(b, l[i], v)
  BY Forms, Tells, Zenon
<1> HIDE DEF b
<1>2. Len(b) \in 1 .. Len(b) /\ Len(b) >= 1 /\ 0 + Len(b) = Len(b) /\ 0 + Len(b) <= Len(b)
      /\ \A j \in 1 .. Len(b) - 1 : 0 + j = j
  BY ONLY <1>1
<1>3. b[Len(b)].t # "part"
  BY ONLY <1>1, <1>2, Zenon DEF Typical
<1>4. Part.t = "part"
  BY Zenon DEF Part, Token
<1>5. ~Cut(b)
  BY ONLY <1>3, <1>4, Zenon DEF Cut
<1>6. Piece(b, b, 0)
  BY ONLY <1>2, Zenon DEF Piece
<1> QED
  BY Zenon, <1>5, <1>6 DEF b

LEMMA PieceCut ==
  ASSUME NEW b \in Seq(Tokens), NEW k \in 0 .. Len(b) - 1
  PROVE  /\ SubSeq(b, 1, k) \o <<Part>> \in Seq(Tokens)
         /\ Piece(SubSeq(b, 1, k) \o <<Part>>, b, 0)
         /\ (SubSeq(b, 1, k) \o <<Part>>)[1] \in {b[1], Part}
<1> DEFINE x == SubSeq(b, 1, k)
           p == <<Part>>
           c == x \o p
<1>1. Len(b) \in Nat /\ k \in Nat
  OBVIOUS
<1>2. x \in Seq(Tokens) /\ Len(x) = k /\ \A j \in 1 .. k : x[j] = b[j]
  <2>1. 1 \in 1 .. Len(b) + 1 /\ k \in 1 - 1 .. Len(b)
    BY <1>1
  <2>2. /\ x \in Seq(Tokens) /\ Len(x) = IF 1 <= k THEN k - 1 + 1 ELSE 0
        /\ \A j \in 1 .. k - 1 + 1 : x[j] = b[1 + j - 1]
    BY <2>1, SubSeqProperties
  <2> HIDE DEF x
  <2>3. Len(x) = k
    BY ONLY <1>1, <2>2
  <2>4. \A j \in 1 .. k : j \in 1 .. k - 1 + 1 /\ 1 + j - 1 = j
    BY ONLY <1>1
  <2>5. \A j \in 1 .. k : x[j] = b[j]
    BY ONLY <2>2, <2>4, Zenon
  <2> QED
    BY Zenon, <2>2, <2>3, <2>5
<1>3. Part \in Tokens
  <2>1. "part" \in Tags /\ 0 \in Int /\ <<>> \in Seq(Int)
    BY DEF Tags
  <2> QED
    BY <2>1, Zenon DEF Part, Token, Tokens
<1>4. p \in Seq(Tokens) /\ Len(p) = 1 /\ p[1] = Part
  BY <1>3
<1> HIDE DEF x, p
<1>5. /\ c \in Seq(Tokens) /\ Len(c) = Len(x) + Len(p)
      /\ \A j \in 1 .. Len(x) + Len(p) : c[j] = IF j <= Len(x) THEN x[j] ELSE p[j - Len(x)]
  BY Zenon, <1>2, <1>4, ConcatProperties
<1> HIDE DEF c
<1>6. Len(c) = k + 1 /\ \A j \in 1 .. k + 1 : c[j] = IF j <= k THEN x[j] ELSE p[j - k]
  BY ONLY <1>2, <1>4, <1>5, Zenon
<1>7. \A j \in 1 .. k : c[j] = b[j]
  <2>1. \A j \in 1 .. k : j \in 1 .. k + 1 /\ j <= k
    BY ONLY <1>1
  <2> QED
    BY ONLY <1>2, <1>6, <2>1, Zenon
<1>8. c[k + 1] = Part
  BY ONLY <1>1, <1>4, <1>6
<1>9. Piece(c, b, 0)
  <2>1. /\ k + 1 >= 1 /\ 0 + (k + 1) <= Len(b)
        /\ \A j \in 1 .. (k + 1) - 1 : j \in 1 .. k /\ 0 + j = j
    BY ONLY <1>1, k \in 0 .. Len(b) - 1
  <2>2. Cut(c)
    BY ONLY <1>6, <1>8, Zenon DEF Cut
  <2> QED
    BY ONLY <1>6, <1>7, <2>1, <2>2, Zenon DEF Piece
<1>10. c[1] \in {b[1], Part}
  <2>1. k = 0 \/ 1 \in 1 .. k
    BY ONLY <1>1
  <2>2. k = 0 => k + 1 = 1
    OBVIOUS
  <2> QED
    BY ONLY <1>7, <1>8, <2>1, <2>2, Zenon
<1> QED
  BY Zenon, <1>5, <1>9, <1>10 DEF c, x, p

\* A response is its batches, of which only the last may be cut, and the first
\* only when it is not one of version 2.
LEMMA Response ==
  ASSUME BatchTypeOK, NEW i \in head .. end, NEW data \in Responses(i)
  PROVE  /\ i \in 1 .. Len(log) /\ data \in Seq(Seq(Tokens)) /\ data # <<>>
         /\ data[1][1].t # "stub" =>
              \A j \in 1 .. Len(data) : /\ i + j - 1 \in 1 .. Len(log)
                                        /\ Piece(data[j], Encode(log[i + j - 1], fetchVersion), 0)
         /\ data[1][1].t \in {"head", "packed"} => ~Cut(data[1])
<1> DEFINE all == end - i + 1
           fit == IF fetchVersion = 5 /\ room = 0 THEN 1 ELSE room
           n == IF fit < all THEN fit ELSE all
           bytes(j) == Encode(log[j], fetchVersion)
           whole == [j \in 1 .. n |-> bytes(i + j - 1)]
           next == bytes(i + n)
           cut(k) == SubSeq(next, 1, k) \o <<Part>>
           stub == <<<<Token("stub", 0, <<>>)>>>>
<1>1. /\ log \in Logs /\ Len(log) \in Nat /\ fetchVersion \in {2, 5} /\ room \in Nat
      /\ end \in 1 .. Len(log) /\ head \in 1 .. end + 1
  BY Zenon, LogTypes DEF BatchTypeOK
<1>2. i \in 1 .. Len(log) /\ all \in Nat \ {0} /\ fit \in Nat /\ (fetchVersion = 5 => fit # 0)
  BY <1>1
<1>3. n \in 0 .. all /\ (n = 0 => fetchVersion # 5) /\ (n # all => i + n \in 1 .. Len(log))
  BY ONLY <1>1, <1>2, i \in head .. end
<1>4. \A j \in 1 .. n : i + j - 1 \in 1 .. Len(log)
  BY ONLY <1>1, <1>2, <1>3, i \in head .. end
<1>5. \A j \in 1 .. Len(log) : /\ bytes(j) \in Seq(Tokens) /\ Len(bytes(j)) \in Nat \ {0}
                               /\ Piece(bytes(j), bytes(j), 0) /\ ~Cut(bytes(j))
                               /\ Typical(bytes(j), log[j], fetchVersion)
  BY <1>1, Forms, Tells, PieceWhole, Zenon
<1>6. \/ data = whole /\ n # 0
      \/ n # all /\ \E k \in 0 .. Len(next) - 1 : data = Append(whole, cut(k))
      \/ data = stub
  <2>1. data \in IF n = all THEN {whole}
                 ELSE {Append(whole, cut(k)) : k \in 0 .. Len(next) - 1}
                        \cup IF n = 0 THEN {stub} ELSE {whole}
    BY Zenon DEF Responses
  <2>2. all # 0
    BY ONLY Zenon, <1>2
  <2> HIDE DEF all, n, whole, cut, next, stub
  <2> QED
    BY ONLY <2>1, <2>2, Zenon
<1> HIDE DEF all, fit, n, bytes
<1>7. n \in Nat
  BY ONLY <1>2, <1>3
<1>8. whole \in Seq(Seq(Tokens)) /\ Len(whole) = n /\ \A j \in 1 .. n : whole[j] = bytes(i + j - 1)
  <2>1. \A j \in 1 .. n : bytes(i + j - 1) \in Seq(Tokens)
    BY ONLY <1>4, <1>5, Zenon
  <2> QED
    BY ONLY <1>7, <2>1
<1> HIDE DEF whole
<1>9. \A j \in 1 .. n : /\ i + j - 1 \in 1 .. Len(log)
                        /\ Piece(whole[j], bytes(i + j - 1), 0) /\ ~Cut(whole[j])
  BY ONLY <1>4, <1>5, <1>8, Zenon
<1>10. CASE data = whole /\ n # 0
  <2>1. data # <<>> /\ 1 \in 1 .. n
    BY <1>7, <1>8, <1>10
  <2> QED
    BY ONLY <1>2, <1>8, <1>9, <1>10, <2>1, Zenon DEF bytes
<1>11. CASE n # all /\ \E k \in 0 .. Len(next) - 1 : data = Append(whole, cut(k))
  <2>1. PICK k \in 0 .. Len(next) - 1 : data = Append(whole, cut(k))
    BY Zenon, <1>11
  <2>2. i + n \in 1 .. Len(log) /\ next \in Seq(Tokens) /\ Typical(next, log[i + n], fetchVersion)
        /\ Len(next) \in Nat \ {0}
    BY Zenon, <1>3, <1>5, <1>11
  <2> HIDE DEF next
  <2>3. cut(k) \in Seq(Tokens) /\ Piece(cut(k), next, 0) /\ cut(k)[1] \in {next[1], Part}
    BY <2>2, PieceCut, Zenon
  <2> HIDE DEF cut
  <2>4. /\ data \in Seq(Seq(Tokens)) /\ data # <<>> /\ Len(data) = n + 1
        /\ \A j \in 1 .. n : data[j] = whole[j]
        /\ data[n + 1] = cut(k)
    <3> DEFINE c == cut(k)
    <3>1. whole \in Seq(Seq(Tokens)) /\ c \in Seq(Tokens)
      BY Zenon, <1>8, <2>3
    <3> DEFINE S == Seq(Tokens)
    <3>4. whole \in Seq(S) /\ c \in S
      BY Zenon, <3>1
    <3> HIDE DEF c, S
    <3>2. Append(whole, c) \in Seq(S) /\ Len(Append(whole, c)) = Len(whole) + 1
      BY ONLY <3>4
    <3>5. Append(whole, c) # <<>>
      BY ONLY <3>4, AppendProperties, ZenonT(60)
    <3>6. \A j \in 1 .. Len(whole) : Append(whole, c)[j] = whole[j]
      BY ONLY <3>4
    <3>7. Append(whole, c)[Len(whole) + 1] = c
      BY ONLY <3>4
    <3>3. data = Append(whole, c)
      BY Zenon, <2>1 DEF c
    <3> QED
      BY ONLY <1>8, <3>2, <3>3, <3>5, <3>6, <3>7, Zenon DEF c, S
  <2>5. ASSUME NEW j \in 1 .. Len(data)
        PROVE  i + j - 1 \in 1 .. Len(log) /\ Piece(data[j], bytes(i + j - 1), 0)
    <3>1. j \in 1 .. n \/ (j = n + 1 /\ i + j - 1 = i + n)
      <4>1. j \in 1 .. n + 1
        BY ONLY <2>4, <2>5, Zenon
      <4>2. i \in Int
        OBVIOUS
      <4> QED
        BY ONLY <1>7, <4>1, <4>2
    <3>2. CASE j \in 1 .. n
      BY ONLY <1>9, <2>4, <3>2, Zenon
    <3>3. CASE j = n + 1 /\ i + j - 1 = i + n
      BY ONLY <2>2, <2>3, <2>4, <3>3, Zenon DEF next
    <3> QED
      BY ONLY <3>1, <3>2, <3>3, Zenon
  <2>6. ASSUME data[1][1].t \in {"head", "packed"} PROVE ~Cut(data[1])
    <3>1. CASE n = 0
      <4>1. fetchVersion # 5 /\ n + 1 = 1 /\ 1 \in 1 .. Len(next)
        BY <1>3, <2>2, <3>1
      <4>2. data[1][1] \in {next[1], Part}
        BY ONLY <2>3, <2>4, <4>1, Zenon
      <4>3. Part.t = "part" /\ "part" \notin {"head", "packed"}
        BY Zenon DEF Part, Token
      <4>4. next[1].t # "head" /\ next[1].t # "packed"
        BY ONLY <2>2, <4>1, Zenon DEF Typical
      <4> QED
        BY ONLY <2>6, <4>2, <4>3, <4>4, Zenon
    <3>2. CASE n # 0
      <4>1. 1 \in 1 .. n
        BY ONLY <1>7, <3>2
      <4> QED
        BY ONLY <1>9, <2>4, <4>1, Zenon
    <3> QED
      BY ONLY <3>1, <3>2, Zenon
  <2> QED
    BY ONLY <1>2, <2>4, <2>5, <2>6, Zenon DEF bytes
<1>12. CASE data = stub
  <2>1. Token("stub", 0, <<>>) \in Tokens
    <3>1. "stub" \in Tags /\ 0 \in Int /\ <<>> \in Seq(Int)
      BY DEF Tags
    <3> QED
      BY <3>1, Zenon DEF Token, Tokens
  <2>2. stub \in Seq(Seq(Tokens)) /\ stub # <<>> /\ stub[1][1] = Token("stub", 0, <<>>)
    BY <2>1
  <2>3. stub[1][1].t = "stub" /\ "stub" \notin {"head", "packed"}
    BY Zenon, <2>2 DEF Token
  <2> HIDE DEF stub
  <2> QED
    BY ONLY <1>2, <1>12, <2>2, <2>3, Zenon
<1> QED
  BY ONLY <1>6, <1>10, <1>11, <1>12, Zenon

LEMMA OpenedFrame ==
  ASSUME NEW m, NEW e, Opened(m, e)
  PROVE  /\ pc' = "batch" /\ msgs' = m /\ stack' = <<>> /\ messageCount' = 0 /\ firstOffset' = 0
         /\ position' = offset /\ err' = e /\ log' = log /\ head' = head /\ end' = end
         /\ fetchVersion' = fetchVersion /\ room' = room /\ api' = api /\ offset' = offset
         /\ netOpen' = netOpen /\ seek' = seek /\ saved' = saved /\ got' = got /\ want' = want
BY Zenon DEF Opened, partition, config, history

\* A fetch is at an offset that has the messages that the program has not been
\* given.
LEMMA FetchNow ==
  ASSUME BatchInv, pc = "fetch"
  PROVE  Same(log, offset, want)
<1>1. "fetch" \in {"first", "last", "fetch"} /\ "fetch" \in {"idle", "first", "last", "fetch"}
  BY Zenon
<1> QED
  BY <1>1, Zenon DEF BatchInv, Opening, Aligned

LEMMA OpenedStep ==
  ASSUME BatchTypeOK, BatchInv, pc = "fetch", NEW m \in {"none", "empty", "v1", "v2"}, NEW e,
         Opened(m, e), stream' \in Seq(Seq(Tokens)), m = "none" => e \in {"Kafka", "failed"},
         e = "nil" /\ m \in {"v1", "v2"} => Tracked'
  PROVE  BatchTypeOK' /\ BatchInv'
<1>1. /\ pc' = "batch" /\ msgs' = m /\ stack' = <<>> /\ messageCount' = 0 /\ firstOffset' = 0
      /\ position' = offset /\ err' = e /\ log' = log /\ head' = head /\ end' = end
      /\ fetchVersion' = fetchVersion /\ room' = room /\ api' = api /\ offset' = offset
      /\ netOpen' = netOpen /\ seek' = seek /\ saved' = saved /\ got' = got /\ want' = want
  BY OpenedFrame, Zenon
<1>2. <<>> \in Seq(Readers) /\ 0 \in Int
  OBVIOUS
<1>3. BatchTypeOK'
  BY <1>1, <1>2, Zenon DEF BatchTypeOK
<1>4. /\ "batch" \notin {"idle", "first", "last", "fetch"} /\ "batch" # "fetch" /\ "batch" # "read"
      /\ "batch" \notin {"first", "last", "fetch"} /\ "batch" \notin {"first", "last"}
  BY Zenon
<1>5. Same(log, offset, want) /\ offset <= offset
  <2>1. offset \in Int
    BY Zenon DEF BatchTypeOK
  <2>2. offset <= offset
    BY ONLY <2>1
  <2> QED
    BY <2>2, FetchNow, Zenon
<1>6. Opening'
  BY <1>1, <1>4, Zenon DEF Opening
<1>7. Aligned'
  BY ONLY <1>1, <1>4, <1>5, Zenon DEF Aligned
<1>8. Tracking'
  BY <1>1, Zenon DEF Tracking
<1> QED
  BY Zenon, <1>3, <1>6, <1>7, <1>8 DEF BatchInv

\* Batches that begin with one that is whole.
LEMMA PiecesWhole ==
  ASSUME NEW s, NEW l, NEW v, NEW o, NEW m, NEW i,
         \A j \in 1 .. Len(s) : /\ i + j - 1 \in 1 .. Len(l)
                                /\ Piece(s[j], Encode(l[i + j - 1], v), 0),
         \A j \in 1 .. Len(s) : m = "v2" /\ Cut(s[j]) => o < l[i + j - 1].base
  PROVE  Pieces(s, l, v, o, m, i, 0)
<1>1. ASSUME NEW j \in 1 .. Len(s)
      PROVE  /\ i + j - 1 \in 1 .. Len(l)
             /\ Piece(s[j], Encode(l[i + j - 1], v), IF j = 1 THEN 0 ELSE 0)
             /\ m = "v2" /\ Cut(s[j]) => o < l[i + j - 1].base
  <2>1. (IF j = 1 THEN 0 ELSE 0) = 0
    BY Zenon
  <2> QED
    BY <2>1, Zenon
<1> QED
  BY ONLY <1>1, Zenon DEF Pieces

\* A response begins with the first message that the program has not been given.
LEMMA FetchTracked ==
  ASSUME BatchTypeOK, BatchInv, pc = "fetch", LogStart <= offset,
         NEW i \in head .. end, First(i, offset), stream' \in Responses(i),
         NEW m \in {"v1", "v2"}, Opened(m, "nil"), stream'[1][1].t # "stub",
         m = "v2" => stream'[1][1].t \in {"head", "packed"}
  PROVE  Tracked'
<1>1. /\ msgs' = m /\ stack' = <<>> /\ messageCount' = 0
      /\ position' = offset /\ log' = log /\ want' = want
      /\ fetchVersion' = fetchVersion /\ offset' = offset
  BY OpenedFrame, Zenon
<1>2. /\ log \in Logs /\ Len(log) \in Nat /\ offset \in Int /\ want \in Int
      /\ end \in 1 .. Len(log) /\ head \in 1 .. end + 1
  BY Zenon, LogTypes DEF BatchTypeOK
<1>3. /\ i \in 1 .. Len(log) /\ stream' \in Seq(Seq(Tokens)) /\ stream' # <<>>
      /\ \A j \in 1 .. Len(stream') :
           /\ i + j - 1 \in 1 .. Len(log)
           /\ Piece(stream'[j], Encode(log[i + j - 1], fetchVersion), 0)
      /\ m = "v2" => ~Cut(stream'[1])
  <2> DEFINE data == stream'
  <2>1. data \in Responses(i) /\ data[1][1].t # "stub"
    BY Zenon
  <2>2. m = "v2" => data[1][1].t \in {"head", "packed"}
    BY Zenon
  <2> HIDE DEF data
  <2>3. /\ i \in 1 .. Len(log) /\ data \in Seq(Seq(Tokens)) /\ data # <<>>
        /\ data[1][1].t # "stub" =>
             \A j \in 1 .. Len(data) : /\ i + j - 1 \in 1 .. Len(log)
                                       /\ Piece(data[j], Encode(log[i + j - 1], fetchVersion), 0)
        /\ data[1][1].t \in {"head", "packed"} => ~Cut(data[1])
    BY <2>1, Response, Zenon
  <2> QED
    BY ONLY <2>1, <2>2, <2>3, Zenon DEF data
<1>4. offset <= log[i].last /\ \A j \in head .. i - 1 : log[j].last < offset
  <2>1. log[i].last >= offset /\ \A j \in head .. i - 1 : log[j].last < offset
    BY Zenon DEF First
  <2>2. log[i].last \in Int
    BY <1>2, <1>3, LogTypes, Zenon
  <2>3. offset <= log[i].last
    BY ONLY Zenon, <1>2, <2>1, <2>2
  <2> QED
    BY Zenon, <2>1, <2>3
<1>5. \A a \in 1 .. Len(log) : a < i => log[a].last < offset
  <2>1. SUFFICES ASSUME NEW a \in 1 .. Len(log), a < i PROVE log[a].last < offset
    BY Zenon
  <2>2. CASE head <= a
    <3>1. a \in head .. i - 1
      BY ONLY <1>2, <1>3, <2>1, <2>2
    <3> QED
      BY <1>4, <3>1, Zenon
  <2>3. CASE a < head
    <3>1. head # 1 /\ head - 1 \in 1 .. Len(log) /\ (a < head - 1 \/ a = head - 1)
      BY ONLY <1>2, <1>3, <2>1, <2>3
    <3>2. log[head - 1].last + 1 <= offset
      BY <3>1, Zenon DEF LogStart
    <3>3. \A j \in 1 .. Len(log) : /\ log[j].last \in Int /\ log[j].base \in Int
                                   /\ log[j].base <= log[j].last
      <4>1. \A j \in 1 .. Len(log) : /\ 1 \in 1 .. Len(log[j].offsets)
                                     /\ log[j].base <= log[j].offsets[1]
                                     /\ log[j].offsets[1] <= log[j].last
        <5>1. \A j \in 1 .. Len(log) : 1 \in 1 .. Len(log[j].offsets)
          <6>1. \A x \in Nat \ {0} : 1 \in 1 .. x
            OBVIOUS
          <6> QED
            BY <1>2, <6>1, LogEntries, Zenon
        <5> QED
          BY <1>2, <5>1, LogEntries, Zenon
      <4>2. \A x, y, z \in Int : x <= y /\ y <= z => x <= z
        OBVIOUS
      <4> QED
        BY <1>2, <4>1, <4>2, LogTypes, Zenon
    <3>4. a < head - 1 => log[a].last < log[head - 1].base
      BY <1>2, <2>1, <3>1, LogEntries, Zenon
    <3> QED
      <4>1. /\ log[a].last \in Int /\ log[head - 1].last \in Int /\ log[head - 1].base \in Int
            /\ log[head - 1].base <= log[head - 1].last
        BY ONLY <2>1, <3>1, <3>3, Zenon
      <4>2. a = head - 1 => log[a].last = log[head - 1].last
        BY Zenon
      <4> QED
        BY ONLY SMTT(40), <1>2, <3>1, <3>2, <3>4, <4>1, <4>2
  <2> QED
    BY ONLY <1>2, <2>1, <2>2, <2>3
<1>6. Behind(log, offset, i, 0)
  <2>1. SUFFICES ASSUME NEW a \in 1 .. Len(log), NEW b \in 1 .. Len(log[a].offsets),
                        a < i \/ (a = i /\ b <= 0)
                 PROVE  log[a].offsets[b] < offset
    BY Zenon DEF Behind
  <2>2. log[a].offsets[b] <= log[a].last
    BY <1>2, LogEntries, Zenon
  <2>3. log[a].offsets[b] \in Int /\ log[a].last \in Int /\ Len(log[a].offsets) \in Nat
    BY <1>2, LogTypes, Zenon
  <2>4. a < i
    BY ONLY <2>1, <2>3, b \in 1 .. Len(log[a].offsets)
  <2>5. log[a].last < offset
    BY Zenon, <1>5, <2>4
  <2> QED
    BY ONLY <1>2, <2>2, <2>3, <2>5
<1>7. Same(log, offset, want)
  BY FetchNow, Zenon
<1>8. /\ Behind(log, want, i, 0) /\ Ahead(log, offset, want, i, 0) /\ Ahead(log, want, offset, i, 0)
  BY <1>2, <1>6, <1>7, SameMessages, Zenon
<1>9. Ahead(log, offset, offset, i, 0)
  BY ONLY Zenon DEF Ahead
<1>10. Tracks(i, 0)'
  BY ONLY <1>1, <1>4, <1>6, <1>8, <1>9, Zenon DEF Tracks
<1>11. Pieces(stream', log, fetchVersion, offset, m, i, 0)
  <2>1. ASSUME NEW j \in 1 .. Len(stream'), m = "v2", Cut(stream'[j])
        PROVE  offset < log[i + j - 1].base
    <3>1. j # 1
      BY ONLY <1>3, <2>1, Zenon
    <3>2. i < i + j - 1 /\ i + j - 1 \in 1 .. Len(log)
      BY <1>3, <3>1
    <3>3. log[i].last < log[i + j - 1].base
      BY <1>2, <1>3, <3>2, LogEntries, Zenon
    <3>4. log[i].last \in Int /\ log[i + j - 1].base \in Int
      BY <1>2, <1>3, <3>2, LogTypes, Zenon
    <3> QED
      BY ONLY SMTT(40), <1>2, <1>4, <3>3, <3>4
  <2> QED
    BY ONLY <1>3, <2>1, PiecesWhole, Zenon
<1>12. OnStream(i, 0)'
  <2>1. ~(0 > 0)
    OBVIOUS
  <2> QED
    BY ONLY <1>1, <1>3, <1>11, <2>1, Zenon DEF OnStream
<1>13. At(i, 0)'
  <2>1. Messages1(0)' = 0 /\ 0 \in 0 .. 0 + 1
    BY DEF Messages1
  <2> QED
    BY ONLY <1>12, <2>1, Zenon DEF At
<1>14. i \in 1 .. Len(log') + 1 /\ 0 \in 0 .. Count(i)'
  <2>1. \A j \in 1 .. Len(log) : Len(log[j].offsets) \in Nat
    BY <1>2, LogTypes, Zenon
  <2>2. i \in 1 .. Len(log) + 1 /\ 0 \in 0 .. Count(i)
    BY <1>2, <1>3, <2>1 DEF Count
  <2> QED
    BY ONLY <1>1, <2>2, Zenon DEF Count
<1> QED
  BY ONLY <1>10, <1>13, <1>14, Zenon DEF Tracked

LEMMA FetchStep ==
  ASSUME BatchTypeOK, BatchInv, fetching
  PROVE  BatchTypeOK' /\ BatchInv'
<1>1. CASE FetchError
  <2>1. /\ pc = "fetch" /\ Opened("none", "Kafka")
        /\ stream' = IF fetchVersion = 5 THEN <<<<Token("rest", 0, <<>>)>>>> ELSE <<>>
    BY <1>1, Zenon DEF FetchError
  <2>2. Token("rest", 0, <<>>) \in Tokens
    BY DEF Token, Tokens, Tags
  <2>3. <<>> \in Seq(Seq(Tokens)) /\ <<<<Token("rest", 0, <<>>)>>>> \in Seq(Seq(Tokens))
    BY ONLY <2>2
  <2>4. stream' \in Seq(Seq(Tokens))
    BY ONLY Zenon, <2>1, <2>3
  <2>5. "none" \in {"none", "empty", "v1", "v2"} /\ "Kafka" \in {"Kafka", "failed"} /\ "Kafka" # "nil"
    BY Zenon
  <2> QED
    BY <2>1, <2>4, <2>5, OpenedStep, Zenon
<1>2. CASE FetchEmpty
  <2>1. pc = "fetch" /\ Opened("empty", "nil") /\ stream' = stream
    BY <1>2, Zenon DEF FetchEmpty
  <2>2. stream' \in Seq(Seq(Tokens))
    BY <2>1, Zenon DEF BatchTypeOK
  <2>3. "empty" \in {"none", "empty", "v1", "v2"} /\ "empty" # "none" /\ "empty" \notin {"v1", "v2"}
    BY Zenon
  <2> QED
    BY <2>1, <2>2, <2>3, OpenedStep, Zenon
<1>3. CASE FetchData
  <2>1. pc = "fetch" /\ LogStart <= offset
    BY <1>3, Zenon DEF FetchData
  <2>2. PICK i \in head .. end :
          /\ First(i, offset) /\ stream' \in Responses(i)
          /\ \/ /\ stream'[1][1].t = "stub"
                /\ \E e \in TimeoutErrors : Opened("none", IF e = "EOF" THEN "failed" ELSE e)
             \/ stream'[1][1].t \in {"head", "packed"} /\ Opened("v2", "nil")
             \/ stream'[1][1].t \notin {"stub", "head", "packed"} /\ Opened("v1", "nil")
    BY Zenon, <1>3 DEF FetchData
  <2>3. stream' \in Seq(Seq(Tokens))
    BY <2>2, Response, Zenon
  <2>4. ASSUME NEW e \in TimeoutErrors, Opened("none", IF e = "EOF" THEN "failed" ELSE e)
        PROVE  BatchTypeOK' /\ BatchInv'
    <3> DEFINE x == IF e = "EOF" THEN "failed" ELSE e
    <3>1. x \in {"Kafka", "failed"} /\ x # "nil" /\ "none" \in {"none", "empty", "v1", "v2"}
      BY Zenon DEF TimeoutErrors
    <3>2. Opened("none", x)
      BY Zenon, <2>4
    <3> HIDE DEF x
    <3> QED
      BY <2>1, <2>3, <3>1, <3>2, OpenedStep, Zenon
  <2>5. ASSUME NEW m \in {"v1", "v2"}, Opened(m, "nil"), stream'[1][1].t # "stub",
               m = "v2" => stream'[1][1].t \in {"head", "packed"}
        PROVE  BatchTypeOK' /\ BatchInv'
    <3>1. Tracked'
      BY <2>1, <2>2, <2>5, FetchTracked, Zenon
    <3>2. m \in {"none", "empty", "v1", "v2"} /\ m # "none"
      BY Zenon
    <3> QED
      BY <2>1, <2>3, <2>5, <3>1, <3>2, OpenedStep, Zenon
  <2>6. "v1" \in {"v1", "v2"} /\ "v2" \in {"v1", "v2"} /\ "v1" # "v2"
    BY Zenon
  <2>7. stream'[1][1].t \in {"head", "packed"} => stream'[1][1].t # "stub"
    BY Zenon
  <2>8. stream'[1][1].t \notin {"stub", "head", "packed"} => stream'[1][1].t # "stub"
    BY Zenon
  <2> QED
    BY ONLY <2>2, <2>4, <2>5, <2>6, <2>7, <2>8, Zenon
<1> QED
  BY <1>1, <1>2, <1>3, Zenon DEF fetching

-----------------------------------------------------------------------------
(* The other steps. *)

LEMMA TrackedSame ==
  ASSUME Tracked, UNCHANGED <<log, fetchVersion, api, offset, stream, reader, position, want>>
  PROVE  Tracked'
<1>1. /\ log' = log /\ fetchVersion' = fetchVersion /\ api' = api
      /\ offset' = offset /\ stream' = stream /\ position' = position /\ want' = want
      /\ msgs' = msgs /\ stack' = stack /\ messageCount' = messageCount /\ firstOffset' = firstOffset
  BY Zenon DEF reader
<1>2. PICK i \in 1 .. Len(log) + 1 : \E k \in 0 .. Count(i) : At(i, k) /\ Tracks(i, k)
  BY Zenon DEF Tracked
<1>3. PICK k \in 0 .. Count(i) : At(i, k) /\ Tracks(i, k)
  BY <1>2, Zenon
<1>4. Count(i)' = Count(i)
  BY <1>1, Zenon DEF Count
<1>5. Tracks(i, k)'
  BY ONLY <1>1, <1>3, Zenon DEF Tracks
<1>6. OnStack(i, k) => OnStack(i, k)'
  BY ONLY Zenon, <1>1 DEF OnStack
<1>7. ASSUME NEW d PROVE OnStream(i, d) /\ k = Messages1(d) => OnStream(i, d)' /\ k = Messages1(d)'
  BY ONLY <1>1, Zenon DEF OnStream, Messages1
<1>8. At(i, k)'
  BY ONLY <1>3, <1>6, <1>7, Zenon DEF At
<1> QED
  BY <1>1, <1>2, <1>3, <1>4, <1>5, <1>8, Zenon DEF Tracked

\* What is published and deleted is not part of the invariant.
LEMMA BatchInvSame ==
  ASSUME BatchInv,
         UNCHANGED <<log, fetchVersion, api, conn, pc, seek, reader, position, err, saved, want>>
  PROVE  BatchInv'
<1>1. /\ log' = log /\ fetchVersion' = fetchVersion /\ api' = api
      /\ offset' = offset /\ netOpen' = netOpen /\ stream' = stream /\ pc' = pc /\ seek' = seek
      /\ msgs' = msgs /\ stack' = stack /\ position' = position /\ err' = err /\ saved' = saved
      /\ want' = want /\ UNCHANGED reader
  BY Zenon DEF conn, reader
<1>2. Opening' /\ Aligned'
  BY <1>1, Zenon DEF BatchInv, Opening, Aligned
<1>3. Tracking'
  BY <1>1, TrackedSame, Zenon DEF BatchInv, Tracking
<1> QED
  BY Zenon, <1>2, <1>3 DEF BatchInv

\* A step without a Batch.
LEMMA IdleStep ==
  ASSUME BatchInv, pc' \in {"idle", "first", "last", "fetch"},
         log' = log, msgs' = "empty" => stack' = <<>>,
         pc' \in {"first", "last", "fetch"} => netOpen',
         pc' \in {"first", "last"} => seek'.first >= 0,
         netOpen' /\ offset' # FirstOffset => Same(log, offset', want'),
         pc' = "fetch" => offset' # FirstOffset
  PROVE  BatchInv'
<1>1. pc' \notin {"batch", "read"} /\ pc' # "batch" /\ pc' # "read"
  BY Zenon
<1>2. Opening'
  BY <1>1, Zenon DEF Opening
<1>3. Aligned'
  BY <1>1, Zenon DEF Aligned
<1>4. Tracking'
  BY <1>1, Zenon DEF Tracking
<1> QED
  BY Zenon, <1>2, <1>3, <1>4 DEF BatchInv

\* What holds of the Conn between calls.
LEMMA IdleNow ==
  ASSUME BatchInv, pc \in {"idle", "first", "last"}, netOpen, offset # FirstOffset
  PROVE  Same(log, offset, want)
<1>1. pc \in {"idle", "first", "last", "fetch"}
  BY Zenon
<1> QED
  BY <1>1, Zenon DEF BatchInv, Aligned

\* A step of Seek or between calls that may only change the seek.
LEMMA SeekTo ==
  ASSUME BatchTypeOK, BatchInv, pc \in {"idle", "first", "last"}, netOpen,
         UNCHANGED <<partition, config, conn, reader, batch>>, want' = want,
         pc' \in {"idle", "first", "last", "fetch"}, pc' = "fetch" => offset # FirstOffset,
         pc' \in {"first", "last"} => seek'.first >= 0,
         seek' \in [to : Int, whence : {"start", "absolute", "end", "current"},
                    for : {"idle", "fetch"}, first : Int]
  PROVE  BatchTypeOK' /\ BatchInv'
<1>1. /\ log' = log /\ head' = head /\ end' = end /\ fetchVersion' = fetchVersion /\ room' = room
      /\ api' = api /\ offset' = offset /\ netOpen' = netOpen /\ stream' = stream
      /\ msgs' = msgs /\ stack' = stack /\ messageCount' = messageCount /\ firstOffset' = firstOffset
      /\ position' = position /\ err' = err /\ saved' = saved
  BY Zenon DEF partition, config, conn, reader, batch
<1>2. BatchTypeOK'
  BY <1>1, Zenon DEF BatchTypeOK
<1>3. msgs' = "empty" => stack' = <<>>
  BY <1>1, Zenon DEF BatchInv, Opening
<1>4. netOpen' /\ offset' # FirstOffset => Same(log, offset', want')
  BY <1>1, IdleNow, Zenon
<1> QED
  BY <1>1, <1>2, <1>3, <1>4, IdleStep, Zenon

\* Conn.Seek and ReadBatchWith begin a seek.
LEMMA BeginStep ==
  ASSUME BatchTypeOK, BatchInv, pc \in {"idle", "first", "last"}, netOpen,
         UNCHANGED <<partition, config, conn, reader, batch>>, want' = want,
         NEW to \in Int, NEW whence \in {"start", "absolute", "end", "current"},
         NEW for \in {"idle", "fetch"}, BeginSeek(to, whence, for)
  PROVE  BatchTypeOK' /\ BatchInv'
<1>1. /\ pc' = "first"
      /\ seek' = [to |-> IF whence = "current" THEN offset + to ELSE to,
                  whence |-> whence, for |-> for, first |-> 0]
  BY Zenon DEF BeginSeek
<1>2. (IF whence = "current" THEN offset + to ELSE to) \in Int
  BY DEF BatchTypeOK
<1>3. /\ seek'.first >= 0
      /\ seek' \in [to : Int, whence : {"start", "absolute", "end", "current"},
                    for : {"idle", "fetch"}, first : Int]
  BY ONLY <1>1, <1>2, whence \in {"start", "absolute", "end", "current"}, for \in {"idle", "fetch"}
<1>4. "first" \in {"idle", "first", "last", "fetch"} /\ "first" # "fetch"
  BY Zenon
<1> QED
  BY <1>1, <1>3, <1>4, SeekTo, Zenon

LEMMA SeekStep ==
  ASSUME BatchTypeOK, BatchInv, NEW s \in Seeks, Seek(s[1], s[2])
  PROVE  BatchTypeOK' /\ BatchInv'
<1>1. s[1] \in Int /\ s[2] \in {"start", "absolute", "end", "current"}
  BY Zenon, BatchAssumption DEF BatchAssumption
<1>2. /\ pc = "idle" /\ netOpen /\ UNCHANGED <<partition, config, conn, reader, batch>>
      /\ IF s[2] = "absolute" /\ s[1] = offset
           THEN want' = s[1] /\ pc' = pc /\ seek' = seek
           ELSE BeginSeek(s[1], s[2], "idle") /\ want' = want
  BY Zenon DEF Seek, Usable
<1>3. "idle" \in {"idle", "first", "last"} /\ "idle" \in {"idle", "fetch"}
  BY Zenon
<1>4. CASE s[2] = "absolute" /\ s[1] = offset
  <2>1. /\ log' = log /\ head' = head /\ end' = end /\ fetchVersion' = fetchVersion /\ room' = room
        /\ api' = api /\ offset' = offset /\ netOpen' = netOpen /\ stream' = stream
        /\ msgs' = msgs /\ stack' = stack /\ messageCount' = messageCount /\ firstOffset' = firstOffset
        /\ position' = position /\ err' = err /\ saved' = saved
    BY Zenon, <1>2 DEF partition, config, conn, reader, batch
  <2>2. want' = offset /\ pc' = "idle" /\ seek' = seek
    BY <1>2, <1>4, Zenon
  <2>3. BatchTypeOK'
    BY <2>1, <2>2, Zenon DEF BatchTypeOK
  <2>4. Same(log, offset', want')
    BY ONLY <2>1, <2>2, Zenon DEF Same
  <2>5. msgs' = "empty" => stack' = <<>>
    BY <2>1, Zenon DEF BatchInv, Opening
  <2>6. /\ "idle" \in {"idle", "first", "last", "fetch"} /\ "idle" # "fetch"
        /\ "idle" \notin {"first", "last"} /\ "idle" \notin {"first", "last", "fetch"}
    BY Zenon
  <2> QED
    BY <2>1, <2>2, <2>3, <2>4, <2>5, <2>6, IdleStep, Zenon
<1>5. CASE ~(s[2] = "absolute" /\ s[1] = offset)
  <2>1. BeginSeek(s[1], s[2], "idle") /\ want' = want
    BY <1>2, <1>5, Zenon
  <2> QED
    BY <1>1, <1>2, <1>3, <2>1, BeginStep, Zenon
<1> QED
  BY <1>4, <1>5, Zenon

LEMMA BetweenStep ==
  ASSUME BatchTypeOK, BatchInv, SeekToStart \/ ReadBatch
  PROVE  BatchTypeOK' /\ BatchInv'
<1>1. /\ pc = "idle" /\ netOpen /\ UNCHANGED <<partition, config, conn, reader, batch>> /\ want' = want
      /\ \/ BeginSeek(0, "start", "idle") \/ BeginSeek(0, "start", "fetch")
         \/ offset # FirstOffset /\ pc' = "fetch" /\ seek' = seek
  BY Zenon DEF SeekToStart, ReadBatch, Usable, history
<1>2. /\ pc \in {"idle", "first", "last"} /\ 0 \in Int /\ "start" \in {"start", "absolute", "end", "current"}
      /\ "idle" \in {"idle", "fetch"} /\ "fetch" \in {"idle", "fetch"}
  BY <1>1
<1>3. CASE BeginSeek(0, "start", "idle") \/ BeginSeek(0, "start", "fetch")
  BY <1>1, <1>2, <1>3, BeginStep, Zenon
<1>4. CASE offset # FirstOffset /\ pc' = "fetch" /\ seek' = seek
  <2>1. "fetch" \in {"idle", "first", "last", "fetch"} /\ "fetch" \notin {"first", "last"}
    BY Zenon
  <2>2. seek' \in [to : Int, whence : {"start", "absolute", "end", "current"},
                   for : {"idle", "fetch"}, first : Int]
    BY <1>4, Zenon DEF BatchTypeOK
  <2> QED
    BY <1>1, <1>2, <1>4, <2>1, <2>2, SeekTo, Zenon
<1> QED
  BY <1>1, <1>3, <1>4, Zenon

LEMMA FirstStep ==
  ASSUME BatchTypeOK, BatchInv, ReadFirstOffset
  PROVE  BatchTypeOK' /\ BatchInv'
<1>1. /\ pc = "first" /\ pc' = "last" /\ seek' = [seek EXCEPT !.first = LogStart]
      /\ UNCHANGED <<partition, config, conn, reader, batch>> /\ want' = want
  BY Zenon DEF ReadFirstOffset, history
<1>2. netOpen
  BY Zenon, <1>1 DEF BatchInv, Opening
<1>3. LogStart \in Nat
  <2>1. /\ log \in Logs /\ end \in 1 .. Len(log) /\ head \in 1 .. end + 1
    BY Zenon DEF BatchTypeOK
  <2>2. Len(log) \in Nat /\ \A j \in 1 .. Len(log) : log[j].base \in Nat /\ log[j].last \in Nat
    BY <2>1, LogEntries, Zenon
  <2>3. 1 \in 1 .. Len(log) /\ (head # 1 => head - 1 \in 1 .. Len(log))
    BY ONLY <2>1, <2>2
  <2>4. log[1].base \in Nat /\ (head # 1 => log[head - 1].last \in Nat)
    BY ONLY <2>2, <2>3, Zenon
  <2>5. head # 1 => log[head - 1].last + 1 \in Nat
    BY ONLY <2>4
  <2> QED
    BY ONLY <2>4, <2>5, Zenon DEF LogStart
<1>4. seek' \in [to : Int, whence : {"start", "absolute", "end", "current"},
                 for : {"idle", "fetch"}, first : Int] /\ seek'.first >= 0
  <2>1. seek \in [to : Int, whence : {"start", "absolute", "end", "current"},
                  for : {"idle", "fetch"}, first : Int]
    BY Zenon DEF BatchTypeOK
  <2> QED
    BY ONLY <1>1, <1>3, <2>1
<1>5. /\ pc \in {"idle", "first", "last"} /\ "last" \in {"idle", "first", "last", "fetch"}
      /\ "last" # "fetch"
  BY Zenon, <1>1
<1> QED
  BY <1>1, <1>2, <1>4, <1>5, SeekTo, Zenon

LEMMA ReturnStep ==
  ASSUME BatchTypeOK, BatchInv, SeekReturn
  PROVE  BatchTypeOK' /\ BatchInv'
<1> DEFINE to == Target(HighWaterMark)
<1>1. /\ pc = "last" /\ seek' = NoSeek
      /\ log' = log /\ head' = head /\ end' = end /\ fetchVersion' = fetchVersion /\ room' = room
      /\ api' = api /\ netOpen' = netOpen /\ stream' = stream
      /\ msgs' = msgs /\ stack' = stack /\ messageCount' = messageCount /\ firstOffset' = firstOffset
      /\ position' = position /\ err' = err /\ saved' = saved
  BY Zenon DEF SeekReturn, partition, config, conn, reader, batch
<1>2. IF to < seek.first \/ to > HighWaterMark
        THEN pc' = "idle" /\ offset' = offset /\ want' = IF offset = FirstOffset THEN FirstOffset ELSE want
        ELSE pc' = seek.for /\ offset' = to /\ want' = Sought(HighWaterMark)
  BY Zenon DEF SeekReturn
<1>3. netOpen /\ seek.first >= 0
  BY Zenon, <1>1 DEF BatchInv, Opening
<1>4. /\ seek.to \in Int /\ seek.whence \in {"start", "absolute", "end", "current"}
      /\ seek.for \in {"idle", "fetch"} /\ seek.first \in Int
      /\ offset \in Int /\ want \in Int /\ FirstOffset \in Int /\ FirstOffset < 0
  BY DEF BatchTypeOK, FirstOffset
<1>5. HighWaterMark \in Int
  <2>1. log \in Logs /\ end \in 1 .. Len(log)
    BY Zenon DEF BatchTypeOK
  <2>2. log[end].last \in Int
    BY <2>1, LogTypes, Zenon
  <2> QED
    BY ONLY <2>2 DEF HighWaterMark
<1>6. to \in Int /\ Sought(HighWaterMark) = to
  BY ONLY <1>4, <1>5 DEF Target, Sought
<1> HIDE DEF to
<1>7. NoSeek \in [to : Int, whence : {"start", "absolute", "end", "current"},
                  for : {"idle", "fetch"}, first : Int]
  BY DEF NoSeek
<1>8. msgs' = "empty" => stack' = <<>>
  BY <1>1, Zenon DEF BatchInv, Opening
<1>9. /\ offset' \in Int /\ want' \in Int
      /\ pc' \in {"idle", "fetch"} /\ (pc' = "fetch" => offset' # FirstOffset)
      /\ \/ offset' = offset /\ (offset # FirstOffset => want' = want)
         \/ offset' = want'
  BY ONLY <1>2, <1>3, <1>4, <1>5, <1>6
<1>10. netOpen' /\ offset' # FirstOffset => Same(log, offset', want')
  <2>1. offset # FirstOffset => Same(log, offset, want)
    <3>1. pc \in {"idle", "first", "last"}
      BY Zenon, <1>1
    <3> QED
      BY <1>3, <3>1, IdleNow, Zenon
  <2>2. Same(log, offset', offset')
    BY ONLY Zenon DEF Same
  <2> QED
    BY ONLY <1>9, <2>1, <2>2, Zenon
<1>11. BatchTypeOK'
  BY <1>1, <1>7, <1>9, Zenon DEF BatchTypeOK
<1>12. /\ pc' \in {"idle", "first", "last", "fetch"} /\ pc' \notin {"first", "last"}
  BY ONLY Zenon, <1>9
<1> QED
  BY <1>1, <1>3, <1>8, <1>9, <1>10, <1>11, <1>12, IdleStep, Zenon

\* A request fails; the program dials again.
LEMMA LifeStep ==
  ASSUME BatchTypeOK, BatchInv, RequestBreaks \/ Redial
  PROVE  BatchTypeOK' /\ BatchInv'
<1>1. /\ log' = log /\ head' = head /\ end' = end /\ fetchVersion' = fetchVersion /\ room' = room
      /\ api' = api /\ stream' = stream /\ want' = want
      /\ msgs' = msgs /\ stack' = stack /\ messageCount' = messageCount /\ firstOffset' = firstOffset
      /\ position' = position /\ err' = err /\ saved' = saved
  BY Zenon DEF RequestBreaks, Redial, partition, config, reader, batch, history
<1>2. \/ pc' = "idle" /\ ~netOpen' /\ offset' = offset /\ seek' = seek
      \/ /\ netOpen' /\ offset' = FirstOffset
         /\ \/ pc' = "idle" /\ seek' = seek
            \/ pc' = "first" /\ seek' = [to |-> want, whence |-> "absolute", for |-> "idle", first |-> 0]
  BY Zenon DEF RequestBreaks, Redial
<1>3. [to |-> want, whence |-> "absolute", for |-> "idle", first |-> 0]
        \in [to : Int, whence : {"start", "absolute", "end", "current"},
             for : {"idle", "fetch"}, first : Int]
  BY DEF BatchTypeOK
<1>4. offset \in Int /\ FirstOffset \in Int
  BY DEF BatchTypeOK, FirstOffset
<1>5. seek' \in [to : Int, whence : {"start", "absolute", "end", "current"},
                 for : {"idle", "fetch"}, first : Int] /\ offset' \in Int
  BY <1>2, <1>3, <1>4, Zenon DEF BatchTypeOK
<1>6. BatchTypeOK'
  BY <1>1, <1>5, Zenon DEF BatchTypeOK
<1>7. /\ pc' \in {"idle", "first", "last", "fetch"} /\ pc' # "fetch"
      /\ pc' \in {"first", "last", "fetch"} => netOpen'
      /\ pc' \in {"first", "last"} => seek'.first >= 0
      /\ ~(netOpen' /\ offset' # FirstOffset)
  BY ONLY <1>2
<1>8. msgs' = "empty" => stack' = <<>>
  BY <1>1, Zenon DEF BatchInv, Opening
<1> QED
  BY <1>1, <1>6, <1>7, <1>8, IdleStep, Zenon

LEMMA PartitionStep ==
  ASSUME BatchTypeOK, BatchInv, Publish \/ Delete
  PROVE  BatchTypeOK' /\ BatchInv'
<1>1. /\ log' = log /\ fetchVersion' = fetchVersion /\ room' = room /\ api' = api
      /\ offset' = offset /\ stream' = stream /\ seek' = seek
      /\ msgs' = msgs /\ stack' = stack /\ messageCount' = messageCount /\ firstOffset' = firstOffset
      /\ position' = position /\ err' = err /\ saved' = saved /\ want' = want
      /\ UNCHANGED <<log, fetchVersion, api, conn, pc, seek, reader, position, err, saved, want>>
      /\ \/ end < Len(log) /\ end' = end + 1 /\ head' = head
         \/ head <= end /\ head' = head + 1 /\ end' = end
  BY Zenon DEF Publish, Delete, config, conn, reader, batch, history
<1>2. end' \in 1 .. Len(log') /\ head' \in 1 .. end' + 1
  <2>1. log \in Logs /\ end \in 1 .. Len(log) /\ head \in 1 .. end + 1
    BY Zenon DEF BatchTypeOK
  <2>2. Len(log) \in Nat
    BY <2>1, LogTypes, Zenon
  <2> QED
    BY ONLY <1>1, <2>1, <2>2
<1>3. BatchTypeOK'
  BY <1>1, <1>2, Zenon DEF BatchTypeOK
<1>4. BatchInv'
  BY <1>1, BatchInvSame, Zenon
<1> QED
  BY Zenon, <1>3, <1>4

LEMMA CallStep ==
  ASSUME BatchTypeOK, BatchInv, CallRead
  PROVE  BatchTypeOK' /\ BatchInv'
<1>1. /\ pc = "batch" /\ err = "nil" /\ pc' = "read" /\ saved' = position
      /\ log' = log /\ head' = head /\ end' = end /\ fetchVersion' = fetchVersion /\ room' = room
      /\ api' = api /\ offset' = offset /\ netOpen' = netOpen /\ stream' = stream /\ seek' = seek
      /\ msgs' = msgs /\ stack' = stack /\ messageCount' = messageCount /\ firstOffset' = firstOffset
      /\ position' = position /\ err' = err /\ want' = want /\ UNCHANGED reader
  BY Zenon DEF CallRead, partition, config, conn, reader
<1>2. BatchTypeOK'
  BY <1>1, Zenon DEF BatchTypeOK
<1>3. /\ "batch" \in {"batch", "read"} /\ "nil" \notin {"Kafka", "failed"} /\ "nil" # "failed"
      /\ "read" \notin {"first", "last", "fetch"} /\ "read" \notin {"first", "last"}
      /\ "read" \notin {"idle", "first", "last", "fetch"} /\ "read" # "fetch" /\ "read" # "batch"
  BY Zenon
<1>4. Opening'
  BY <1>1, <1>3, Zenon DEF BatchInv, Opening
<1>5. Aligned'
  BY <1>1, <1>3, Zenon DEF BatchInv, Aligned
<1>6. Tracking'
  BY <1>1, <1>3, TrackedSame, Zenon DEF BatchInv, Tracking
<1> QED
  BY Zenon, <1>2, <1>4, <1>5, <1>6 DEF BatchInv

LEMMA BrokenStep ==
  ASSUME BatchTypeOK, BatchInv, ReadBreaks \/ UnsupportedV1 \/ BigV2
  PROVE  BatchTypeOK' /\ BatchInv' /\ got' = got
<1>1. /\ pc = "read" /\ pc' = "batch" /\ err' = "failed" /\ msgs # "empty" /\ got' = got
      /\ log' = log /\ head' = head /\ end' = end /\ fetchVersion' = fetchVersion /\ room' = room
      /\ api' = api /\ offset' = offset /\ stream' = stream /\ seek' = seek
      /\ msgs' = msgs /\ stack' = stack /\ messageCount' = messageCount /\ firstOffset' = firstOffset
      /\ position' = position /\ saved' = saved /\ want' = want
  BY Zenon DEF ReadBreaks, UnsupportedV1, BigV2, Reading, Fail, partition, config
<1>2. BatchTypeOK'
  BY <1>1, Zenon DEF BatchTypeOK
<1> QED
  BY Zenon, <1>1, <1>2, FailStep

LEMMA PastStep ==
  ASSUME BatchTypeOK, BatchInv, ReadPastV2
  PROVE  BatchTypeOK' /\ BatchInv'
<1>1. /\ Reading /\ msgs = "v2" /\ stream' = <<>>
      /\ stack' = stack /\ messageCount' = messageCount /\ firstOffset' = firstOffset
      /\ position' = position /\ want' = want
      /\ (pc' = "batch" /\ err' = "failed") \/ (pc' = "hangs")
  BY Zenon DEF ReadPastV2
<1>2. /\ pc = "read" /\ log' = log /\ api' = api /\ offset' = offset /\ msgs' = msgs /\ saved' = saved
  BY Zenon, <1>1, ReadingFrame
<1>3. BatchTypeOK'
  <2>1. /\ <<>> \in Seq(Seq(Tokens)) /\ stack \in Seq(Readers) /\ position \in Int /\ want \in Int
        /\ messageCount \in Int /\ firstOffset \in Int
    BY DEF BatchTypeOK
  <2> QED
    BY <1>1, <2>1, ReadingType, Zenon
<1>4. CASE pc' = "batch" /\ err' = "failed"
  <2>1. msgs # "empty"
    BY Zenon, <1>1
  <2> QED
    BY Zenon, <1>1, <1>2, <1>3, <1>4, <2>1, FailStep
<1>5. CASE pc' = "hangs"
  <2>1. /\ "hangs" \notin {"batch", "read"} /\ "hangs" \notin {"first", "last", "fetch"}
        /\ "hangs" \notin {"first", "last"} /\ "hangs" \notin {"idle", "first", "last", "fetch"}
        /\ "hangs" # "read" /\ "hangs" # "batch" /\ "hangs" # "fetch" /\ "v2" # "empty"
    BY Zenon
  <2>2. Opening'
    BY <1>1, <1>2, <1>5, <2>1, Zenon DEF Opening
  <2>3. Aligned'
    BY <1>5, <2>1, Zenon DEF Aligned
  <2>4. Tracking'
    BY <1>5, <2>1, Zenon DEF Tracking
  <2> QED
    BY Zenon, <1>3, <2>2, <2>3, <2>4 DEF BatchInv
<1> QED
  BY <1>1, <1>4, <1>5, Zenon

LEMMA CloseStep ==
  ASSUME BatchTypeOK, BatchInv, Close
  PROVE  BatchTypeOK' /\ BatchInv'
<1>1. /\ pc = "batch" /\ pc' = "idle" /\ offset' = position /\ (netOpen' => err # "failed")
      /\ log' = log /\ head' = head /\ end' = end /\ fetchVersion' = fetchVersion /\ room' = room
      /\ api' = api /\ (stream' = <<>> \/ stream' = stream) /\ seek' = seek
      /\ msgs' = "none" /\ stack' = <<>> /\ messageCount' = 0 /\ firstOffset' = 0
      /\ position' = 0 /\ saved' = 0 /\ want' = want
  BY Zenon DEF Close, Discard, partition, config
<1>2. <<>> \in Seq(Seq(Tokens)) /\ <<>> \in Seq(Readers) /\ 0 \in Int
  OBVIOUS
<1>3. BatchTypeOK'
  <2>1. stream' \in Seq(Seq(Tokens))
    BY <1>1, <1>2, Zenon DEF BatchTypeOK
  <2>2. "none" \in {"none", "empty", "v1", "v2"}
    BY Zenon
  <2> QED
    BY <1>1, <1>2, <2>1, <2>2, Zenon DEF BatchTypeOK
<1>4. netOpen' => Same(log, position, want)
  BY <1>1, Zenon DEF BatchInv, Aligned
<1>5. /\ "idle" \in {"idle", "first", "last", "fetch"} /\ "idle" # "fetch" /\ "none" # "empty"
      /\ "idle" \notin {"first", "last"} /\ "idle" \notin {"first", "last", "fetch"}
  BY Zenon
<1> QED
  BY <1>1, <1>3, <1>4, <1>5, IdleStep, Zenon

-----------------------------------------------------------------------------
(* The theorems. *)

LEMMA BatchInit ==
  ASSUME Init
  PROVE  BatchTypeOK /\ BatchInv
<1>1. log \in Logs /\ head = 1 /\ end \in 1 .. Len(log) /\ Len(log) \in Nat
  BY Zenon, LogTypes DEF Init
<1>2. head \in 1 .. end + 1
  BY ONLY <1>1
<1>3. fetchVersion \in {2, 5} /\ room \in Nat /\ api \in {"Read", "ReadMessage"}
  BY Zenon, BatchAssumption DEF BatchAssumption, Init
<1>4. BatchTypeOK
  BY <1>1, <1>2, <1>3 DEF BatchTypeOK, Init, NoSeek, FirstOffset
<1>5. BatchInv
  BY Zenon DEF BatchInv, Opening, Aligned, Tracking, Init
<1> QED
  BY Zenon, <1>4, <1>5

LEMMA BatchNext ==
  ASSUME BatchTypeOK, BatchInv, [Next]_vars
  PROVE  BatchTypeOK' /\ BatchInv'
<1>1. CASE Publish \/ Delete
  BY Zenon, <1>1, PartitionStep
<1>2. CASE \E s \in Seeks : Seek(s[1], s[2])
  BY <1>2, SeekStep, Zenon
<1>3. CASE SeekToStart \/ ReadBatch
  BY Zenon, <1>3, BetweenStep
<1>4. CASE seeking
  BY <1>4, FirstStep, ReturnStep, Zenon DEF seeking
<1>5. CASE fetching
  BY Zenon, <1>5, FetchStep
<1>6. CASE CallRead
  BY Zenon, <1>6, CallStep
<1>7. CASE ShortRead
  BY Zenon, <1>7, ShortStep
<1>8. CASE ReadBreaks
  BY Zenon, <1>8, BrokenStep
<1>9. CASE readingV1
  BY <1>9, PopStep, PushStep, SkipStep, TakeStep, BrokenStep, Zenon DEF readingV1
<1>10. CASE readingV2
  BY <1>10, PopStep, HeaderStep, BrokenStep, TakeStep, PastStep, Zenon DEF readingV2
<1>11. CASE Close
  BY Zenon, <1>11, CloseStep
<1>12. CASE RequestBreaks \/ Redial
  BY Zenon, <1>12, LifeStep
<1>13. CASE UNCHANGED vars
  <2>1. /\ log' = log /\ head' = head /\ end' = end /\ fetchVersion' = fetchVersion /\ room' = room
        /\ api' = api /\ offset' = offset /\ stream' = stream /\ seek' = seek
        /\ msgs' = msgs /\ stack' = stack /\ messageCount' = messageCount /\ firstOffset' = firstOffset
        /\ position' = position /\ err' = err /\ saved' = saved /\ want' = want
        /\ UNCHANGED <<log, fetchVersion, api, conn, pc, seek, reader, position, err, saved, want>>
    BY Zenon, <1>13 DEF vars, partition, config, conn, reader, batch, history
  <2> QED
    BY <2>1, BatchInvSame, Zenon DEF BatchTypeOK
<1> QED
  BY <1>1, <1>2, <1>3, <1>4, <1>5, <1>6, <1>7, <1>8, <1>9, <1>10, <1>11, <1>12, <1>13, ZenonT(60) DEF Next

(***************************************************************************)
(* The Conn, the Batch and the reader of the message set stay where the    *)
(* program is: from the offset of the Conn, from that of the Batch and     *)
(* from what has been given on, the log has the same messages, and what is *)
(* left of the response begins with the first of them that has not been    *)
(* read.                                                                   *)
(***************************************************************************)
THEOREM BatchInvariant == Spec => [](BatchTypeOK /\ BatchInv)
<1>1. Init => BatchTypeOK /\ BatchInv
  BY Zenon, BatchInit
<1>2. BatchTypeOK /\ BatchInv /\ [Next]_vars => (BatchTypeOK /\ BatchInv)'
  BY Zenon, BatchNext
<1> QED
  BY <1>1, <1>2, PTL DEF Spec

\* The steps that give the program a message.
LEMMA GivesMessage ==
  ASSUME BatchTypeOK, BatchInv, [Next]_vars, got = None, got' # None
  PROVE  TakeV1 \/ RecordV2
<1>1. CASE Publish \/ Delete \/ (\E s \in Seeks : Seek(s[1], s[2])) \/ SeekToStart \/ seeking \/ ReadBatch
  BY Zenon, <1>1 DEF Publish, Delete, Seek, SeekToStart, seeking, ReadFirstOffset, SeekReturn, ReadBatch, history
<1>2. CASE fetching
  BY <1>2, OpenedFrame, Zenon DEF fetching, FetchError, FetchEmpty, FetchData
<1>3. CASE CallRead \/ Close
  BY Zenon, <1>3 DEF CallRead, Close
<1>4. CASE ShortRead \/ ReadBreaks
  BY Zenon, <1>4, BrokenStep DEF ShortRead
<1>5. CASE readingV1
  <2>1. PopV1 \/ PushV1 \/ SkipV1 => got' = got
    BY Zenon DEF PopV1, PushV1, SkipV1
  <2> QED
    BY <1>5, <2>1, BrokenStep, Zenon DEF readingV1
<1>6. CASE readingV2
  <2>1. PopV2 \/ HeaderV2 \/ ReadPastV2 => got' = got
    BY Zenon DEF PopV2, HeaderV2, ReadPastV2
  <2> QED
    BY <1>6, <2>1, BrokenStep, Zenon DEF readingV2
<1>7. CASE RequestBreaks \/ Redial \/ UNCHANGED vars
  BY Zenon, <1>7 DEF RequestBreaks, Redial, vars, history
<1> QED
  BY <1>1, <1>2, <1>3, <1>4, <1>5, <1>6, <1>7, Zenon DEF Next

(***************************************************************************)
(* InSequence, for every log, size of responses and bounds: ReadMessage,   *)
(* and Read of a version 1 set, give the program the messages one by one   *)
(* from where it was, none twice and none left out, through compressed     *)
(* sets, compacted batches, responses that are cut, closes, errors and new *)
(* connections.                                                            *)
(***************************************************************************)
THEOREM ReadsInSequence == Spec => InSequence
<1>1. ASSUME BatchTypeOK, BatchInv, [Next]_vars
      PROVE  got = None /\ got' # None /\ (api = "ReadMessage" \/ msgs = "v1") => IsNext(got', want)
  <2>1. SUFFICES ASSUME got = None, got' # None, api = "ReadMessage" \/ msgs = "v1"
                 PROVE  IsNext(got', want)
    BY Zenon
  <2>2. TakeV1 \/ RecordV2
    BY Zenon, <1>1, <2>1, GivesMessage
  <2> QED
    BY Zenon, <1>1, <2>1, <2>2, TakeStep
<1>2. BatchTypeOK /\ BatchInv /\ [Next]_vars =>
        [got = None /\ got' # None /\ (api = "ReadMessage" \/ msgs = "v1") => IsNext(got', want)]_vars
  BY Zenon, <1>1
<1> QED
  BY <1>2, BatchInvariant, PTL DEF Spec, InSequence

\* The step that closes a Batch.
LEMMA ClosesBatch ==
  ASSUME [Next]_vars, pc = "batch", pc' = "idle"
  PROVE  Close
<1>1. pc # pc'
  BY Zenon
<1>2. ~(Publish \/ Delete \/ (\E s \in Seeks : Seek(s[1], s[2])) \/ SeekToStart \/ seeking \/ ReadBatch)
  BY Zenon, <1>1 DEF Publish, Delete, Seek, SeekToStart, seeking, ReadFirstOffset, SeekReturn, ReadBatch
<1>3. ~(fetching \/ CallRead)
  BY Zenon DEF fetching, FetchError, FetchEmpty, FetchData, CallRead
<1>4. ~(ShortRead \/ ReadBreaks \/ readingV1 \/ readingV2)
  BY Zenon DEF readingV1, readingV2, ShortRead, ReadBreaks, Reading, PopV1, PushV1, SkipV1, TakeV1,
               UnsupportedV1, PopV2, HeaderV2, BigV2, RecordV2, ReadPastV2
<1>5. ~(RequestBreaks \/ Redial \/ UNCHANGED vars)
  BY Zenon, <1>1 DEF RequestBreaks, Redial, vars
<1> QED
  BY <1>2, <1>3, <1>4, <1>5, Zenon DEF Next

(***************************************************************************)
(* CloseConsumes, for every log, size of responses and bounds: but for the *)
(* two exceptions that it names, Batch.Close leaves nothing of the         *)
(* response on the connection.                                             *)
(***************************************************************************)
THEOREM ClosesClean == Spec => CloseConsumes
<1>1. ASSUME BatchTypeOK, BatchInv, [Next]_vars
      PROVE  pc = "batch" /\ pc' = "idle" =>
               stream' = <<>> \/ (msgs = "none" /\ err = "Kafka") \/ (msgs = "v2" /\ stack # <<>>)
  <2>1. SUFFICES ASSUME pc = "batch", pc' = "idle"
                 PROVE  stream' = <<>> \/ (msgs = "none" /\ err = "Kafka") \/ (msgs = "v2" /\ stack # <<>>)
    BY Zenon
  <2>2. Close
    BY Zenon, <1>1, <2>1, ClosesBatch
  <2>3. msgs = "none" => err \in {"Kafka", "failed"}
    BY Zenon, <1>1, <2>1 DEF BatchInv, Opening
  <2>4. msgs \in {"none", "empty", "v1", "v2"} /\ (msgs = "empty" => stack = <<>>)
    BY <1>1, Zenon DEF BatchInv, Opening, BatchTypeOK
  <2> QED
    BY Zenon, <2>2, <2>3, <2>4 DEF Close, Discard
<1>2. BatchTypeOK /\ BatchInv /\ [Next]_vars =>
        [pc = "batch" /\ pc' = "idle" =>
           stream' = <<>> \/ (msgs = "none" /\ err = "Kafka") \/ (msgs = "v2" /\ stack # <<>>)]_vars
  BY Zenon, <1>1
<1> QED
  BY <1>2, BatchInvariant, PTL DEF Spec, CloseConsumes

=============================================================================
