------------------------------ MODULE ConnProofs ------------------------------
(***************************************************************************)
(* Proofs about Conn: whoever reads from the connection holds rlock and    *)
(* reads its own response, and no response is left behind but by the       *)
(* returns that Leave marks, for any number of operations of any kinds.    *)
(*                                                                         *)
(* The argument is about the bytes that have still to be read, whether     *)
(* they have arrived or not: Pending.  They are whole responses, each with *)
(* an id of its own, of which the first may have lost its beginning; the   *)
(* others are for operations that wait, unless one was left behind.        *)
(***************************************************************************)
EXTENDS Conn, SequenceTheorems, TLAPS

Pending == stream \o wire

\* v may come after u.  Only the first unit can have been read in part.
Follows(u, v) ==
  /\ u.part = "head" => v.part = "body" /\ v.id = u.id
  /\ u.part = "body" => v.part = "tail" /\ v.id = u.id
  /\ u.part = "tail" => v.part = "head"
  /\ v.part # "rest"

\* The units of p follow each other.
WellFormed(p) == \A i \in 1 .. Len(p) - 1 : Follows(p[i], p[i + 1])

\* The last response of p has its end.
Whole(p) == p # <<>> => p[Len(p)].part \in {"tail", "rest"}

\* No two responses of p have the same id.
Distinct(p) ==
  \A i, j \in 1 .. Len(p) :
    p[i].part = "head" /\ p[j].part = "head" /\ p[i].id = p[j].id => i = j

\* The operation still has to find its response.
Waits(op) == pc[op] \in {"wait", "peek"}

\* The first unit of p, which only a closed connection may have lost, is the
\* part x of the response to op.
Starts(p, op, x) == IF p = <<>> THEN ~netOpen ELSE p[1].part = x /\ p[1].id = id[op]

\* rlock is with the operation that is past waitResponse, or in it.
Mutex ==
  \A op \in Ops : pc[op] \in {"peek", "body", "tail", "batch", "held", "astray"} <=> rlock = op

\* A closed connection brings nothing more.
Closed == ~netOpen => requests = <<>> /\ wire = <<>>

\* The ids that were given out differ.
Ids ==
  /\ \A op \in Ops : pc[op] = "idle" => id[op] = 0
  /\ \A op \in Ops : pc[op] # "idle" => id[op] \in 1 .. correlationID
  /\ \A a, b \in Ops : pc[a] # "idle" /\ pc[b] # "idle" /\ id[a] = id[b] => a = b

\* The requests that the broker has still to answer.
Asked ==
  /\ \A i \in 1 .. Len(requests) : pc[requests[i]] # "idle"
  /\ \A i, j \in 1 .. Len(requests) : requests[i] = requests[j] => i = j
  /\ \A i \in 1 .. Len(requests), j \in 1 .. Len(Pending) : Pending[j].id # id[requests[i]]

\* The ids of the responses were given out.
Issued == \A i \in 1 .. Len(Pending) : Pending[i].id <= correlationID

\* The pending units are responses in order, and those of an open connection
\* are whole.
Bytes ==
  /\ WellFormed(Pending) /\ Distinct(Pending)
  /\ netOpen => Whole(Pending) /\ Issued /\ Asked

\* The responses that have not been begun are for operations that wait.
Awaited ==
  /\ \A i \in 1 .. Len(requests) : Waits(requests[i])
  /\ \A i \in 1 .. Len(Pending) :
       Pending[i].part = "head" => \E op \in Ops : Waits(op) /\ Pending[i].id = id[op]

\* Where a response has been begun, it is by the operation that reads it.
Begun ==
  Pending # <<>> /\ Pending[1].part # "head" => \E op \in Ops : Expects(op, Pending[1])

\* What an operation that reads finds.
Position ==
  \A op \in Ops :
    /\ pc[op] = "body" => Starts(Pending, op, "body")
    /\ pc[op] \in {"tail", "batch"} => Starts(Pending, op, "tail")
    /\ pc[op] = "tail" => /\ kind[op] # "fetch5"
                          /\ kind[op] = "fetch2" => result[op] = "kafka"
    /\ pc[op] = "batch" => Batches(op)
    /\ pc[op] = "held" => Batches(op) /\ result[op] \in {"failed", "kafka", "timeout"}
    /\ pc[op] = "held" /\ result[op] = "kafka" /\ kind[op] = "fetch2" /\ Pending # <<>> =>
         Pending[1].part = "head"

\* Nothing has been left in the connection, which is open.
Clean == netOpen /\ left = {}

\* Nobody takes other bytes for its own.
NoneAstray == \A op \in Ops : pc[op] # "astray"

Orderly == Awaited /\ Begun /\ NoneAstray

\* The inductive invariant.
IInv ==
  /\ TypeOK /\ Mutex /\ Closed /\ Ids
  /\ Bytes /\ Position
  /\ Clean => Orderly

-----------------------------------------------------------------------------
(* Sequences of units. *)

\* q is p without its first unit.
Drops(p, q) ==
  /\ p # <<>> /\ Len(q) = Len(p) - 1
  /\ \A i \in 1 .. Len(q) : q[i] = p[i + 1]

\* q is p, with some bytes of its first unit read.
Marks(p, q) ==
  /\ p # <<>> /\ Len(q) = Len(p)
  /\ q[1].part = "rest" /\ q[1].id = p[1].id
  /\ \A i \in 2 .. Len(p) : q[i] = p[i]

\* q is the beginning of p.
Cuts(p, q) ==
  /\ Len(q) <= Len(p)
  /\ \A i \in 1 .. Len(q) : q[i] = p[i]

\* A unit that is read from the buffer is the first of the pending ones.
LEMMA ReadDrops ==
  ASSUME NEW s \in Seq(Unit), NEW w \in Seq(Unit), s # <<>>
  PROVE  /\ Drops(s \o w, Tail(s) \o w)
         /\ (s \o w)[1] = Head(s)
PROOF
  <1>1. /\ Tail(s) \in Seq(Unit) /\ Len(Tail(s)) = Len(s) - 1 /\ Len(s) \in Nat \ {0}
        /\ \A i \in 1 .. Len(Tail(s)) : Tail(s)[i] = s[i + 1]
    BY Zenon, HeadTailProperties, EmptySeq
  <1>2. /\ Len(s \o w) = Len(s) + Len(w) /\ Len(w) \in Nat
        /\ \A i \in 1 .. Len(s) + Len(w) :
             (s \o w)[i] = IF i <= Len(s) THEN s[i] ELSE w[i - Len(s)]
    BY Zenon, ConcatProperties, LenProperties
  <1>3. /\ Len(Tail(s) \o w) = Len(s) - 1 + Len(w)
        /\ \A i \in 1 .. Len(s) - 1 + Len(w) :
             (Tail(s) \o w)[i] = IF i <= Len(s) - 1 THEN Tail(s)[i] ELSE w[i - (Len(s) - 1)]
    BY <1>1, ConcatProperties
  <1>4. s \o w # <<>>
    BY <1>1, <1>2, EmptySeq
  <1>5. (s \o w)[1] = Head(s)
    BY <1>1, <1>2
  <1>6. ASSUME NEW i \in 1 .. Len(Tail(s) \o w)
        PROVE  (Tail(s) \o w)[i] = (s \o w)[i + 1]
    <2>1. CASE i <= Len(s) - 1
      BY <1>1, <1>2, <1>3, <2>1
    <2>2. CASE ~(i <= Len(s) - 1)
      <3>1. i - (Len(s) - 1) = (i + 1) - Len(s)
        BY <1>1
      <3>2. (Tail(s) \o w)[i] = w[i - (Len(s) - 1)]
        BY Zenon, <1>3, <2>2
      <3>3. (s \o w)[i + 1] = w[(i + 1) - Len(s)]
        BY <1>1, <1>2, <1>3, <2>2
      <3> QED BY Zenon, <3>1, <3>2, <3>3
    <2> QED BY Zenon, <2>1, <2>2
  <1> QED BY <1>1, <1>2, <1>3, <1>4, <1>5, <1>6 DEF Drops

\* A unit that is read in part is the first of the pending ones.
LEMMA BreakMarks ==
  ASSUME NEW s \in Seq(Unit), NEW w \in Seq(Unit), s # <<>>
  PROVE  /\ [s EXCEPT ![1].part = "rest"] \in Seq(Unit)
         /\ Marks(s \o w, [s EXCEPT ![1].part = "rest"] \o w)
PROOF
  <1> DEFINE u == [s[1] EXCEPT !.part = "rest"]
             t == [s EXCEPT ![1] = u]
  <1>1. Len(s) \in Nat \ {0} /\ Len(w) \in Nat /\ 1 \in 1 .. Len(s)
    BY EmptySeq, LenProperties
  <1>2. s[1] \in Unit
    BY Zenon, <1>1, ElementOfSeq
  <1>3. u \in Unit /\ u.part = "rest" /\ u.id = s[1].id
    BY Zenon, <1>2 DEF Unit
  <1> HIDE DEF u
  <1>4. s \in [1 .. Len(s) -> Unit]
    BY Zenon, LenProperties, ElementOfSeq
  <1>5. t \in [1 .. Len(s) -> Unit]
    BY Zenon, <1>3, <1>4
  <1>6. t \in Seq(Unit) /\ Len(t) = Len(s)
    BY <1>1, <1>5
  <1>7. t[1] = u /\ \A i \in 2 .. Len(s) : t[i] = s[i]
    BY <1>1, <1>4
  <1>8. [s EXCEPT ![1].part = "rest"] = t
    BY Zenon DEF u
  <1> HIDE DEF t
  <1>9. /\ Len(s \o w) = Len(s) + Len(w)
        /\ \A i \in 1 .. Len(s) + Len(w) :
             (s \o w)[i] = IF i <= Len(s) THEN s[i] ELSE w[i - Len(s)]
    BY Zenon, ConcatProperties
  <1>10. /\ Len(t \o w) = Len(t) + Len(w)
         /\ \A i \in 1 .. Len(t) + Len(w) :
              (t \o w)[i] = IF i <= Len(t) THEN t[i] ELSE w[i - Len(t)]
    BY Zenon, <1>6, ConcatProperties
  <1>11. s \o w # <<>>
    BY <1>1, <1>9, EmptySeq
  <1>12. (t \o w)[1] = u /\ (s \o w)[1] = s[1]
    BY <1>1, <1>6, <1>7, <1>9, <1>10
  <1>13. ASSUME NEW i \in 2 .. Len(s \o w)
         PROVE  (t \o w)[i] = (s \o w)[i]
    <2>1. CASE i <= Len(s)
      BY <1>1, <1>6, <1>7, <1>9, <1>10, <2>1
    <2>2. CASE ~(i <= Len(s))
      <3>1. i \in 1 .. Len(s) + Len(w)
        BY <1>1, <1>9
      <3> QED BY Zenon, <1>6, <1>9, <1>10, <2>2, <3>1
    <2> QED BY Zenon, <2>1, <2>2
  <1>14. Marks(s \o w, t \o w)
    BY Zenon, <1>3, <1>6, <1>9, <1>10, <1>11, <1>12, <1>13 DEF Marks
  <1> QED BY Zenon, <1>6, <1>8, <1>14

\* A connection that is closed keeps a beginning of the pending units.
LEMMA CloseCuts ==
  ASSUME NEW s \in Seq(Unit), NEW w \in Seq(Unit), NEW n \in 0 .. Len(s)
  PROVE  /\ SubSeq(s, 1, n) \in Seq(Unit)
         /\ Cuts(s \o w, SubSeq(s, 1, n) \o <<>>)
PROOF
  <1>1. Len(s) \in Nat /\ Len(w) \in Nat
    BY Zenon, LenProperties
  <1>2. \A i \in 1 .. n : s[i] \in Unit
    BY <1>1, ElementOfSeq
  <1>3. /\ SubSeq(s, 1, n) \in Seq(Unit) /\ Len(SubSeq(s, 1, n)) = n
        /\ \A i \in 1 .. n : SubSeq(s, 1, n)[i] = s[i]
    BY <1>1, <1>2, SubSeqProperties
  <1>4. /\ Len(s \o w) = Len(s) + Len(w)
        /\ \A i \in 1 .. Len(s) : (s \o w)[i] = s[i]
    BY <1>1, ConcatProperties
  <1>5. SubSeq(s, 1, n) \o <<>> = SubSeq(s, 1, n)
    BY Zenon, <1>3, ConcatEmptySeq
  <1> QED BY <1>1, <1>3, <1>4, <1>5 DEF Cuts

\* A unit that arrives stays where it is among the pending ones.
LEMMA DeliverKeeps ==
  ASSUME NEW s \in Seq(Unit), NEW w \in Seq(Unit), w # <<>>
  PROVE  Append(s, Head(w)) \o Tail(w) = s \o w
PROOF
  <1>1. /\ Tail(w) \in Seq(Unit) /\ Len(Tail(w)) = Len(w) - 1 /\ Len(w) \in Nat \ {0}
        /\ Head(w) \in Unit /\ Head(w) = w[1] /\ Len(s) \in Nat
        /\ \A i \in 1 .. Len(Tail(w)) : Tail(w)[i] = w[i + 1]
    BY HeadTailProperties, EmptySeq, LenProperties
  <1>2. /\ Append(s, Head(w)) \in Seq(Unit) /\ Len(Append(s, Head(w))) = Len(s) + 1
        /\ \A i \in 1 .. Len(s) : Append(s, Head(w))[i] = s[i]
        /\ Append(s, Head(w))[Len(s) + 1] = w[1]
    BY <1>1
  <1> DEFINE p == Append(s, Head(w)) \o Tail(w)
  <1>3. /\ p \in Seq(Unit) /\ Len(p) = Len(s) + Len(w)
        /\ \A i \in 1 .. Len(s) + Len(w) :
             p[i] = IF i <= Len(s) + 1 THEN Append(s, Head(w))[i] ELSE Tail(w)[i - (Len(s) + 1)]
    BY <1>1, <1>2, ConcatProperties
  <1>4. /\ s \o w \in Seq(Unit) /\ Len(s \o w) = Len(s) + Len(w)
        /\ \A i \in 1 .. Len(s) + Len(w) :
             (s \o w)[i] = IF i <= Len(s) THEN s[i] ELSE w[i - Len(s)]
    BY Zenon, ConcatProperties
  <1>5. ASSUME NEW i \in 1 .. Len(p)
        PROVE  p[i] = (s \o w)[i]
    <2>1. CASE i <= Len(s)
      BY <1>1, <1>2, <1>3, <1>4, <2>1
    <2>2. CASE i = Len(s) + 1
      BY <1>1, <1>2, <1>3, <1>4, <2>2
    <2>3. CASE i > Len(s) + 1
      <3>1. p[i] = Tail(w)[i - (Len(s) + 1)]
        BY <1>1, <1>3, <2>3
      <3>2. i - (Len(s) + 1) \in 1 .. Len(w) - 1 /\ (i - (Len(s) + 1)) + 1 = i - Len(s)
        BY <1>1, <1>3, <2>3
      <3>3. p[i] = w[i - Len(s)]
        BY Zenon, <1>1, <3>1, <3>2
      <3> QED BY <1>1, <1>3, <1>4, <2>3, <3>3
    <2> QED BY <1>1, <1>3, <2>1, <2>2, <2>3
  <1> HIDE DEF p
  <1>6. p = s \o w
    BY Zenon, <1>3, <1>4, <1>5, SeqEqual
  <1> QED BY Zenon, <1>6 DEF p

\* Reading keeps the order and the distinctness of the responses.
LEMMA DropsWellFormed ==
  ASSUME NEW p \in Seq(Unit), NEW q \in Seq(Unit), Drops(p, q)
  PROVE  /\ WellFormed(p) => WellFormed(q)
         /\ Distinct(p) => Distinct(q)
         /\ Whole(p) => Whole(q)
         /\ WellFormed(p) /\ q # <<>> => Follows(p[1], q[1])
         /\ WellFormed(p) /\ Whole(p) /\ p[1].part \in {"head", "body"} => q # <<>>
PROOF
  <1>1. /\ Len(p) \in Nat \ {0} /\ Len(q) = Len(p) - 1
        /\ \A i \in 1 .. Len(q) : q[i] = p[i + 1]
    BY Zenon, EmptySeq DEF Drops
  <1>2. q # <<>> <=> Len(q) # 0
    BY Zenon, EmptySeq
  <1>3. WellFormed(p) => WellFormed(q)
    BY <1>1 DEF WellFormed
  <1>4. ASSUME Distinct(p), NEW i \in 1 .. Len(q), NEW j \in 1 .. Len(q),
               q[i].part = "head", q[j].part = "head", q[i].id = q[j].id
        PROVE  i = j
    <2>1. i + 1 \in 1 .. Len(p) /\ j + 1 \in 1 .. Len(p)
      BY <1>1
    <2>2. q[i] = p[i + 1] /\ q[j] = p[j + 1]
      BY Zenon, <1>1
    <2>3. i + 1 = j + 1
      BY Zenon, <1>4, <2>1, <2>2 DEF Distinct
    <2> QED BY <2>3
  <1>5. Whole(p) => Whole(q)
    BY <1>1, <1>2 DEF Whole, Drops
  <1>6. WellFormed(p) /\ q # <<>> => Follows(p[1], q[1])
    BY <1>1, <1>2 DEF WellFormed
  <1>7. WellFormed(p) /\ Whole(p) /\ p[1].part \in {"head", "body"} => q # <<>>
    BY <1>1, <1>2 DEF Whole, Drops
  <1> QED BY Zenon, <1>3, <1>4, <1>5, <1>6, <1>7 DEF Distinct

\* So does reading in part.
LEMMA MarksWellFormed ==
  ASSUME NEW p \in Seq(Unit), NEW q \in Seq(Unit), Marks(p, q)
  PROVE  /\ WellFormed(p) => WellFormed(q)
         /\ Distinct(p) => Distinct(q)
         /\ Whole(p) => Whole(q)
PROOF
  <1>1. /\ Len(p) \in Nat \ {0} /\ Len(q) = Len(p)
        /\ q[1].part = "rest" /\ q[1].id = p[1].id
        /\ \A i \in 2 .. Len(p) : q[i] = p[i]
    BY Zenon, EmptySeq DEF Marks
  <1>2. ASSUME WellFormed(p), NEW i \in 1 .. Len(q) - 1
        PROVE  Follows(q[i], q[i + 1])
    <2>1. Follows(p[i], p[i + 1]) /\ i + 1 \in 2 .. Len(p)
      BY <1>1, <1>2 DEF WellFormed
    <2>2. q[i + 1] = p[i + 1] /\ q[i + 1].part # "rest"
      BY Zenon, <1>1, <2>1 DEF Follows
    <2>3. CASE i = 1
      BY Zenon, <1>1, <2>2, <2>3 DEF Follows
    <2>4. CASE i # 1
      <3>1. q[i] = p[i]
        BY <1>1, <2>4
      <3> QED BY Zenon, <2>1, <2>2, <3>1
    <2> QED BY Zenon, <2>3, <2>4
  <1>3. ASSUME NEW i \in 1 .. Len(q), q[i].part = "head"
        PROVE  i \in 1 .. Len(p) /\ q[i] = p[i]
    BY <1>1, <1>3
  <1>4. Distinct(p) => Distinct(q)
    BY Zenon, <1>3 DEF Distinct
  <1>5. Whole(p) => Whole(q)
    <2>1. q[Len(q)].part = "rest" \/ q[Len(q)] = p[Len(p)]
      BY <1>1
    <2> QED BY Zenon, <2>1 DEF Whole, Marks
  <1> QED BY Zenon, <1>2, <1>4, <1>5 DEF WellFormed

\* And closing.
LEMMA CutsWellFormed ==
  ASSUME NEW p \in Seq(Unit), NEW q \in Seq(Unit), Cuts(p, q)
  PROVE  /\ WellFormed(p) => WellFormed(q)
         /\ Distinct(p) => Distinct(q)
         /\ q # <<>> => p # <<>> /\ q[1] = p[1]
PROOF
  <1>1. /\ Len(p) \in Nat /\ Len(q) \in Nat /\ Len(q) <= Len(p)
        /\ \A i \in 1 .. Len(q) : q[i] = p[i]
    BY Zenon, LenProperties DEF Cuts
  <1>2. (q # <<>> => Len(q) # 0) /\ (Len(p) # 0 => p # <<>>)
    BY Zenon, EmptySeq
  <1>3. WellFormed(p) => WellFormed(q)
    BY <1>1 DEF WellFormed
  <1>4. Distinct(p) => Distinct(q)
    BY <1>1 DEF Distinct
  <1> QED BY <1>1, <1>2, <1>3, <1>4

-----------------------------------------------------------------------------
(* The parts of the invariant that say nothing of the bytes. *)

\* The bytes and the flags that CloseNet leaves have their types.
LEMMA CloseNetType ==
  ASSUME TypeOK, CloseNet
  PROVE  /\ netOpen' = FALSE /\ requests' = <<>> /\ wire' = <<>>
         /\ requests' \in Seq(Ops) /\ wire' \in Seq(Unit) /\ stream' \in Seq(Unit)
         /\ Pending' \in Seq(Unit)
         /\ Cuts(Pending, Pending')
PROOF
  <1>1. PICK n \in 0 .. Len(stream) : stream' = SubSeq(stream, 1, n)
    BY Zenon DEF CloseNet
  <1>2. stream \in Seq(Unit) /\ wire \in Seq(Unit)
    BY Zenon DEF TypeOK
  <1>3. /\ stream' \in Seq(Unit)
        /\ Cuts(stream \o wire, stream' \o <<>>)
    BY Zenon, <1>1, <1>2, CloseCuts
  <1>4. wire' = <<>> /\ requests' = <<>> /\ netOpen' = FALSE
    BY Zenon DEF CloseNet
  <1>5. wire' \in Seq(Unit) /\ requests' \in Seq(Ops)
    BY Zenon, <1>4, EmptySeq
  <1>6. stream' \o wire' \in Seq(Unit)
    BY Zenon, <1>3, <1>5, ConcatProperties
  <1> QED BY Zenon, <1>3, <1>4, <1>5, <1>6 DEF Pending

\* A response is a sequence of units.
LEMMA ResponseType ==
  ASSUME TypeOK, NEW op \in Ops, NEW code \in Codes
  PROVE  /\ Response(op, code) \in Seq(Unit) /\ Len(Response(op, code)) = 3
         /\ \A i \in 1 .. 3 : Response(op, code)[i].id = id[op]
         /\ Response(op, code)[1].part = "head"
         /\ Response(op, code)[2].part = "body"
         /\ Response(op, code)[3].part = "tail"
PROOF
  <1>1. id[op] \in Nat
    BY DEF TypeOK
  <1> DEFINE parts == <<"head", "body", "tail">>
  <1>2. parts[1] = "head" /\ parts[2] = "body" /\ parts[3] = "tail"
    BY Zenon
  <1>3. \A i \in 1 .. 3 : i = 1 \/ i = 2 \/ i = 3
    OBVIOUS
  <1>4. \A i \in 1 .. 3 : parts[i] \in {"head", "body", "tail", "rest"}
    BY Zenon, <1>2, <1>3
  <1> HIDE DEF parts
  <1> DEFINE u(i) == [id |-> id[op], part |-> parts[i], code |-> code]
  <1>5. \A i \in 1 .. 3 : u(i) \in Unit
    BY Zenon, <1>1, <1>4 DEF Unit
  <1>6. Response(op, code) = [i \in 1 .. 3 |-> u(i)]
    BY Zenon DEF Response, parts
  <1>7. Response(op, code) \in [1 .. 3 -> Unit]
    BY Zenon, <1>5, <1>6
  <1>8. Response(op, code) \in Seq(Unit) /\ Len(Response(op, code)) = 3
    <2>1. Response(op, code) \in Seq(Unit)
      BY Zenon, <1>7, SeqDef
    <2>2. DOMAIN Response(op, code) = 1 .. 3
      BY Zenon, <1>7
    <2>3. Len(Response(op, code)) \in Nat /\ 1 .. Len(Response(op, code)) = 1 .. 3
      BY Zenon, <2>1, <2>2, LenProperties
    <2> DEFINE n == Len(Response(op, code))
    <2> HIDE DEF n
    <2>4. n \in Nat /\ 1 .. n = 1 .. 3 => n = 3
      <3> SUFFICES ASSUME n \in Nat, 1 .. n = 1 .. 3 PROVE n = 3
        BY Zenon
      <3>1. 3 \in 1 .. n
        OBVIOUS
      <3>2. ~(4 \in 1 .. n)
        OBVIOUS
      <3> QED BY <3>1, <3>2
    <2> QED BY Zenon, <2>1, <2>3, <2>4 DEF n
  <1>9. \A i \in 1 .. 3 : Response(op, code)[i] = u(i)
    BY Zenon, <1>6
  <1> QED BY <1>2, <1>8, <1>9

\* The id of a new request is in range, and so are the others still.
LEMMA IdType ==
  ASSUME TypeOK, NEW op \in Ops
  PROVE  [id EXCEPT ![op] = correlationID + 1] \in [Ops -> 0 .. correlationID + 1]
PROOF
  <1>1. correlationID \in Nat /\ id \in [Ops -> 0 .. correlationID]
    BY Zenon DEF TypeOK
  <1>2. \A a \in Ops : id[a] \in 0 .. correlationID + 1
    BY <1>1
  <1>3. correlationID + 1 \in 0 .. correlationID + 1
    BY <1>1
  <1> QED BY Zenon, <1>1, <1>2, <1>3

\* Type correctness is inductive.
LEMMA TypeStep ==
  ASSUME TypeOK, [Next]_vars
  PROVE  TypeOK'
PROOF
  <1> USE ConnAssumption
  <1>1. ASSUME NEW op \in Ops, WriteRequest(op)
        PROVE  TypeOK'
    <2>1. id' \in [Ops -> 0 .. correlationID']
      BY Zenon, <1>1, IdType DEF WriteRequest
    <2> QED BY <1>1, <2>1 DEF WriteRequest, Goto, TypeOK, PCs
  <1>2. ASSUME NEW op \in Ops, WriteFails(op)
        PROVE  TypeOK'
    <2>1. id' \in [Ops -> 0 .. correlationID']
      BY Zenon, <1>2, IdType DEF WriteFails
    <2>2. correlationID' \in Nat
      BY <1>2 DEF WriteFails, TypeOK
    <2> QED BY Zenon, <1>2, <2>1, <2>2, CloseNetType DEF WriteFails, Return, Goto, TypeOK, PCs
  <1>3. ASSUME NEW op \in Ops, LockRead(op)
        PROVE  TypeOK'
    BY Zenon, <1>3 DEF LockRead, Goto, TypeOK, PCs
  <1>4. ASSUME NEW op \in Ops, waitResponse(op)
        PROVE  TypeOK'
    <2>1. CASE PeekOwn(op)
      <3>1. stream' \in Seq(Unit)
        <4>1. /\ stream # <<>> /\ stream \in Seq(Unit) /\ wire \in Seq(Unit)
              /\ stream' = Tail(stream) \/ stream' = Broken
          BY Zenon, <2>1 DEF PeekOwn, Peekable, TypeOK
        <4>2. Tail(stream) \in Seq(Unit)
          BY Zenon, <4>1, HeadTailProperties
        <4>3. Broken \in Seq(Unit)
          BY Zenon, <4>1, BreakMarks DEF Broken
        <4> QED BY Zenon, <4>1, <4>2, <4>3
      <3> QED BY Zenon, <2>1, <3>1 DEF PeekOwn, Goto, TypeOK, PCs
    <2>2. CASE PeekOther(op)
      BY Zenon, <2>2 DEF PeekOther, Unlock, Goto, TypeOK, PCs
    <2>3. CASE PeekFails(op)
      BY Zenon, <2>3, CloseNetType DEF PeekFails, Unlock, Return, Goto, TypeOK, PCs
    <2> QED BY Zenon, <1>4, <2>1, <2>2, <2>3 DEF waitResponse
  <1>5. ASSUME NEW op \in Ops, readBody(op)
        PROVE  TypeOK'
    <2>1. CASE BodyOK(op)
      <3>1. stream' \in Seq(Unit)
        BY Zenon, <2>1, HeadTailProperties DEF BodyOK, TypeOK
      <3> QED BY Zenon, <2>1, <3>1 DEF BodyOK, Goto, TypeOK, PCs
    <2>2. CASE BodyError(op)
      <3>1. stream' \in Seq(Unit)
        BY Zenon, <2>2, HeadTailProperties DEF BodyError, TypeOK
      <3> QED BY Zenon, <2>2, <3>1 DEF BodyError, Unlock, Leave, Goto, TypeOK, PCs
    <2>3. CASE ReadTail(op)
      <3>1. stream' \in Seq(Unit)
        BY Zenon, <2>3, HeadTailProperties DEF ReadTail, TypeOK
      <3> QED BY Zenon, <2>3, <3>1 DEF ReadTail, Unlock, Return, Goto, TypeOK, PCs
    <2>4. CASE FetchError(op)
      <3>1. PICK r \in {"failed", "timeout"} : result' = [result EXCEPT ![op] = r]
        BY Zenon, <2>4 DEF FetchError
      <3> QED BY Zenon, <2>4, <3>1 DEF FetchError, Goto, TypeOK, PCs
    <2>5. CASE ReadError(op)
      BY Zenon, <2>5, CloseNetType DEF ReadError, Unlock, Return, Goto, TypeOK, PCs
    <2>6. CASE VersionsError(op)
      BY ZenonT(60), <2>6 DEF VersionsError, Unlock, Leave, Return, Goto, TypeOK, PCs
    <2> QED BY Zenon, <1>5, <2>1, <2>2, <2>3, <2>4, <2>5, <2>6 DEF readBody
  <1>6. ASSUME NEW op \in Ops, batch(op)
        PROVE  TypeOK'
    <2>1. CASE BatchReadFails(op)
      BY Zenon, <2>1 DEF BatchReadFails, Goto, TypeOK, PCs
    <2>2. CASE BatchClose(op)
      <3>1. stream' \in Seq(Unit)
        BY Zenon, <2>2, HeadTailProperties DEF BatchClose, TypeOK
      <3> QED BY Zenon, <2>2, <3>1 DEF BatchClose, Unlock, Return, Goto, TypeOK, PCs
    <2>3. CASE BatchCloseInside(op)
      BY Zenon, <2>3 DEF BatchCloseInside, Unlock, Leave, Return, Goto, TypeOK, PCs
    <2>4. CASE BatchDiscardFails(op)
      BY Zenon, <2>4 DEF BatchDiscardFails, Unlock, Leave, Return, Goto, TypeOK, PCs
    <2>5. CASE BatchCloseError(op) /\ result[op] = "failed"
      BY Zenon, <2>5, CloseNetType DEF BatchCloseError, Unlock, Goto, TypeOK, PCs
    <2>6. CASE BatchCloseError(op) /\ result[op] # "failed"
      BY Zenon, <2>6 DEF BatchCloseError, Unlock, Leave, Goto, TypeOK, PCs
    <2> QED BY Zenon, <1>6, <2>1, <2>2, <2>3, <2>4, <2>5, <2>6 DEF batch
  <1>7. CASE Broker
    <2>1. Head(requests) \in Ops /\ Tail(requests) \in Seq(Ops)
      BY Zenon, <1>7, HeadTailProperties DEF Broker, TypeOK
    <2>2. PICK code \in Codes : wire' = wire \o Response(Head(requests), code)
      BY Zenon, <1>7 DEF Broker
    <2>3. wire' \in Seq(Unit)
      BY Zenon, <2>1, <2>2, ResponseType, ConcatProperties DEF TypeOK
    <2> QED BY Zenon, <1>7, <2>1, <2>3 DEF Broker, opVars, TypeOK
  <1>8. CASE Deliver
    <2>1. Head(wire) \in Unit /\ Tail(wire) \in Seq(Unit)
      BY Zenon, <1>8, HeadTailProperties DEF Deliver, TypeOK
    <2>2. stream' \in Seq(Unit)
      BY <1>8, <2>1 DEF Deliver, TypeOK
    <2> QED BY Zenon, <1>8, <2>1, <2>2 DEF Deliver, opVars, TypeOK
  <1>9. CASE ConnClose
    BY Zenon, <1>9, CloseNetType DEF ConnClose, opVars, TypeOK
  <1>10. CASE UNCHANGED vars
    BY Zenon, <1>10 DEF vars, opVars, TypeOK
  <1>11. ASSUME NEW op \in Ops, astray(op)
         PROVE  TypeOK'
    <2>1. CASE AstrayRead(op)
      <3>1. stream' \in Seq(Unit)
        <4>1. /\ stream # <<>> /\ stream \in Seq(Unit) /\ wire \in Seq(Unit)
              /\ stream' = Tail(stream) \/ stream' = Broken
          BY Zenon, <2>1 DEF AstrayRead, TypeOK
        <4>2. Tail(stream) \in Seq(Unit)
          BY Zenon, <4>1, HeadTailProperties
        <4>3. Broken \in Seq(Unit)
          BY Zenon, <4>1, BreakMarks DEF Broken
        <4> QED BY Zenon, <4>1, <4>2, <4>3
      <3> QED BY Zenon, <2>1, <3>1 DEF AstrayRead, Unlock, Return, Goto, TypeOK, PCs
    <2>2. CASE AstrayFails(op) /\ kind[op] = "versions"
      BY Zenon, <2>2 DEF AstrayFails, Unlock, Return, Goto, TypeOK, PCs
    <2>3. CASE AstrayFails(op) /\ kind[op] # "versions"
      BY Zenon, <2>3, CloseNetType DEF AstrayFails, Unlock, Return, Goto, TypeOK, PCs
    <2> QED BY Zenon, <1>11, <2>1, <2>2, <2>3 DEF astray
  <1> QED BY Zenon, <1>1, <1>2, <1>3, <1>4, <1>5, <1>6, <1>7, <1>8, <1>9, <1>10, <1>11
       DEF Next, doRequest

\* A new request has an id that no operation has.
LEMMA IdsNew ==
  ASSUME TypeOK, Ids, NEW op \in Ops, NEW label \in PCs \ {"idle"},
         pc[op] = "idle", pc' = [pc EXCEPT ![op] = label],
         correlationID' = correlationID + 1,
         id' = [id EXCEPT ![op] = correlationID + 1]
  PROVE  Ids'
PROOF
  <1>1. /\ correlationID \in Nat /\ pc \in [Ops -> PCs]
        /\ \A a \in Ops : id[a] \in 0 .. correlationID
    BY Zenon DEF TypeOK
  <1>2. /\ \A a \in Ops : pc'[a] = IF a = op THEN label ELSE pc[a]
        /\ \A a \in Ops : id'[a] = IF a = op THEN correlationID + 1 ELSE id[a]
    BY Zenon, <1>1 DEF TypeOK
  <1>3. \A a \in Ops : pc'[a] = "idle" => id'[a] = 0
    BY Zenon, <1>2 DEF Ids
  <1>4. \A a \in Ops : pc'[a] # "idle" => id'[a] \in 1 .. correlationID'
    BY <1>1, <1>2 DEF Ids
  <1>5. ASSUME NEW a \in Ops, NEW b \in Ops,
               pc'[a] # "idle", pc'[b] # "idle", id'[a] = id'[b]
        PROVE  a = b
    BY <1>1, <1>2, <1>5 DEF Ids
  <1> QED BY Zenon, <1>3, <1>4, <1>5 DEF Ids

\* Nothing else gives out an id, or starts an operation.
LEMMA IdsSame ==
  ASSUME TypeOK, Ids, UNCHANGED <<correlationID, id>>,
         \A op \in Ops : pc'[op] = "idle" <=> pc[op] = "idle"
  PROVE  Ids'
PROOF
  BY Zenon DEF Ids

\* The lock, the ids and the state of the net.Conn.
LEMMA LockStep ==
  ASSUME TypeOK, Mutex, Ids, Closed, [Next]_vars
  PROVE  Mutex' /\ Ids' /\ Closed'
PROOF
  <1> USE ConnAssumption DEF Goto, Unlock, PCs
  <1>1. ASSUME NEW op \in Ops, WriteRequest(op)
        PROVE  Mutex' /\ Ids' /\ Closed'
    <2>1. Ids'
      BY Zenon, <1>1, IdsNew DEF WriteRequest
    <2>2. Mutex' /\ Closed'
      BY Zenon, <1>1 DEF WriteRequest, TypeOK, Mutex, Closed
    <2> QED BY Zenon, <2>1, <2>2
  <1>2. ASSUME NEW op \in Ops, WriteFails(op)
        PROVE  Mutex' /\ Ids' /\ Closed'
    <2>1. Ids'
      BY Zenon, <1>2, IdsNew DEF WriteFails, Return
    <2>2. Mutex' /\ Closed'
      BY Zenon, <1>2 DEF WriteFails, Return, CloseNet, TypeOK, Mutex, Closed
    <2> QED BY Zenon, <2>1, <2>2
  <1>3. ASSUME NEW op \in Ops, LockRead(op)
        PROVE  Mutex' /\ Ids' /\ Closed'
    <2>1. Ids'
      BY Zenon, <1>3, IdsSame DEF LockRead, TypeOK
    <2>2. Mutex' /\ Closed'
      BY Zenon, <1>3 DEF LockRead, TypeOK, Mutex, Closed
    <2> QED BY Zenon, <2>1, <2>2
  <1>4. ASSUME NEW op \in Ops, waitResponse(op)
        PROVE  Mutex' /\ Ids' /\ Closed'
    <2>1. Ids'
      BY ZenonT(60), <1>4, IdsSame DEF waitResponse, PeekOwn, PeekOther, PeekFails, Return, TypeOK
    <2>2. Mutex'
      BY <1>4 DEF waitResponse, PeekOwn, PeekOther, PeekFails, Return, TypeOK, Mutex
    <2>3. Closed'
      BY Zenon, <1>4 DEF waitResponse, PeekOwn, PeekOther, PeekFails, CloseNet, Closed
    <2> QED BY Zenon, <2>1, <2>2, <2>3
  <1>5. ASSUME NEW op \in Ops, readBody(op)
        PROVE  Mutex' /\ Ids' /\ Closed'
    <2>1. Ids'
      BY <1>5, IdsSame DEF readBody, BodyOK, BodyError, ReadTail, ReadError, FetchError,
                           VersionsError, Unreadable, Garbled, Return, TypeOK
    <2>2. Mutex'
      <3>1. CASE BodyOK(op)
        BY Zenon, <3>1 DEF BodyOK, TypeOK, Mutex
      <3>2. CASE BodyError(op)
        BY <3>2 DEF BodyError, TypeOK, Mutex
      <3>3. CASE ReadTail(op)
        BY <3>3 DEF ReadTail, Return, TypeOK, Mutex
      <3>4. CASE ReadError(op)
        BY <3>4 DEF ReadError, Unreadable, Garbled, Return, TypeOK, Mutex
      <3>5. CASE FetchError(op)
        BY <3>5 DEF FetchError, Unreadable, Garbled, TypeOK, Mutex
      <3>6. CASE VersionsError(op)
        BY ZenonT(60), <3>6 DEF VersionsError, Unreadable, Garbled, Return, TypeOK, Mutex
      <3> QED BY Zenon, <1>5, <3>1, <3>2, <3>3, <3>4, <3>5, <3>6 DEF readBody
    <2>3. Closed'
      BY Zenon, <1>5 DEF readBody, BodyOK, BodyError, ReadTail, ReadError, FetchError, VersionsError,
                         CloseNet, Closed
    <2> QED BY Zenon, <2>1, <2>2, <2>3
  <1>6. ASSUME NEW op \in Ops, batch(op)
        PROVE  Mutex' /\ Ids' /\ Closed'
    <2> USE <1>6 DEF batch, BatchReadFails, BatchClose, BatchCloseInside, BatchDiscardFails,
                     BatchCloseError
    <2>1. Ids'
      BY Zenon, IdsSame DEF Return, TypeOK
    <2>2. Mutex'
      <3>1. CASE pc'[op] = "held"
        <4>1. pc[op] = "batch" /\ rlock' = rlock /\ \A a \in Ops \ {op} : pc'[a] = pc[a]
          BY Zenon, <3>1 DEF Return, TypeOK
        <4> QED BY Zenon, <3>1, <4>1 DEF Mutex
      <3>2. CASE pc'[op] = "returned"
        <4>1. /\ pc[op] \in {"batch", "held"} /\ rlock' = None
              /\ \A a \in Ops \ {op} : pc'[a] = pc[a]
          BY Zenon, <3>2 DEF Return, TypeOK
        <4> QED BY Zenon, <3>2, <4>1 DEF Mutex
      <3>3. pc'[op] \in {"held", "returned"}
        BY Zenon DEF Return, TypeOK
      <3> QED BY Zenon, <3>1, <3>2, <3>3
    <2>3. Closed'
      BY Zenon DEF CloseNet, Closed
    <2> QED BY Zenon, <2>1, <2>2, <2>3
  <1>7. CASE Broker
    <2>1. netOpen
      BY Zenon, <1>7 DEF Broker, Closed
    <2> QED BY Zenon, <1>7, <2>1 DEF Broker, opVars, Mutex, Ids, Closed
  <1>8. CASE Deliver
    <2>1. netOpen
      BY Zenon, <1>8 DEF Deliver, Closed
    <2> QED BY Zenon, <1>8, <2>1 DEF Deliver, opVars, Mutex, Ids, Closed
  <1>9. CASE ConnClose
    BY Zenon, <1>9 DEF ConnClose, CloseNet, opVars, Mutex, Ids, Closed
  <1>10. CASE UNCHANGED vars
    BY Zenon, <1>10 DEF vars, opVars, Mutex, Ids, Closed
  <1>11. ASSUME NEW op \in Ops, astray(op)
         PROVE  Mutex' /\ Ids' /\ Closed'
    <2> USE <1>11 DEF astray, AstrayRead, AstrayFails
    <2>1. Ids'
      BY Zenon, IdsSame DEF Return, TypeOK
    <2>2. Mutex'
      BY ZenonT(60) DEF Return, TypeOK, Mutex
    <2>3. Closed'
      BY Zenon DEF CloseNet, Closed
    <2> QED BY Zenon, <2>1, <2>2, <2>3
  <1> QED BY Zenon, <1>1, <1>2, <1>3, <1>4, <1>5, <1>6, <1>7, <1>8, <1>9, <1>10, <1>11
       DEF Next, doRequest

-----------------------------------------------------------------------------
(* The parts that do. *)

\* The pending units are units.
LEMMA PendingType ==
  ASSUME TypeOK
  PROVE  /\ Pending \in Seq(Unit) /\ Len(Pending) \in Nat
         /\ stream # <<>> => Pending # <<>> /\ Pending[1] = Head(stream)
         /\ \A i \in 1 .. Len(Pending) :
              Pending[i].part \in {"head", "body", "tail", "rest"} /\ Pending[i].id \in Nat
         /\ Pending # <<>> <=> Len(Pending) > 0
PROOF
  <1>1. stream \in Seq(Unit) /\ wire \in Seq(Unit)
    BY Zenon DEF TypeOK
  <1>2. Pending \in Seq(Unit) /\ Len(Pending) \in Nat
    BY Zenon, <1>1, ConcatProperties, LenProperties DEF Pending
  <1>3. stream # <<>> => Pending # <<>> /\ Pending[1] = Head(stream)
    BY Zenon, <1>1, ReadDrops DEF Pending, Drops
  <1>4. \A i \in 1 .. Len(Pending) : Pending[i] \in Unit
    BY Zenon, <1>2, ElementOfSeq
  <1>5. Pending # <<>> <=> Len(Pending) > 0
    BY <1>2, EmptySeq
  <1> QED BY Zenon, <1>2, <1>3, <1>4, <1>5 DEF Unit

\* While op holds rlock the other operations read nothing.
LEMMA OneReads ==
  ASSUME TypeOK, Mutex, NEW op \in Ops,
         pc[op] \in {"peek", "body", "tail", "batch", "held", "astray"}
  PROVE  rlock = op /\ \A a \in Ops \ {op} : pc[a] \in {"idle", "wait", "returned"}
PROOF
  BY Zenon DEF TypeOK, PCs, Mutex

\* A step that reads a unit, or part of one, or none, keeps the responses in order.
LEMMA BytesCarry ==
  ASSUME TypeOK, TypeOK', Bytes,
         Pending' = Pending \/ Drops(Pending, Pending') \/ Marks(Pending, Pending'),
         \A a \in Ops : pc'[a] = "idle" <=> pc[a] = "idle",
         UNCHANGED <<correlationID, netOpen, requests, id>>
  PROVE  Bytes'
PROOF
  <1> DEFINE p == Pending
             q == Pending'
  <1>1. p \in Seq(Unit) /\ q \in Seq(Unit) /\ Len(p) \in Nat /\ Len(q) \in Nat
    BY Zenon, ConcatProperties, LenProperties DEF TypeOK, Pending
  <1>2. /\ WellFormed(q) /\ Distinct(q)
        /\ netOpen' => Whole(q)
    BY Zenon, <1>1, DropsWellFormed, MarksWellFormed DEF Bytes
  <1>3. ASSUME NEW i \in 1 .. Len(q)
        PROVE  \E k \in 1 .. Len(p) : q[i].id = p[k].id
    <2>1. CASE q = p
      BY Zenon, <2>1
    <2>2. CASE Drops(p, q)
      <3>1. i + 1 \in 1 .. Len(p) /\ q[i] = p[i + 1]
        BY <1>1, <2>2 DEF Drops
      <3> QED BY Zenon, <3>1
    <2>3. CASE Marks(p, q)
      <3>1. i \in 1 .. Len(p) /\ q[i].id = p[i].id
        BY <1>1, <2>3 DEF Marks
      <3> QED BY Zenon, <3>1
    <2> QED BY Zenon, <2>1, <2>2, <2>3
  <1>4. ASSUME netOpen
        PROVE  Asked'
    <2>1. Asked
      BY Zenon, <1>4 DEF Bytes
    <2>2. \A i \in 1 .. Len(requests) : pc'[requests[i]] # "idle"
      <3>1. \A i \in 1 .. Len(requests) : requests[i] \in Ops
        BY DEF TypeOK
      <3> QED BY Zenon, <2>1, <3>1 DEF Asked
    <2>3. ASSUME NEW i \in 1 .. Len(requests), NEW j \in 1 .. Len(q)
          PROVE  q[j].id # id[requests[i]]
      <3>1. PICK k \in 1 .. Len(p) : q[j].id = p[k].id
        BY Zenon, <1>3
      <3>2. p[k].id # id[requests[i]]
        BY Zenon, <2>1 DEF Asked
      <3> QED BY Zenon, <3>1, <3>2
    <2> QED BY Zenon, <2>1, <2>2, <2>3 DEF Asked
  <1>5. ASSUME netOpen
        PROVE  Issued'
    BY Zenon, <1>3, <1>5 DEF Bytes, Issued
  <1> QED BY Zenon, <1>2, <1>4, <1>5 DEF Bytes

\* When no operation stops waiting, those that wait are still waited for.
LEMMA AwaitedCarry ==
  ASSUME TypeOK, TypeOK', Awaited,
         Pending' = Pending \/ Drops(Pending, Pending'),
         \A a \in Ops : Waits(a) => Waits(a)',
         UNCHANGED <<requests, id>>
  PROVE  Awaited'
PROOF
  <1> DEFINE p == Pending
             q == Pending'
  <1>1. p \in Seq(Unit) /\ q \in Seq(Unit) /\ Len(p) \in Nat /\ Len(q) \in Nat
    BY Zenon, ConcatProperties, LenProperties DEF TypeOK, Pending
  <1>2. ASSUME NEW i \in 1 .. Len(q)
        PROVE  \E k \in 1 .. Len(p) : q[i] = p[k]
    <2>1. CASE q = p
      BY Zenon, <2>1
    <2>2. CASE Drops(p, q)
      <3>1. i + 1 \in 1 .. Len(p) /\ q[i] = p[i + 1]
        BY <1>1, <2>2 DEF Drops
      <3> QED BY Zenon, <3>1
    <2> QED BY Zenon, <2>1, <2>2
  <1>3. \A i \in 1 .. Len(requests) : Waits(requests[i])'
    <2>1. \A i \in 1 .. Len(requests) : requests[i] \in Ops
      BY DEF TypeOK
    <2>2. \A i \in 1 .. Len(requests) : Waits(requests[i])
      BY Zenon DEF Awaited
    <2> QED BY Zenon, <2>1, <2>2
  <1>4. ASSUME NEW i \in 1 .. Len(q), q[i].part = "head"
        PROVE  \E op \in Ops : Waits(op)' /\ q[i].id = id'[op]
    <2>1. PICK k \in 1 .. Len(p) : q[i] = p[k]
      BY Zenon, <1>2
    <2>2. PICK op \in Ops : Waits(op) /\ p[k].id = id[op]
      BY Zenon, <1>4, <2>1 DEF Awaited
    <2> QED BY Zenon, <2>1, <2>2
  <1> QED BY Zenon, <1>3, <1>4 DEF Awaited

\* After the connection is closed, an operation reads what it would have read.
LEMMA CloseStep ==
  ASSUME TypeOK, TypeOK', Bytes, Position, CloseNet, UNCHANGED kind,
         \A a \in Ops : \/ pc'[a] = "returned"
                        \/ pc'[a] = pc[a] /\ id'[a] = id[a] /\ result'[a] = result[a]
  PROVE  Bytes' /\ Position' /\ (Clean' => Orderly')
PROOF
  <1>1. /\ ~netOpen' /\ Pending \in Seq(Unit) /\ Pending' \in Seq(Unit)
        /\ Cuts(Pending, Pending')
    BY Zenon, CloseNetType, PendingType
  <1>2. Bytes'
    BY Zenon, <1>1, CutsWellFormed DEF Bytes
  <1>3. Pending' # <<>> => Pending # <<>> /\ Pending'[1] = Pending[1]
    BY Zenon, <1>1, CutsWellFormed
  <1>4. ASSUME NEW a \in Ops, NEW x, Starts(Pending, a, x), id'[a] = id[a]
        PROVE  Pending' # <<>> => Pending'[1].part = x /\ Pending'[1].id = id'[a]
    BY Zenon, <1>3, <1>4 DEF Starts
  <1>5. ASSUME NEW a \in Ops, pc'[a] # "returned"
        PROVE  /\ pc'[a] = pc[a] /\ id'[a] = id[a] /\ result'[a] = result[a]
               /\ kind'[a] = kind[a] /\ Batches(a)' = Batches(a)
               /\ Starts(Pending, a, "body") => Starts(Pending, a, "body")'
               /\ Starts(Pending, a, "tail") => Starts(Pending, a, "tail")'
    BY Zenon, <1>1, <1>4, <1>5 DEF Batches, Starts
  <1>6. Position'
    BY <1>3, <1>5 DEF Position
  <1> QED BY Zenon, <1>1, <1>2, <1>6 DEF Clean

-----------------------------------------------------------------------------
(* The steps of the operations. *)

\* What reading one unit does to the pending ones.
LEMMA DropStep ==
  ASSUME TypeOK, TypeOK', Bytes, stream # <<>>, stream' = Tail(stream), wire' = wire
  PROVE  /\ Drops(Pending, Pending')
         /\ Pending # <<>> /\ Pending[1] = Head(stream)
         /\ Pending' # <<>> => Follows(Pending[1], Pending'[1])
         /\ netOpen /\ Pending[1].part \in {"head", "body"} => Pending' # <<>>
PROOF
  <1>1. Pending \in Seq(Unit) /\ Pending' \in Seq(Unit)
    BY Zenon, ConcatProperties DEF TypeOK, Pending
  <1>2. Drops(Pending, Pending') /\ Pending # <<>> /\ Pending[1] = Head(stream)
    BY ZenonT(60), ReadDrops DEF TypeOK, Pending, Drops
  <1> QED BY Zenon, <1>1, <1>2, DropsWellFormed DEF Bytes

\* A request is written.
LEMMA WriteRequestStep ==
  ASSUME IInv, TypeOK', NEW op \in Ops, WriteRequest(op)
  PROVE  Bytes' /\ Position' /\ (Clean' => Orderly')
PROOF
  <1>1. /\ pc[op] = "idle" /\ netOpen /\ netOpen' /\ correlationID' = correlationID + 1
        /\ requests' = Append(requests, op) /\ UNCHANGED <<kind, result, stream, wire>>
        /\ correlationID \in Nat
    BY Zenon DEF WriteRequest, IInv, TypeOK
  <1>2. Pending' = Pending
    BY Zenon, <1>1 DEF Pending
  <1>3. /\ \A a \in Ops : pc'[a] = IF a = op THEN "wait" ELSE pc[a]
        /\ \A a \in Ops : id'[a] = IF a = op THEN correlationID + 1 ELSE id[a]
    BY Zenon DEF WriteRequest, Goto, IInv, TypeOK
  <1>4. \A i \in 1 .. Len(Pending) : Pending[i].id \in Nat /\ Pending[i].id <= correlationID
    BY Zenon, <1>1, PendingType DEF IInv, Bytes, Issued
  <1>5. Issued'
    BY <1>1, <1>2, <1>4 DEF Issued
  <1>6. \A i \in 1 .. Len(requests) : requests[i] \in Ops /\ requests[i] # op
    <2>1. requests \in Seq(Ops) /\ \A i \in 1 .. Len(requests) : pc[requests[i]] # "idle"
      BY Zenon, <1>1 DEF IInv, Bytes, Asked, TypeOK
    <2>2. \A i \in 1 .. Len(requests) : requests[i] \in Ops
      BY <2>1
    <2> QED BY Zenon, <1>1, <2>1, <2>2
  <1>7. Asked'
    <2>1. Asked /\ requests \in Seq(Ops) /\ Len(requests) \in Nat
      BY Zenon, <1>1, LenProperties DEF IInv, Bytes, TypeOK
    <2>2. /\ Len(requests') = Len(requests) + 1
          /\ \A i \in 1 .. Len(requests) : requests'[i] = requests[i]
          /\ requests'[Len(requests) + 1] = op
      BY <1>1, <2>1
    <2>3. \A i \in 1 .. Len(requests') : i \in 1 .. Len(requests) \/ i = Len(requests) + 1
      BY <2>1, <2>2
    <2>4. \A i \in 1 .. Len(requests') : pc'[requests'[i]] # "idle"
      BY <1>3, <1>6, <2>1, <2>2, <2>3 DEF Asked
    <2>5. \A i, j \in 1 .. Len(requests') : requests'[i] = requests'[j] => i = j
      BY <1>6, <2>1, <2>2, <2>3 DEF Asked
    <2>6. ASSUME NEW i \in 1 .. Len(requests'), NEW j \in 1 .. Len(Pending)
          PROVE  Pending[j].id # id'[requests'[i]]
      <3>1. CASE i \in 1 .. Len(requests)
        BY <1>3, <1>6, <2>1, <2>2, <3>1 DEF Asked
      <3>2. CASE i = Len(requests) + 1
        BY <1>1, <1>3, <1>4, <2>2, <3>2
      <3> QED BY Zenon, <2>3, <3>1, <3>2
    <2> QED BY Zenon, <1>2, <2>4, <2>5, <2>6 DEF Asked
  <1>8. Bytes'
    BY Zenon, <1>1, <1>2, <1>5, <1>7 DEF IInv, Bytes
  <1>9. Position'
    BY ZenonT(60), <1>1, <1>2, <1>3 DEF IInv, Position, Starts, Batches
  <1>10. ASSUME Clean'
         PROVE  Orderly'
    <2>1. Orderly
      BY Zenon, <1>1, <1>10 DEF WriteRequest, Clean, IInv
    <2>2. \A i \in 1 .. Len(requests') : pc'[requests'[i]] \in {"wait", "peek"}
      <3>1. requests \in Seq(Ops) /\ Len(requests) \in Nat
        BY Zenon, LenProperties DEF IInv, TypeOK
      <3>2. /\ Len(requests') = Len(requests) + 1
            /\ \A i \in 1 .. Len(requests) : requests'[i] = requests[i]
            /\ requests'[Len(requests) + 1] = op
        BY <1>1, <3>1
      <3>3. \A i \in 1 .. Len(requests') : i \in 1 .. Len(requests) \/ i = Len(requests) + 1
        BY <3>1, <3>2
      <3>4. \A i \in 1 .. Len(requests) : pc[requests[i]] \in {"wait", "peek"}
        BY Zenon, <2>1 DEF Orderly, Awaited, Waits
      <3>5. \A i \in 1 .. Len(requests) : pc'[requests'[i]] \in {"wait", "peek"}
        BY ZenonT(60), <1>3, <1>6, <3>2, <3>4
      <3>6. pc'[requests'[Len(requests) + 1]] \in {"wait", "peek"}
        BY Zenon, <1>3, <3>2
      <3> QED BY Zenon, <3>3, <3>5, <3>6
    <2>3. Awaited'
      BY ZenonT(60), <1>1, <1>2, <1>3, <2>1, <2>2 DEF Orderly, Awaited, Waits
    <2>4. Begun'
      <3>1. ASSUME Pending # <<>>, Pending[1].part # "head"
            PROVE  \E a \in Ops \ {op} : Expects(a, Pending[1])
        BY Zenon, <1>1, <2>1, <3>1 DEF Orderly, Begun, Expects
      <3> QED BY Zenon, <1>1, <1>2, <1>3, <3>1 DEF Begun, Expects
    <2>5. NoneAstray'
      BY Zenon, <1>3, <2>1 DEF Orderly, NoneAstray
    <2> QED BY Zenon, <2>3, <2>4, <2>5 DEF Orderly
  <1> QED BY Zenon, <1>8, <1>9, <1>10

\* The lock is taken, or given back by an operation that found another id.
LEMMA LockReadStep ==
  ASSUME IInv, TypeOK', NEW op \in Ops, LockRead(op) \/ PeekOther(op)
  PROVE  Bytes' /\ Position' /\ (Clean' => Orderly')
PROOF
  <1>1. UNCHANGED <<kind, correlationID, netOpen, id, result, requests, wire, stream, left>>
    BY Zenon DEF LockRead, PeekOther
  <1>2. Pending' = Pending
    BY Zenon, <1>1 DEF Pending
  <1>3. /\ pc[op] \in {"wait", "peek"} /\ pc'[op] \in {"wait", "peek"}
        /\ \A a \in Ops \ {op} : pc'[a] = pc[a]
    BY Zenon DEF LockRead, PeekOther, Goto, IInv, TypeOK
  <1>4. Bytes'
    BY Zenon, <1>1, <1>2, <1>3, BytesCarry DEF IInv
  <1>5. Position'
    BY Zenon, <1>1, <1>2, <1>3 DEF IInv, Position, Starts, Batches
  <1>6. ASSUME Clean'
        PROVE  Orderly'
    <2>1. Orderly
      BY Zenon, <1>1, <1>6 DEF Clean, IInv
    <2>2. Awaited'
      BY Zenon, <1>1, <1>2, <1>3, <2>1, AwaitedCarry DEF IInv, Orderly, Waits
    <2>3. Begun'
      <3>1. ASSUME Pending # <<>>, Pending[1].part # "head"
            PROVE  \E a \in Ops \ {op} : Expects(a, Pending[1])
        BY Zenon, <1>3, <2>1, <3>1 DEF Orderly, Begun, Expects
      <3> QED BY Zenon, <1>1, <1>2, <1>3, <3>1 DEF Begun, Expects
    <2>4. NoneAstray'
      BY Zenon, <1>3, <2>1 DEF Orderly, NoneAstray
    <2> QED BY Zenon, <2>2, <2>3, <2>4 DEF Orderly
  <1> QED BY Zenon, <1>4, <1>5, <1>6

\* An operation finds its id.
LEMMA PeekOwnStep ==
  ASSUME IInv, TypeOK', NEW op \in Ops, PeekOwn(op), Head(stream).part = "head"
  PROVE  Bytes' /\ Position' /\ (Clean' => Orderly')
PROOF
  <1> DEFINE p == Pending
             q == Pending'
  <1>1. /\ stream # <<>> /\ stream' = Tail(stream) /\ pc[op] = "peek"
        /\ Head(stream).part = "head" /\ Head(stream).id = id[op]
        /\ UNCHANGED <<kind, correlationID, netOpen, id, result, requests, wire, left>>
        /\ pc'[op] = "body" /\ \A a \in Ops \ {op} : pc'[a] = pc[a]
    BY Zenon DEF PeekOwn, Peekable, OwnHead, PeekedIDs, Goto, IInv, TypeOK
  <1>2. \A a \in Ops \ {op} : pc[a] \in {"idle", "wait", "returned"}
    BY Zenon, <1>1, OneReads DEF IInv
  <1>3. /\ Drops(p, q) /\ p # <<>> /\ p[1] = Head(stream)
        /\ q # <<>> => q[1].part = "body" /\ q[1].id = id[op]
        /\ netOpen => q # <<>>
    BY Zenon, <1>1, DropStep DEF IInv, Follows
  <1>4. /\ p \in Seq(Unit) /\ q \in Seq(Unit) /\ Len(p) \in Nat \ {0} /\ Len(q) \in Nat
    BY Zenon, <1>3, ConcatProperties, LenProperties, EmptySeq DEF IInv, TypeOK, Pending
  <1>5. \A i \in 1 .. Len(q) : i + 1 \in 1 .. Len(p) /\ q[i] = p[i + 1]
    BY <1>3, <1>4 DEF Drops
  <1>6. Bytes'
    BY Zenon, <1>1, <1>3, BytesCarry DEF IInv
  <1>7. Position'
    BY Zenon, <1>1, <1>2, <1>3 DEF Position, Starts
  <1>8. ASSUME Clean'
        PROVE  Orderly'
    <2>1. Orderly /\ Asked /\ Distinct(p)
      BY Zenon, <1>1, <1>8 DEF Clean, IInv, Bytes
    <2>2. \A i \in 1 .. Len(requests) : pc'[requests[i]] \in {"wait", "peek"}
      <3>1. \A i \in 1 .. Len(requests) : requests[i] \in Ops
        BY DEF IInv, TypeOK
      <3>2. \A i \in 1 .. Len(requests) : p[1].id # id[requests[i]]
        BY <1>4, <2>1 DEF Asked
      <3>3. \A i \in 1 .. Len(requests) : requests[i] # op
        BY Zenon, <1>1, <1>3, <3>2
      <3> QED BY Zenon, <1>1, <2>1, <3>1, <3>3 DEF Orderly, Awaited, Waits
    <2>3. ASSUME NEW i \in 1 .. Len(q), q[i].part = "head"
          PROVE  \E a \in Ops : pc'[a] \in {"wait", "peek"} /\ q[i].id = id[a]
      <3>1. PICK a \in Ops : Waits(a) /\ p[i + 1].id = id[a]
        BY Zenon, <1>5, <2>1, <2>3 DEF Orderly, Awaited
      <3>2. a # op
        <4>1. SUFFICES ASSUME a = op PROVE FALSE
          BY Zenon
        <4>2. i + 1 = 1
          <5>1. 1 \in 1 .. Len(p) /\ i + 1 \in 1 .. Len(p)
            BY <1>4, <1>5
          <5>2. p[1].part = "head" /\ p[1].id = id[op]
            BY Zenon, <1>1, <1>3
          <5>3. p[i + 1].part = "head" /\ p[i + 1].id = id[op]
            BY Zenon, <1>5, <2>3, <3>1, <4>1
          <5> HIDE DEF p
          <5> QED BY Zenon, <2>1, <5>1, <5>2, <5>3 DEF Distinct
        <4> QED BY <4>2
      <3> QED BY Zenon, <1>1, <1>5, <3>1, <3>2 DEF Waits
    <2>4. Awaited'
      BY Zenon, <1>1, <2>2, <2>3 DEF Awaited, Waits
    <2>5. Begun'
      BY Zenon, <1>1, <1>3 DEF Begun, Expects
    <2>6. NoneAstray'
      BY Zenon, <1>1, <2>1 DEF Orderly, NoneAstray
    <2> QED BY Zenon, <2>4, <2>5, <2>6 DEF Orderly
  <1> QED BY Zenon, <1>6, <1>7, <1>8

\* An operation takes other bytes for its own, which it can only where the
\* connection is not as it should be, and reads them.
LEMMA AstrayStep ==
  ASSUME IInv, TypeOK', NEW op \in Ops,
         \/ PeekOwn(op) /\ Head(stream).part # "head"
         \/ AstrayRead(op)
         \/ AstrayFails(op) /\ kind[op] = "versions"
  PROVE  Bytes' /\ Position' /\ (Clean' => Orderly')
PROOF
  <1>1. /\ UNCHANGED <<kind, correlationID, netOpen, id, requests, wire, left>>
        /\ pc[op] \in {"peek", "astray"} /\ pc'[op] \in {"astray", "returned"}
        /\ \A a \in Ops \ {op} : pc'[a] = pc[a]
    BY Zenon DEF PeekOwn, AstrayRead, AstrayFails, Return, Goto, IInv, TypeOK
  <1>2. \A a \in Ops \ {op} : pc[a] \in {"idle", "wait", "returned"}
    BY Zenon, <1>1, OneReads DEF IInv
  <1>3. stream \in Seq(Unit) /\ wire \in Seq(Unit)
    BY Zenon DEF IInv, TypeOK
  <1>4. stream' = stream \/ (stream # <<>> /\ (stream' = Tail(stream) \/ stream' = Broken))
    BY Zenon DEF PeekOwn, Peekable, AstrayRead, AstrayFails
  <1>5. Pending' = Pending \/ Drops(Pending, Pending') \/ Marks(Pending, Pending')
    BY Zenon, <1>1, <1>3, <1>4, ReadDrops, BreakMarks DEF Pending, Broken
  <1>6. \A a \in Ops : pc'[a] = "idle" <=> pc[a] = "idle"
    BY Zenon, <1>1
  <1>7. Bytes'
    BY Zenon, <1>1, <1>5, <1>6, BytesCarry DEF IInv
  <1>8. Position'
    BY Zenon, <1>1, <1>2 DEF Position
  <1>9. ~Clean
    <2> SUFFICES ASSUME Orderly PROVE FALSE
      BY Zenon DEF IInv
    <2>1. pc[op] = "peek" /\ stream # <<>> /\ Head(stream).part # "head"
      BY Zenon DEF PeekOwn, Peekable, AstrayRead, AstrayFails, Orderly, NoneAstray
    <2>2. PICK a \in Ops : Expects(a, Head(stream))
      BY Zenon, <2>1, PendingType DEF IInv, Orderly, Begun
    <2>3. pc[a] \in {"body", "tail", "batch", "held"}
      BY Zenon, <2>1, <2>2 DEF Expects
    <2> QED BY Zenon, <1>2, <2>1, <2>3
  <1> QED BY Zenon, <1>1, <1>7, <1>8, <1>9 DEF Clean

\* The body and the tail are read by the operation that they are for.
LEMMA ReadStep ==
  ASSUME IInv, TypeOK', NEW op \in Ops,
         BodyOK(op) \/ BodyError(op) \/ ReadTail(op) \/ BatchClose(op)
  PROVE  Bytes' /\ Position' /\ (Clean' => Orderly')
PROOF
  <1> DEFINE p == Pending
             q == Pending'
  <1>1. /\ stream # <<>> /\ stream' = Tail(stream) /\ pc[op] \in {"body", "tail", "batch"}
        /\ UNCHANGED <<kind, correlationID, netOpen, id, requests, wire>>
        /\ pc'[op] \notin {"idle", "wait", "peek", "astray"}
        /\ \A a \in Ops \ {op} : pc'[a] = pc[a]
    BY Zenon DEF BodyOK, BodyError, ReadTail, BatchClose, Return, Goto, IInv, TypeOK
  <1>2. \A a \in Ops \ {op} : pc[a] \in {"idle", "wait", "returned"}
    BY Zenon, <1>1, OneReads DEF IInv
  <1>3. /\ Drops(p, q) /\ p # <<>> /\ p[1] = Head(stream)
        /\ q # <<>> => Follows(p[1], q[1])
        /\ netOpen /\ p[1].part \in {"head", "body"} => q # <<>>
    BY Zenon, <1>1, DropStep DEF IInv
  <1>4. Bytes'
    <2>1. \A a \in Ops : pc'[a] = "idle" <=> pc[a] = "idle"
      BY Zenon, <1>1
    <2> QED BY Zenon, <1>1, <1>3, <2>1, BytesCarry DEF IInv
  <1>5. /\ pc[op] = "body" => p[1].part = "body" /\ p[1].id = id[op]
        /\ pc[op] # "body" => p[1].part = "tail"
    BY Zenon, <1>1, <1>3 DEF IInv, Position, Starts
  <1>6. ASSUME Clean'
        PROVE  Clean /\ Awaited' /\ NoneAstray'
    <2>1. Clean
      BY Zenon, <1>1, <1>6 DEF BodyOK, BodyError, ReadTail, BatchClose, Leave, Clean
    <2>2. Awaited /\ NoneAstray
      BY Zenon, <2>1 DEF IInv, Orderly
    <2>3. \A a \in Ops : Waits(a) => Waits(a)'
      BY Zenon, <1>1 DEF Waits
    <2>4. Awaited'
      BY Zenon, <1>1, <1>3, <2>2, <2>3, AwaitedCarry DEF IInv
    <2> QED BY Zenon, <1>1, <2>1, <2>2, <2>4 DEF NoneAstray
  <1>7. CASE pc[op] = "body"
    <2>1. /\ q # <<>> => q[1].part = "tail" /\ q[1].id = id[op]
          /\ netOpen => q # <<>>
      BY Zenon, <1>3, <1>5, <1>7 DEF Follows
    <2>2. CASE BodyOK(op)
      <3>1. pc'[op] = IF Batches(op) THEN "batch" ELSE "tail"
        BY Zenon, <2>2 DEF BodyOK, Goto, IInv, TypeOK
      <3>2. Position'
        BY Zenon, <1>1, <1>2, <2>1, <3>1 DEF Position, Starts, Batches
      <3>3. Begun'
        BY Zenon, <1>1, <2>1, <3>1 DEF Begun, Expects
      <3> QED BY Zenon, <1>4, <1>6, <3>2, <3>3 DEF Orderly
    <2>3. CASE BodyError(op)
      <3>1. /\ result'[op] = "kafka"
            /\ \/ kind[op] = "produce" /\ pc'[op] = "returned" /\ left' # {}
               \/ kind[op] = "fetch5" /\ pc'[op] = "held"
               \/ kind[op] \in {"plain", "fetch2", "versions"} /\ pc'[op] = "tail"
        BY Zenon, <2>3 DEF BodyError, Leave, Goto, IInv, TypeOK
      <3>2. Position'
        BY <1>1, <1>2, <2>1, <3>1 DEF Position, Starts, Batches
      <3>3. Clean' => Begun'
        BY Zenon, <1>1, <2>1, <3>1 DEF Begun, Expects, Clean
      <3> QED BY Zenon, <1>4, <1>6, <3>2, <3>3 DEF Orderly
    <2> QED BY Zenon, <1>7, <2>2, <2>3 DEF ReadTail, BatchClose
  <1>8. CASE pc[op] # "body"
    <2>1. q # <<>> => q[1].part = "head"
      BY Zenon, <1>3, <1>5, <1>8 DEF Follows
    <2>2. Begun'
      BY Zenon, <2>1 DEF Begun
    <2>3. CASE ReadTail(op)
      <3>1. /\ Batches(op) => pc'[op] = "held" /\ result'[op] = result[op]
            /\ ~Batches(op) => pc'[op] = "returned"
            /\ pc[op] = "tail"
        BY Zenon, <2>3 DEF ReadTail, Return, Goto, IInv, TypeOK
      <3>2. kind[op] # "fetch5" /\ (kind[op] = "fetch2" => result[op] = "kafka")
        BY Zenon, <3>1 DEF IInv, Position
      <3>3. Position'
        BY Zenon, <1>1, <1>2, <2>1, <3>1, <3>2 DEF Position, Starts, Batches
      <3> QED BY Zenon, <1>4, <1>6, <2>2, <3>3 DEF Orderly
    <2>4. CASE BatchClose(op)
      <3>1. pc'[op] = "returned"
        BY Zenon, <2>4 DEF BatchClose, Return, Goto, IInv, TypeOK
      <3>2. Position'
        BY Zenon, <1>1, <1>2, <3>1 DEF Position
      <3> QED BY Zenon, <1>4, <1>6, <2>2, <3>2 DEF Orderly
    <2> QED BY Zenon, <1>8, <2>3, <2>4 DEF BodyOK, BodyError
  <1> QED BY Zenon, <1>7, <1>8

\* An operation fails, or a Batch is closed, and the connection stays as it is.
LEMMA StayStep ==
  ASSUME IInv, TypeOK', NEW op \in Ops,
         \/ FetchError(op)
         \/ VersionsError(op)
         \/ BatchReadFails(op)
         \/ BatchCloseInside(op)
         \/ BatchDiscardFails(op)
         \/ BatchCloseError(op) /\ result[op] # "failed"
  PROVE  Bytes' /\ Position' /\ (Clean' => Orderly')
PROOF
  <1>1. /\ UNCHANGED <<kind, correlationID, netOpen, id, requests, wire, stream>>
        /\ pc[op] \in {"body", "tail", "batch", "held"}
        /\ pc'[op] \in {"held", "returned"}
        /\ \A a \in Ops \ {op} : pc'[a] = pc[a]
    BY Zenon DEF FetchError, VersionsError, Unreadable, Garbled, BatchReadFails, BatchCloseInside,
                 BatchDiscardFails, BatchCloseError, Return, Goto, IInv, TypeOK
  <1>2. Pending' = Pending
    BY Zenon, <1>1 DEF Pending
  <1>3. \A a \in Ops \ {op} : pc[a] \in {"idle", "wait", "returned"}
    BY Zenon, <1>1, OneReads DEF IInv
  <1>4. Bytes'
    <2>1. \A a \in Ops : pc'[a] = "idle" <=> pc[a] = "idle"
      BY Zenon, <1>1
    <2> QED BY Zenon, <1>1, <1>2, <2>1, BytesCarry DEF IInv
  <1>5. ASSUME Clean'
        PROVE  Clean /\ Awaited' /\ NoneAstray'
    <2>1. Clean
      BY Zenon, <1>1, <1>5 DEF FetchError, VersionsError, BatchReadFails, BatchCloseInside,
                               BatchDiscardFails, BatchCloseError, Leave, Clean
    <2>2. Awaited /\ NoneAstray
      BY Zenon, <2>1 DEF IInv, Orderly
    <2>3. \A a \in Ops : Waits(a) => Waits(a)'
      BY Zenon, <1>1 DEF Waits
    <2>4. Awaited'
      BY Zenon, <1>1, <1>2, <2>2, <2>3, AwaitedCarry DEF IInv
    <2> QED BY Zenon, <1>1, <2>1, <2>2, <2>4 DEF NoneAstray
  <1>6. CASE FetchError(op) \/ BatchReadFails(op)
    <2>1. /\ pc'[op] = "held" /\ Batches(op) /\ pc[op] # "held"
          /\ result'[op] \in {"failed", "timeout"}
      BY ZenonT(60), <1>6 DEF FetchError, Unreadable, Garbled, BatchReadFails, Goto, IInv,
               TypeOK, Position
    <2>2. Position'
      BY Zenon, <1>1, <1>3, <2>1 DEF Position, Batches
    <2>3. Begun'
      <3>1. Pending # <<>> => Pending[1].part \in {"body", "tail"} /\ Pending[1].id = id[op]
        BY Zenon, <1>1, <2>1 DEF IInv, Position, Starts
      <3> QED BY Zenon, <1>1, <1>2, <2>1, <3>1 DEF Begun, Expects
    <2> QED BY Zenon, <1>4, <1>5, <2>2, <2>3 DEF Orderly
  <1>7. CASE VersionsError(op) \/ BatchCloseInside(op) \/ BatchDiscardFails(op)
    <2>1. pc'[op] = "returned" /\ left' # {}
      BY Zenon, <1>7 DEF VersionsError, BatchCloseInside, BatchDiscardFails, Leave, Return, Goto,
                         IInv, TypeOK
    <2>2. Position'
      BY Zenon, <1>1, <1>3, <2>1 DEF Position
    <2> QED BY Zenon, <1>4, <2>1, <2>2 DEF Clean
  <1>8. CASE BatchCloseError(op) /\ result[op] # "failed"
    <2>1. /\ pc[op] = "held" /\ pc'[op] = "returned" /\ Batches(op)
          /\ result[op] \in {"kafka", "timeout"}
      BY Zenon, <1>8 DEF BatchCloseError, Goto, IInv, TypeOK, Position
    <2>2. Position'
      BY Zenon, <1>1, <1>3, <2>1 DEF Position
    <2>3. CASE result[op] = "timeout" \/ kind[op] = "fetch5"
      <3>1. left' # {}
        BY Zenon, <1>8, <2>3 DEF BatchCloseError, Leave
      <3> QED BY Zenon, <1>4, <2>2, <3>1 DEF Clean
    <2>4. CASE result[op] = "kafka" /\ kind[op] = "fetch2"
      <3>1. Begun'
        BY Zenon, <1>2, <2>1, <2>4 DEF IInv, Position, Begun
      <3> QED BY Zenon, <1>4, <1>5, <2>2, <3>1 DEF Orderly
    <2> QED BY Zenon, <2>1, <2>3, <2>4 DEF Batches
  <1> QED BY Zenon, <1>6, <1>7, <1>8

\* A unit arrives, or nothing happens.
LEMMA DeliverStep ==
  ASSUME IInv, TypeOK', Deliver \/ UNCHANGED vars
  PROVE  Bytes' /\ Position' /\ (Clean' => Orderly')
PROOF
  <1>1. UNCHANGED <<kind, correlationID, netOpen, pc, id, result, requests, left>>
    BY Zenon DEF Deliver, vars, opVars
  <1>2. Pending' = Pending
    BY Zenon, DeliverKeeps DEF Deliver, vars, Pending, IInv, TypeOK
  <1>3. Bytes'
    BY Zenon, <1>1, <1>2, BytesCarry DEF IInv
  <1>4. Position'
    BY Zenon, <1>1, <1>2 DEF IInv, Position, Starts, Batches
  <1>5. Clean' => Orderly'
    BY Zenon, <1>1, <1>2 DEF IInv, Clean, Orderly, Awaited, Waits, Begun, Expects, NoneAstray
  <1> QED BY Zenon, <1>3, <1>4, <1>5

\* The broker answers the oldest request.
LEMMA BrokerStep ==
  ASSUME IInv, TypeOK', Broker
  PROVE  Bytes' /\ Position' /\ (Clean' => Orderly')
PROOF
  <1> DEFINE op == Head(requests)
             p == Pending
             q == Pending'
             n == Len(Pending)
  <1>1. /\ UNCHANGED <<kind, correlationID, netOpen, pc, id, result, stream, left>>
        /\ requests # <<>> /\ requests' = Tail(requests) /\ netOpen
    BY Zenon DEF Broker, opVars, IInv, Closed
  <1>2. PICK code \in Codes : wire' = wire \o Response(op, code)
    BY Zenon DEF Broker
  <1>3. /\ op \in Ops /\ op = requests[1] /\ requests \in Seq(Ops) /\ Len(requests) \in Nat \ {0}
        /\ Len(Tail(requests)) = Len(requests) - 1
        /\ \A i \in 1 .. Len(requests) - 1 : requests'[i] = requests[i + 1]
    BY <1>1, HeadTailProperties, EmptySeq DEF IInv, TypeOK
  <1> DEFINE r == Response(op, code)
  <1>4. /\ r \in Seq(Unit) /\ Len(r) = 3 /\ \A i \in 1 .. 3 : r[i].id = id[op]
        /\ r[1].part = "head" /\ r[2].part = "body" /\ r[3].part = "tail"
    BY ZenonT(60), <1>3, ResponseType DEF IInv
  <1> HIDE DEF r, op
  <1>5. p \in Seq(Unit) /\ n \in Nat /\ (p # <<>> <=> n > 0)
    BY Zenon, PendingType DEF IInv
  <1>6. q = p \o r
    <2>1. stream \in Seq(Unit) /\ wire \in Seq(Unit)
      BY Zenon DEF IInv, TypeOK
    <2>2. q = stream \o (wire \o r)
      BY Zenon, <1>1, <1>2 DEF Pending, r
    <2>3. (stream \o wire) \o r = stream \o (wire \o r)
      BY SMTT(40), <1>4, <2>1, ConcatAssociative
    <2> QED BY Zenon, <2>2, <2>3 DEF Pending
  <1>7. /\ q \in Seq(Unit) /\ Len(q) = n + 3
        /\ \A i \in 1 .. n : q[i] = p[i]
        /\ q[n + 1] = r[1] /\ q[n + 2] = r[2] /\ q[n + 3] = r[3]
    <2> HIDE DEF p, q
    <2>1. n = Len(p)
      BY Zenon DEF p
    <2> HIDE DEF n
    <2>2. /\ q \in Seq(Unit) /\ Len(q) = n + 3
          /\ \A i \in 1 .. n + 3 : q[i] = IF i <= n THEN p[i] ELSE r[i - n]
      <3>1. /\ p \o r \in Seq(Unit) /\ Len(p \o r) = Len(p) + Len(r)
            /\ \A i \in 1 .. Len(p) + Len(r) :
                 (p \o r)[i] = IF i <= Len(p) THEN p[i] ELSE r[i - Len(p)]
        BY Zenon, <1>4, <1>5, ConcatProperties
      <3> QED BY Zenon, <1>4, <1>6, <2>1, <3>1
    <2>3. (n + 1) - n = 1 /\ (n + 2) - n = 2 /\ (n + 3) - n = 3
      BY <1>5
    <2> QED BY SMTT(40), <1>5, <2>2, <2>3
  <1>8. \A i \in 1 .. Len(q) : i \in 1 .. n \/ i = n + 1 \/ i = n + 2 \/ i = n + 3
    BY SMTT(40), <1>5, <1>7
  <1>9. Whole(p) /\ Issued /\ Asked /\ WellFormed(p) /\ Distinct(p)
    BY Zenon, <1>1 DEF IInv, Bytes
  <1>10. p # <<>> => q # <<>> /\ q[1] = p[1]
    BY <1>5, <1>7, EmptySeq
  <1>11. ASSUME p = <<>>
         PROVE  q[1].part = "head"
    BY <1>4, <1>5, <1>7, <1>11
  <1> HIDE DEF p, q, n
  <1>12. WellFormed(q) /\ Whole(q)
    <2>1. ASSUME NEW i \in 1 .. n, i # n
          PROVE  Follows(q[i], q[i + 1])
      <3>1. n = Len(p)
        BY Zenon DEF n, p
      <3> QED BY <1>5, <1>7, <1>9, <2>1, <3>1 DEF WellFormed
    <2>2. n > 0 => Follows(q[n], q[n + 1])
      <3>1. n = Len(p)
        BY Zenon DEF n, p
      <3>2. n > 0 => p[n].part \in {"tail", "rest"}
        BY Zenon, <1>5, <1>9, <3>1 DEF Whole
      <3> QED BY SMTT(40), <1>4, <1>5, <1>7, <3>2 DEF Follows
    <2>3. Follows(q[n + 1], q[n + 2]) /\ Follows(q[n + 2], q[n + 3])
      BY <1>4, <1>7 DEF Follows
    <2>4. ASSUME NEW i \in 1 .. Len(q) - 1
          PROVE  Follows(q[i], q[i + 1])
      <3>1. (i \in 1 .. n /\ i # n) \/ (i = n /\ n > 0) \/ i = n + 1 \/ i = n + 2
        BY <1>5, <1>7
      <3>2. n + 1 + 1 = n + 2 /\ n + 2 + 1 = n + 3
        BY <1>5
      <3> QED BY Zenon, <2>1, <2>2, <2>3, <3>1, <3>2
    <2>5. Whole(q)
      BY Zenon, <1>4, <1>7 DEF Whole
    <2> QED BY Zenon, <2>4, <2>5 DEF WellFormed
  <1>13. \A i \in 1 .. n : p[i].id # id[op]
    BY <1>3, <1>9 DEF Asked, p, n
  <1>14. Distinct(q)
    <2>1. ASSUME NEW i \in 1 .. Len(q), q[i].part = "head"
          PROVE  (i \in 1 .. n /\ q[i] = p[i]) \/ (i = n + 1 /\ q[i].id = id[op])
      BY <1>4, <1>7, <1>8, <2>1
    <2>2. ASSUME NEW i \in 1 .. Len(q), NEW j \in 1 .. Len(q),
                 q[i].part = "head", q[j].part = "head", q[i].id = q[j].id
          PROVE  i = j
      <3>1. (i \in 1 .. n /\ q[i] = p[i]) \/ (i = n + 1 /\ q[i].id = id[op])
        BY Zenon, <2>1, <2>2
      <3>2. (j \in 1 .. n /\ q[j] = p[j]) \/ (j = n + 1 /\ q[j].id = id[op])
        BY Zenon, <2>1, <2>2
      <3> QED BY Zenon, <1>9, <1>13, <2>2, <3>1, <3>2 DEF Distinct, p, n
    <2> QED BY Zenon, <2>2 DEF Distinct
  <1>15. Issued'
    <2>1. id[op] <= correlationID
      BY <1>3 DEF IInv, TypeOK
    <2>2. \A i \in 1 .. n : p[i].id <= correlationID
      BY Zenon, <1>9 DEF Issued, p, n
    <2>3. \A i \in 1 .. Len(q) : q[i].id <= correlationID
      BY <1>4, <1>7, <1>8, <2>1, <2>2
    <2> QED BY Zenon, <1>1, <2>3 DEF Issued, q
  <1>17. Asked'
    <2>1. \A i \in 1 .. Len(requests') : i + 1 \in 1 .. Len(requests) /\ requests'[i] = requests[i + 1]
      BY <1>1, <1>3
    <2>2. \A i \in 1 .. Len(requests') : requests'[i] \in Ops /\ requests'[i] # op
      <3>1. \A i \in 1 .. Len(requests) : requests[i] = requests[1] => i = 1
        BY <1>3, <1>9 DEF Asked
      <3>2. \A i \in 1 .. Len(requests) : requests[i] \in Ops
        BY DEF IInv, TypeOK
      <3> QED BY <1>3, <2>1, <3>1, <3>2
    <2>3. \A i \in 1 .. Len(requests') : pc[requests'[i]] # "idle"
      <3>1. \A i \in 1 .. Len(requests) : pc[requests[i]] # "idle"
        BY Zenon, <1>9 DEF Asked
      <3> QED BY Zenon, <2>1, <3>1
    <2>4. \A i, j \in 1 .. Len(requests') : requests'[i] = requests'[j] => i = j
      <3> SUFFICES ASSUME NEW i \in 1 .. Len(requests'), NEW j \in 1 .. Len(requests'),
                          requests'[i] = requests'[j]
                   PROVE  i = j
        BY Zenon
      <3>1. i + 1 = j + 1
        BY <1>9, <2>1 DEF Asked
      <3> QED BY <3>1
    <2>5. ASSUME NEW i \in 1 .. Len(requests'), NEW j \in 1 .. Len(q)
          PROVE  q[j].id # id[requests'[i]]
      <3>1. CASE j \in 1 .. n
        <4>1. \A k \in 1 .. Len(requests), l \in 1 .. n : p[l].id # id[requests[k]]
          BY Zenon, <1>9 DEF Asked, p, n
        <4> QED BY SMTT(40), <1>7, <2>1, <3>1, <4>1
      <3>2. CASE j \notin 1 .. n
        <4>1. q[j].id = id[op]
          BY <1>4, <1>7, <1>8, <3>2
        <4>2. pc[op] # "idle" /\ pc[requests'[i]] # "idle"
          BY <1>3, <1>9, <2>3 DEF Asked
        <4>3. id[requests'[i]] # id[op]
          BY Zenon, <1>3, <2>2, <4>2 DEF IInv, Ids
        <4> QED BY Zenon, <4>1, <4>3
      <3> QED BY Zenon, <3>1, <3>2
    <2> QED BY Zenon, <1>1, <2>3, <2>4, <2>5 DEF Asked, q
  <1>18. Bytes'
    BY Zenon, <1>12, <1>14, <1>15, <1>17 DEF Bytes, q
  <1>19. ASSUME Clean'
         PROVE  Orderly'
    <2>1. Awaited /\ Begun /\ NoneAstray
      BY Zenon, <1>1, <1>19 DEF Clean, IInv, Orderly
    <2>2. Waits(op)
      BY <1>3, <2>1 DEF Awaited
    <2>3. ASSUME NEW i \in 1 .. Len(q), q[i].part = "head"
          PROVE  \E a \in Ops : Waits(a) /\ q[i].id = id[a]
      <3>1. CASE i \in 1 .. n
        BY <1>7, <2>1, <2>3, <3>1 DEF Awaited, p, n
      <3>2. CASE i = n + 1
        BY <1>3, <1>4, <1>7, <2>2, <3>2
      <3> QED BY Zenon, <1>4, <1>7, <1>8, <2>3, <3>1, <3>2
    <2>4. \A i \in 1 .. Len(requests') : Waits(requests'[i])
      BY <1>1, <1>3, <2>1 DEF Awaited
    <2>5. Awaited'
      BY Zenon, <1>1, <2>3, <2>4 DEF Awaited, Waits, q
    <2>6. Begun'
      BY Zenon, <1>1, <1>10, <1>11, <2>1 DEF Begun, Expects, p, q
    <2>7. NoneAstray'
      BY Zenon, <1>1, <2>1 DEF NoneAstray
    <2> QED BY Zenon, <2>5, <2>6, <2>7 DEF Orderly
  <1>20. Position'
    <2>1. ASSUME NEW a \in Ops, NEW x, Starts(p, a, x)
          PROVE  q # <<>> /\ q[1].part = x /\ q[1].id = id[a]
      BY Zenon, <1>1, <1>10, <2>1 DEF Starts
    <2> QED BY <1>1, <1>10, <1>11, <2>1 DEF IInv, Position, Starts, Batches, p, q
  <1> QED BY Zenon, <1>18, <1>19, <1>20

-----------------------------------------------------------------------------
(* The theorems. *)

\* The initial states satisfy the invariant.
LEMMA InitInv == Init => IInv
PROOF
  <1> SUFFICES ASSUME Init PROVE IInv
    BY Zenon
  <1>1. TypeOK
    BY ConnAssumption, EmptySeq DEF Init, TypeOK, PCs
  <1>2. Pending = <<>> /\ Len(Pending) = 0
    BY Zenon, ConcatEmptySeq, EmptySeq DEF Init, Pending
  <1>3. Mutex /\ Closed /\ Ids
    BY Zenon, ConnAssumption DEF Init, Mutex, Closed, Ids
  <1>4. Bytes
    BY <1>2 DEF Init, Bytes, WellFormed, Distinct, Whole, Issued, Asked
  <1>5. Position /\ Begun /\ NoneAstray
    BY Zenon, <1>2 DEF Init, Position, Begun, NoneAstray, Starts
  <1>6. Awaited
    BY <1>2 DEF Init, Awaited
  <1> QED BY Zenon, <1>1, <1>3, <1>4, <1>5, <1>6 DEF IInv, Orderly

\* Every step keeps it.
LEMMA NextInv == IInv /\ [Next]_vars => IInv'
PROOF
  <1> SUFFICES ASSUME IInv, [Next]_vars PROVE IInv'
    BY Zenon
  <1>1. TypeOK'
    BY Zenon, TypeStep DEF IInv
  <1>2. Mutex' /\ Ids' /\ Closed'
    BY Zenon, LockStep DEF IInv
  <1>3. ASSUME NEW op \in Ops,
               \/ WriteFails(op) \/ PeekFails(op) \/ ReadError(op)
               \/ AstrayFails(op) /\ kind[op] # "versions"
        PROVE  Bytes' /\ Position' /\ (Clean' => Orderly')
    BY Zenon, <1>1, <1>3, CloseStep DEF IInv, WriteFails, PeekFails, ReadError, AstrayFails, Return,
                                        Goto, TypeOK
  <1>4. ASSUME NEW op \in Ops, BatchCloseError(op), result[op] = "failed"
        PROVE  Bytes' /\ Position' /\ (Clean' => Orderly')
    BY Zenon, <1>1, <1>4, CloseStep DEF IInv, BatchCloseError, Goto, TypeOK
  <1>5. ASSUME ConnClose
        PROVE  Bytes' /\ Position' /\ (Clean' => Orderly')
    BY Zenon, <1>1, <1>5, CloseStep DEF IInv, ConnClose, opVars
  <1>6. ASSUME NEW op \in Ops, doRequest(op) \/ LockRead(op) \/ waitResponse(op)
        PROVE  Bytes' /\ Position' /\ (Clean' => Orderly')
    BY Zenon, <1>1, <1>3, <1>6, WriteRequestStep, LockReadStep, PeekOwnStep, AstrayStep
       DEF doRequest, waitResponse
  <1>7. ASSUME NEW op \in Ops, readBody(op) \/ batch(op) \/ astray(op)
        PROVE  Bytes' /\ Position' /\ (Clean' => Orderly')
    BY Zenon, <1>1, <1>3, <1>4, <1>7, ReadStep, StayStep, AstrayStep DEF readBody, batch, astray
  <1>8. Bytes' /\ Position' /\ (Clean' => Orderly')
    BY Zenon, <1>1, <1>5, <1>6, <1>7, BrokerStep, DeliverStep DEF Next
  <1> QED BY Zenon, <1>1, <1>2, <1>8 DEF IInv

\* The variables of Conn keep their types: the type of a Conn that any number
\* of goroutines use, fail on and close.
THEOREM TypeCorrect == Spec => []TypeOK
PROOF
  <1>1. IInv => TypeOK
    BY Zenon DEF IInv
  <1> QED BY <1>1, InitInv, NextInv, PTL DEF Spec

\* Whoever reads a response holds rlock and reads its own, for any number of
\* operations on the Conn and whatever fails; and none takes other bytes for its
\* own before part of a response was left behind or the connection closed.
THEOREM OwnResponse == Spec => []ReadsOwnResponse
PROOF
  <1>1. IInv => ReadsOwnResponse
    <2> SUFFICES ASSUME IInv, NEW op \in Ops
                 PROVE  /\ pc[op] \in {"body", "tail", "batch"} =>
                             rlock = op /\ (stream # <<>> => Expects(op, Head(stream)))
                        /\ pc[op] = "astray" => rlock = op /\ (left # {} \/ ~netOpen)
      BY Zenon DEF ReadsOwnResponse
    <2>1. pc[op] \in {"body", "tail", "batch", "astray"} => rlock = op
      BY Zenon DEF IInv, Mutex
    <2>2. ASSUME pc[op] \in {"body", "tail", "batch"}, stream # <<>>
          PROVE  Expects(op, Head(stream))
      BY Zenon, <2>2, PendingType DEF IInv, Position, Starts, Expects
    <2>3. pc[op] = "astray" => left # {} \/ ~netOpen
      BY Zenon DEF IInv, Clean, Orderly, NoneAstray
    <2> QED BY Zenon, <2>1, <2>2, <2>3
  <1> QED BY <1>1, InitInv, NextInv, PTL DEF Spec

\* What is at the head of an open connection is for an operation that is still
\* there to read it, until an operation returns in one of the ways that Leave
\* marks.
THEOREM NothingOrphaned == Spec => []NoOrphanResponse
PROOF
  <1>1. IInv => NoOrphanResponse
    <2> SUFFICES ASSUME IInv, netOpen, left = {}, stream # <<>>
                 PROVE  \E op \in Ops : Expects(op, Head(stream))
      BY Zenon DEF NoOrphanResponse
    <2>1. Pending # <<>> /\ Pending[1] = Head(stream) /\ 1 \in 1 .. Len(Pending)
      BY PendingType DEF IInv
    <2>2. Awaited /\ Begun
      BY Zenon DEF IInv, Clean, Orderly
    <2>3. CASE Pending[1].part = "head"
      BY Zenon, <2>1, <2>2, <2>3 DEF Awaited, Waits, Expects
    <2>4. CASE Pending[1].part # "head"
      BY Zenon, <2>1, <2>2, <2>4 DEF Begun
    <2> QED BY Zenon, <2>3, <2>4
  <1> QED BY <1>1, InitInv, NextInv, PTL DEF Spec
=============================================================================
