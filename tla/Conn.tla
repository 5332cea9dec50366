--------------------------------- MODULE Conn ---------------------------------
(***************************************************************************)
(* The request and response exchange of a Conn (conn.go) shared by several *)
(* goroutines, with the Batch (batch.go) that keeps the read lock.         *)
(*                                                                         *)
(* An operation writes its request under wlock, with a correlation id of   *)
(* its own, and then looks for its response: it takes rlock, peeks at the  *)
(* head of the stream, and either finds its id there and reads, or gives   *)
(* the lock back for another operation to find its own.  The broker        *)
(* answers the requests of a connection in order.                          *)
(*                                                                         *)
(* A response is three units of bytes: the size and id that are peeked at, *)
(* the body with the error code, and the tail that follows the error code. *)
(* Nothing in the bytes says where a response begins: an operation that    *)
(* peeks at the middle of one takes what it finds there for a size and an  *)
(* id.                                                                     *)
(***************************************************************************)
EXTENDS Integers, Sequences, FiniteSets

CONSTANTS
  Ops,       \* the operations, one request each
  None,      \* no operation
  Mixes,     \* the ways in which the operations may be of the kinds below
  Timed,     \* the operations whose connDeadline is set to a time
  Replies,   \* the pairs <<kind, code>> that the broker may answer with
  Failures   \* whether the connection may be reset, or closed by the program

\* plain:   an operation whose reader consumes the response, whatever its code
\*          (readResponse, and the group requests);
\* produce: writeCompressedMessages, which leaves the throttle time unread when
\*          it finds an error code;
\* fetch2:  ReadBatchWith with version 2 of the fetch API;
\* fetch5:  ReadBatchWith with version 5, which leaves the size of the message
\*          set unread when it finds an error code;
\* versions: ApiVersions, which does not close the connection when it cannot
\*          read its response, nor check that it has read all of it.
Kinds == {"plain", "produce", "fetch2", "fetch5", "versions"}

\* A success, a Kafka error code, a response that cannot be decoded.
Codes == {"ok", "error", "garbled"}

ASSUME ConnAssumption ==
  /\ None \notin Ops
  /\ Mixes \subseteq [Ops -> Kinds]
  /\ Timed \subseteq Ops
  /\ Replies \subseteq Kinds \X Codes
  /\ Failures \in BOOLEAN

VARIABLES
  \* what each operation asks for
  kind,
  \* the Conn: the correlation id generator, rlock, the state of the net.Conn
  correlationID, rlock, netOpen,
  \* the operations: where they are, their id, what they return
  pc, id, result,
  \* the broker: requests it has still to answer
  requests,
  \* the responses: units on their way, units that can be read
  wire, stream,
  \* history: the operations that returned without reading all of their
  \* response, and without closing the connection
  left

opVars == <<pc, id, result>>
vars == <<kind, correlationID, rlock, netOpen, opVars, requests, wire, stream, left>>

\* rest: what is left of a unit that was read in part, by an operation that it
\* was not for.
Unit == [id : Nat, part : {"head", "body", "tail", "rest"}, code : Codes]

PCs == {"idle", "wait", "peek", "body", "tail", "batch", "held", "astray", "returned"}

TypeOK ==
  /\ kind \in Mixes
  /\ correlationID \in Nat
  /\ rlock \in Ops \cup {None}
  /\ netOpen \in BOOLEAN
  /\ pc \in [Ops -> PCs]
  /\ id \in [Ops -> 0 .. correlationID]
  /\ result \in [Ops -> {"none", "ok", "kafka", "timeout", "failed"}]
  /\ requests \in Seq(Ops)
  /\ wire \in Seq(Unit)
  /\ stream \in Seq(Unit)
  /\ left \subseteq Ops

Init ==
  /\ kind \in Mixes
  /\ correlationID = 0 /\ rlock = None /\ netOpen = TRUE
  /\ pc = [op \in Ops |-> "idle"]
  /\ id = [op \in Ops |-> 0]
  /\ result = [op \in Ops |-> "none"]
  /\ requests = <<>> /\ wire = <<>> /\ stream = <<>>
  /\ left = {}

Goto(op, label) == pc' = [pc EXCEPT ![op] = label]

Return(op, r) ==
  /\ Goto(op, "returned")
  /\ result' = [result EXCEPT ![op] = r]

\* c.conn.Close(): nothing more arrives, and of what has arrived only what was
\* already in the read buffer can still be read.
CloseNet ==
  /\ netOpen' = FALSE
  /\ requests' = <<>> /\ wire' = <<>>
  /\ \E n \in 0 .. Len(stream) : stream' = SubSeq(stream, 1, n)

Unlock == rlock' = None

\* The operation returns and leaves part of its response in an open connection.
Leave(op) == left' = left \cup {op}

-----------------------------------------------------------------------------
(* doRequest: under wlock, the id is taken and the request written. *)

WriteRequest(op) ==
  /\ pc[op] = "idle" /\ netOpen
  /\ correlationID' = correlationID + 1
  /\ id' = [id EXCEPT ![op] = correlationID + 1]
  /\ requests' = Append(requests, op)
  /\ Goto(op, "wait")
  /\ UNCHANGED <<kind, rlock, netOpen, result, wire, stream, left>>

\* The write fails: the connection is closed.
WriteFails(op) ==
  /\ pc[op] = "idle"
  /\ Failures \/ ~netOpen
  /\ correlationID' = correlationID + 1
  /\ id' = [id EXCEPT ![op] = correlationID + 1]
  /\ CloseNet
  /\ Return(op, "failed")
  /\ UNCHANGED <<kind, rlock, left>>

-----------------------------------------------------------------------------
(* waitResponse. *)

LockRead(op) ==
  /\ pc[op] = "wait" /\ rlock = None
  /\ rlock' = op
  /\ Goto(op, "peek")
  /\ UNCHANGED <<kind, correlationID, netOpen, id, result, requests, wire, stream, left>>

\* Eight bytes can be peeked at.  What follows an error code (a throttle time, or
\* the size of an empty message set) is four bytes, and not enough by itself.
Peekable ==
  /\ stream # <<>>
  /\ Len(stream) = 1 => ~(Head(stream).part = "tail" /\ Head(stream).code = "error")

\* There may be fewer: the end of a response can have any length.
Short == Len(stream) = 0 \/ (Len(stream) = 1 /\ Head(stream).part # "head")

\* What the four bytes after a size may be: the id of a response, or any number
\* when it is not the beginning of a response that is peeked at.
PeekedIDs == IF Head(stream).part = "head" THEN {Head(stream).id} ELSE 0 .. correlationID

\* Mutant of OwnHead: the id is not compared.
OwnHeadAny(op) == TRUE

\* id == rid
OwnHead(op) == id[op] \in PeekedIDs

\* The first unit, of which some bytes were read.
Broken == [stream EXCEPT ![1].part = "rest"]

\* The id of op: the size and the id are skipped.
PeekOwn(op) ==
  /\ pc[op] = "peek" /\ Peekable /\ OwnHead(op)
  /\ IF Head(stream).part = "head"
       THEN stream' = Tail(stream) /\ Goto(op, "body")
       ELSE stream' = Broken /\ Goto(op, "astray")
  /\ UNCHANGED <<kind, correlationID, rlock, netOpen, id, result, requests, wire, left>>

\* Mutant of PeekOther: the lock is kept.
PeekOtherKeepsLock(op) ==
  /\ pc[op] = "peek" /\ Peekable /\ PeekedIDs # {id[op]}
  /\ Goto(op, "wait")
  /\ UNCHANGED <<kind, correlationID, rlock, netOpen, id, result, requests, wire, stream, left>>

\* Another id: unlock, yield, and look again.
PeekOther(op) ==
  /\ pc[op] = "peek" /\ Peekable /\ PeekedIDs # {id[op]}
  /\ Unlock
  /\ Goto(op, "wait")
  /\ UNCHANGED <<kind, correlationID, netOpen, id, result, requests, wire, stream, left>>

\* A read that waits fails when the deadline, which the operation set on the
\* net.Conn when it took rlock, has passed, or when the net.Conn is closed.
TimesOut(op) == op \in Timed \/ ~netOpen

\* Mutant of PeekFails: the connection is not closed.
PeekFailsKeepsConn(op) ==
  /\ pc[op] = "peek" /\ Short /\ TimesOut(op)
  /\ Unlock
  /\ Return(op, "failed")
  /\ UNCHANGED <<kind, correlationID, netOpen, id, requests, wire, stream, left>>

PeekFails(op) ==
  /\ pc[op] = "peek" /\ Short /\ TimesOut(op)
  /\ CloseNet /\ Unlock
  /\ Return(op, "failed")
  /\ UNCHANGED <<kind, correlationID, id, left>>

-----------------------------------------------------------------------------
(* The body of the response, read under rlock. *)

\* The kinds of operation that return a Batch, which keeps rlock.
Batches(op) == kind[op] \in {"fetch2", "fetch5"}

\* The response is read up to its error code; there is none.
BodyOK(op) ==
  /\ pc[op] = "body" /\ stream # <<>> /\ Head(stream).code = "ok"
  /\ stream' = Tail(stream)
  /\ Goto(op, IF Batches(op) THEN "batch" ELSE "tail")
  /\ UNCHANGED <<kind, correlationID, rlock, netOpen, id, result, requests, wire, left>>

\* A Kafka error: produce and version 5 of fetch stop here, the others read on
\* or discard what follows.  The connection stays open.
BodyError(op) ==
  /\ pc[op] = "body" /\ stream # <<>> /\ Head(stream).code = "error"
  /\ stream' = Tail(stream)
  /\ result' = [result EXCEPT ![op] = "kafka"]
  /\ \/ kind[op] = "produce" /\ Goto(op, "returned") /\ Unlock /\ Leave(op)
     \/ kind[op] = "fetch5" /\ Goto(op, "held") /\ UNCHANGED <<rlock, left>>
     \/ kind[op] \in {"plain", "fetch2", "versions"} /\ Goto(op, "tail") /\ UNCHANGED <<rlock, left>>
  /\ UNCHANGED <<kind, correlationID, netOpen, id, requests, wire>>

\* The rest of the response; expectZeroSize is satisfied.
ReadTail(op) ==
  /\ pc[op] = "tail" /\ stream # <<>>
  /\ stream' = Tail(stream)
  /\ IF Batches(op)
       THEN Goto(op, "held") /\ UNCHANGED <<rlock, result>>
       ELSE Unlock /\ Return(op, IF result[op] = "kafka" THEN "kafka" ELSE "ok")
  /\ UNCHANGED <<kind, correlationID, netOpen, id, requests, wire, left>>

\* The size of the response does not fit what it holds.
Garbled(op) == pc[op] = "body" /\ stream # <<>> /\ Head(stream).code = "garbled"

\* The response cannot be read, because of its data or of the net.Conn.
Unreadable(op) ==
  Garbled(op) \/ (pc[op] \in {"body", "tail"} /\ stream = <<>> /\ TimesOut(op))

\* An error that is not Kafka's: do closes the connection.
ReadError(op) ==
  /\ Unreadable(op) /\ kind[op] \in {"plain", "produce"}
  /\ CloseNet /\ Unlock
  /\ Return(op, "failed")
  /\ UNCHANGED <<kind, correlationID, id, left>>

\* ReadBatchWith keeps the error, and rlock, until the Batch is closed.  A
\* response that is too short is a RequestTimedOut once the deadline has passed.
FetchError(op) ==
  /\ Unreadable(op) /\ Batches(op)
  /\ Goto(op, "held")
  /\ \E r \in {"failed"} \cup (IF Garbled(op) /\ op \in Timed THEN {"timeout"} ELSE {}) :
       result' = [result EXCEPT ![op] = r]
  /\ UNCHANGED <<kind, correlationID, rlock, netOpen, id, requests, wire, stream, left>>

\* ApiVersions returns, and leaves the connection as it is.  It does not notice
\* that a response is too long.
VersionsError(op) ==
  /\ Unreadable(op) /\ kind[op] = "versions"
  /\ Unlock /\ Leave(op)
  /\ Return(op, "failed") \/ (Garbled(op) /\ Return(op, "ok"))
  /\ UNCHANGED <<kind, correlationID, netOpen, id, requests, wire, stream>>

-----------------------------------------------------------------------------
(* The Batch of a fetch. *)

\* A message cannot be read: batch.err is set.
BatchReadFails(op) ==
  /\ pc[op] = "batch" /\ stream = <<>> /\ TimesOut(op)
  /\ Goto(op, "held")
  /\ result' = [result EXCEPT ![op] = "failed"]
  /\ UNCHANGED <<kind, correlationID, rlock, netOpen, id, requests, wire, stream, left>>

\* Batch.Close, all messages read or the rest of them discarded.  It may report
\* RequestTimedOut when the last message was cut short.
BatchClose(op) ==
  /\ pc[op] = "batch" /\ stream # <<>>
  /\ stream' = Tail(stream)
  /\ Unlock
  /\ Return(op, "ok") \/ (op \in Timed /\ Return(op, "timeout"))
  /\ UNCHANGED <<kind, correlationID, netOpen, id, requests, wire, left>>

\* Batch.Close inside a compressed record batch of version 2: discard drops what
\* was decompressed, and leaves what follows in the response; the module Batch
\* has the message sets in detail.
BatchCloseInside(op) ==
  /\ pc[op] = "batch" /\ kind[op] = "fetch5" /\ stream # <<>>
  /\ Unlock /\ Leave(op)
  /\ Return(op, "ok")
  /\ UNCHANGED <<kind, correlationID, netOpen, id, requests, wire, stream>>

\* Batch.Close with messages left, which it cannot all discard in time: the
\* error of discard is dropped, the lock released, the connection left open.
BatchDiscardFails(op) ==
  /\ pc[op] = "batch" /\ stream = <<>> /\ TimesOut(op)
  /\ Unlock /\ Leave(op)
  /\ Return(op, "ok")
  /\ UNCHANGED <<kind, correlationID, netOpen, id, requests, wire, stream>>

\* Batch.Close with batch.err set: an error that is not Kafka's closes the
\* connection; with one that is, what ReadBatchWith did not read stays there.
BatchCloseError(op) ==
  /\ pc[op] = "held"
  /\ Goto(op, "returned") /\ Unlock
  /\ \/ result[op] = "failed" /\ CloseNet /\ UNCHANGED left
     \/ /\ result[op] # "failed"
        /\ IF result[op] = "timeout" \/ kind[op] = "fetch5" THEN Leave(op) ELSE UNCHANGED left
        /\ UNCHANGED <<netOpen, requests, wire, stream>>
  /\ UNCHANGED <<kind, correlationID, id, result>>

-----------------------------------------------------------------------------
(* An operation that took the middle of a response for the beginning of    *)
(* its own.  What it makes of the bytes is not known: it reads any number  *)
(* of them and returns (with a Kafka error perhaps, which nothing here     *)
(* tells from success), or it finds what it cannot read.                   *)

AstrayRead(op) ==
  /\ pc[op] = "astray" /\ stream # <<>>
  /\ \/ stream' = Tail(stream) /\ UNCHANGED <<rlock, pc, result>>
     \/ /\ stream' \in {Tail(stream), Broken}
        /\ Unlock
        /\ Return(op, "ok")
  /\ UNCHANGED <<kind, correlationID, netOpen, id, requests, wire, left>>

AstrayFails(op) ==
  /\ pc[op] = "astray"
  /\ stream # <<>> \/ TimesOut(op)
  /\ IF kind[op] = "versions"
       THEN UNCHANGED <<netOpen, requests, wire, stream>>
       ELSE CloseNet
  /\ Unlock
  /\ Return(op, "failed")
  /\ UNCHANGED <<kind, correlationID, id, left>>

-----------------------------------------------------------------------------
(* The broker and the network: external. *)

Response(op, code) ==
  [p \in 1 .. 3 |-> [id |-> id[op], part |-> <<"head", "body", "tail">>[p], code |-> code]]

Broker ==
  /\ requests # <<>>
  /\ \E code \in Codes :
       /\ <<kind[Head(requests)], code>> \in Replies
       /\ wire' = wire \o Response(Head(requests), code)
  /\ requests' = Tail(requests)
  /\ UNCHANGED <<kind, correlationID, rlock, netOpen, opVars, stream, left>>

Deliver ==
  /\ wire # <<>>
  /\ stream' = Append(stream, Head(wire))
  /\ wire' = Tail(wire)
  /\ UNCHANGED <<kind, correlationID, rlock, netOpen, opVars, requests, left>>

\* Conn.Close, by any goroutine at any time, or the connection is reset.
ConnClose ==
  /\ Failures /\ netOpen
  /\ CloseNet
  /\ UNCHANGED <<kind, correlationID, rlock, opVars, left>>

-----------------------------------------------------------------------------
doRequest(op)    == WriteRequest(op) \/ WriteFails(op)
waitResponse(op) == PeekOwn(op) \/ PeekOther(op) \/ PeekFails(op)
readBody(op)     == BodyOK(op) \/ BodyError(op) \/ ReadTail(op)
                      \/ ReadError(op) \/ FetchError(op) \/ VersionsError(op)
batch(op)        == BatchReadFails(op) \/ BatchClose(op) \/ BatchCloseInside(op)
                      \/ BatchDiscardFails(op) \/ BatchCloseError(op)
astray(op)       == AstrayRead(op) \/ AstrayFails(op)

Next ==
  \/ \E op \in Ops : doRequest(op) \/ LockRead(op) \/ waitResponse(op)
                       \/ readBody(op) \/ batch(op) \/ astray(op)
  \/ Broker \/ Deliver \/ ConnClose

Spec == Init /\ [][Next]_vars

\* The operations run once started, a Batch is closed, a sync.Mutex is not
\* withheld for ever from a goroutine that asks for it, bytes on their way
\* arrive, and the broker answers.
FairSpec ==
  /\ Spec
  /\ \A op \in Ops : /\ WF_vars(waitResponse(op) \/ readBody(op) \/ batch(op) \/ astray(op))
                     /\ SF_vars(LockRead(op))
  /\ WF_vars(Deliver) /\ WF_vars(Broker)

-----------------------------------------------------------------------------
(* Properties. *)

\* The operation for which the unit u was sent is the one about to read it.
Expects(op, u) ==
  /\ u.id = id[op]
  /\ CASE u.part = "head" -> pc[op] \in {"wait", "peek"}
       [] u.part = "body" -> pc[op] \in {"body", "held"}
       [] u.part = "tail" -> pc[op] \in {"tail", "batch", "held"}
       [] OTHER -> FALSE

(***************************************************************************)
(* What is at the head of an open connection is for an operation that is   *)
(* still there to read it: no operation returns and leaves part of its     *)
(* response behind, where every other operation would find it instead of   *)
(* its own ("to avoid any risk of corrupting the following operations",    *)
(* conn.go).  The exceptions are the returns that Leave marks: an error    *)
(* code for a produce request or a fetch of version 5, a short response to *)
(* a fetch past its deadline, a Batch that is closed and cannot discard,   *)
(* and ApiVersions with a response that it cannot read or is too long.     *)
(***************************************************************************)
NoOrphanResponse ==
  netOpen /\ left = {} /\ stream # <<>> => \E op \in Ops : Expects(op, Head(stream))

(***************************************************************************)
(* Whoever reads a response holds rlock, and the bytes are those of its    *)
(* own response, whatever the others wrote, read, failed or closed.  Only  *)
(* where part of a response was left behind, or the connection is closed   *)
(* and its buffer still holds one, can an operation take other bytes for   *)
(* its own; it then holds rlock too.                                       *)
(***************************************************************************)
ReadsOwnResponse ==
  \A op \in Ops :
    /\ pc[op] \in {"body", "tail", "batch"} =>
         rlock = op /\ (stream # <<>> => Expects(op, Head(stream)))
    /\ pc[op] = "astray" => rlock = op /\ (left # {} \/ ~netOpen)

\* The head of the stream is for no operation.
Skewed == stream # <<>> /\ \A op \in Ops : ~Expects(op, Head(stream))

(***************************************************************************)
(* Every operation that has sent its request returns: the lock passes from *)
(* one to the next until each has found its response, and the failure of   *)
(* one lets the others fail too.  There are two ways not to: an operation  *)
(* has left part of its response in the open connection, or the buffer of  *)
(* the closed one begins, for good, with what nobody will read.            *)
(***************************************************************************)
OperationsReturn ==
  \A op \in Ops : pc[op] = "wait" ~> (pc[op] = "returned" \/ left # {} \/ []Skewed)

(***************************************************************************)
(* An operation with a deadline returns ("A deadline is an absolute time   *)
(* after which I/O operations fail with a timeout (see type Error) instead *)
(* of blocking", conn.go).                                                 *)
(***************************************************************************)
DeadlinesHonoured == \A op \in Timed : pc[op] = "wait" ~> pc[op] = "returned"
=============================================================================
