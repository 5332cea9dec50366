---------------------------- MODULE PartitionSink ----------------------------
(***************************************************************************)
(* What a partition writer (writer.go, the interface partitionWriter)      *)
(* promises to Writer.run and to WriteMessages: messages are accepted in   *)
(* order while there is room, answered in that order in groups of at most  *)
(* BatchSize that share one outcome, and all answered before close ends.   *)
(***************************************************************************)
EXTENDS Integers, Sequences

CONSTANTS
  Msgs,        \* the writerMessages
  BatchSize,   \* WriterConfig.BatchSize
  Depth        \* the messages a partition writer can hold

VARIABLES
  queue,       \* messages accepted and not answered
  accepted,    \* history: all the messages accepted, in order
  answered,    \* history: all the messages answered, in order
  acked,       \* the messages answered with a nil error
  closed,      \* no more messages are accepted
  finished     \* close has returned

vars == <<queue, accepted, answered, acked, closed, finished>>

Init ==
  /\ queue = <<>> /\ accepted = <<>> /\ answered = <<>> /\ acked = {}
  /\ closed = FALSE /\ finished = FALSE

Accept(m) ==
  /\ ~closed
  /\ Len(queue) < Depth
  /\ \A i \in 1 .. Len(accepted) : accepted[i] # m
  /\ queue' = Append(queue, m)
  /\ accepted' = Append(accepted, m)
  /\ UNCHANGED <<answered, acked, closed, finished>>

\* The first n messages are answered, all with nil or all with the same error.
Answer(n, nil) ==
  /\ n <= Len(queue)
  /\ queue' = SubSeq(queue, n + 1, Len(queue))
  /\ answered' = answered \o SubSeq(queue, 1, n)
  /\ acked' = IF nil THEN acked \cup {queue[i] : i \in 1 .. n} ELSE acked
  /\ UNCHANGED <<accepted, closed, finished>>

Close ==
  /\ ~closed
  /\ closed' = TRUE
  /\ UNCHANGED <<queue, accepted, answered, acked, finished>>

Finish ==
  /\ closed /\ queue = <<>> /\ ~finished
  /\ finished' = TRUE
  /\ UNCHANGED <<queue, accepted, answered, acked, closed>>

AnswerSome == \E n \in 1 .. BatchSize, nil \in BOOLEAN : Answer(n, nil)

Next == (\E m \in Msgs : Accept(m)) \/ AnswerSome \/ Close \/ Finish

Spec == Init /\ [][Next]_vars

Fairness == WF_vars(AnswerSome) /\ WF_vars(Finish)
=============================================================================
