------------------------------- MODULE MCBatch -------------------------------
EXTENDS Batch

\* Batches with the offsets given, those of os still there.
MCMsg(o) == [magic |-> 1, packed |-> FALSE, big |-> FALSE, base |-> o, last |-> o, offsets |-> <<o>>]
MCWrap(first, last, os) ==
  [magic |-> 1, packed |-> TRUE, big |-> FALSE, base |-> first, last |-> last, offsets |-> os]
MCPlain(first, last, os) ==
  [magic |-> 2, packed |-> FALSE, big |-> FALSE, base |-> first, last |-> last, offsets |-> os]
MCPacked(first, last, os, big) ==
  [magic |-> 2, packed |-> TRUE, big |-> big, base |-> first, last |-> last, offsets |-> os]

\* A topic that was upgraded; one whose batches are compressed or not; one that
\* was compacted; one of messages of version 1; one with a big batch.
MCLogs == {
  <<MCMsg(0), MCWrap(1, 2, <<1, 2>>), MCPlain(3, 4, <<3, 4>>)>>,
  <<MCPlain(0, 1, <<0, 1>>), MCPacked(2, 3, <<2, 3>>, FALSE), MCPlain(4, 5, <<4, 5>>)>>,
  <<MCPlain(0, 3, <<1, 2>>), MCPacked(4, 5, <<5>>, FALSE)>>,
  <<MCWrap(0, 2, <<1, 2>>), MCMsg(3), MCMsg(4)>>,
  <<MCPlain(0, 0, <<0>>), MCPacked(1, 2, <<1, 2>>, TRUE)>>}

MCSeeks == {<<2, "absolute">>, <<1, "start">>, <<1, "end">>, <<1, "current">>}
=============================================================================
