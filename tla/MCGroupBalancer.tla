--------------------------- MODULE MCGroupBalancer ---------------------------
(* Instances of GroupBalancer for TLC. *)
EXTENDS GroupBalancer

MCTopics == {"t", "u"}

\* n partitions of topic t, in order or in the opposite one.
Ascending(t, n) == [k \in 1 .. n |-> [topic |-> t, id |-> k - 1]]
Descending(t, n) == [k \in 1 .. n |-> [topic |-> t, id |-> n - k]]

\* Counts that the number of members divides and counts that it does not.
MCListings ==
  {Ascending("t", n) \o Ascending("u", n) : n \in {1, 2, 5}}
    \cup {Descending("u", 2) \o Ascending("t", 4), Ascending("t", 7) \o Ascending("u", 3)}
=============================================================================
