---------------------------- MODULE GroupBalancer ----------------------------
(***************************************************************************)
(* The assignment of partitions by the leader of a consumer group          *)
(* (groupbalancer.go, and assignTopicPartitions of reader.go).             *)
(*                                                                         *)
(* Members join and leave.  At a rebalance the coordinator lists them to   *)
(* the leader in any order, with the name of a balancer that they all      *)
(* have; the leader reads the partitions of their topics, in the order in  *)
(* which a broker lists them, and computes the assignments.                *)
(*                                                                         *)
(* Lists are functions on positions: a list taken from another keeps the   *)
(* positions of its elements, and the index of an element, from 0 as in    *)
(* the code, is the number of positions before it.                         *)
(***************************************************************************)
EXTENDS Integers, Sequences, FiniteSets

CONSTANTS
  Members,    \* member ids, which are numbers for their order
  Topics,
  Listings    \* what a broker may list: sequences of records [topic, id]

ASSUME GroupBalancerAssumption ==
  /\ Members \subseteq Nat /\ IsFiniteSet(Members)
  /\ Listings \subseteq Seq([topic : Topics, id : Nat])

VARIABLES
  subscriptions,   \* the topics of each member; none for one that is not in the group
  assignments,     \* GroupMemberAssignments: member => topic => positions => partitions
  basis            \* history: what the assignments were computed from

groupVars == <<subscriptions, assignments, basis>>

Balancers == {"range", "roundrobin"}

Nothing == [topics |-> [m \in Members |-> {}], listing |-> <<>>, balancer |-> "range"]

-----------------------------------------------------------------------------
(* groupbalancer.go *)

\* Mutant of rangeOwns: the upper bound is part of the range.
rangeOwnsInclusive(k, i, pc, mc) == (i * pc) \div mc <= k /\ k <= ((i + 1) * pc) \div mc

\* Mutant of rangeOwns: ranges of one length, and the last member has the rest.
rangeOwnsRest(k, i, pc, mc) ==
  (pc \div mc) * i <= k /\ (k < (pc \div mc) * (i + 1) \/ i = mc - 1)

\* RangeGroupBalancer: member i of mc has partition k of pc, minIndex <= k < maxIndex.
rangeOwns(k, i, pc, mc) == (i * pc) \div mc <= k /\ k < ((i + 1) * pc) \div mc

\* RoundRobinGroupBalancer
roundRobinOwns(k, i, pc, mc) == k % mc = i

Owns(b, k, i, pc, mc) ==
  IF b = "range" THEN rangeOwns(k, i, pc, mc) ELSE roundRobinOwns(k, i, pc, mc)

\* The index of k in S, in increasing order.
Index(S, k) == Cardinality({j \in S : j < k})

\* The partition ids of a topic, as listed.
findPartitions(t, listing) ==
  [k \in {j \in DOMAIN listing : listing[j].topic = t} |-> listing[k].id]

\* The members with topic t.
Having(t, ms, topics) == {ms[i] : i \in {j \in DOMAIN ms : t \in topics[ms[j]]}}

\* Mutant of findMembersByTopic: the members stay in the order of the coordinator.
findMembersByTopicUnsorted(t, ms, topics) ==
  [m \in Having(t, ms, topics) |->
     Index({i \in DOMAIN ms : t \in topics[ms[i]]}, CHOOSE i \in DOMAIN ms : ms[i] = m)]

\* The members with topic t and their indexes, sorted by their ids.
findMembersByTopic(t, ms, topics) ==
  [m \in Having(t, ms, topics) |-> Index(Having(t, ms, topics), m)]

\* What member m gets of topic t.
Share(b, m, t, ms, topics, listing) ==
  LET ps == findPartitions(t, listing)
      of == findMembersByTopic(t, ms, topics)
  IN  [k \in {j \in DOMAIN ps : Owns(b, Index(DOMAIN ps, j), of[m],
                                    Cardinality(DOMAIN ps), Cardinality(DOMAIN of))} |-> ps[k]]

AssignGroups(b, ms, topics, listing) ==
  [m \in Members |-> [t \in Topics |->
     IF t \in topics[m] THEN Share(b, m, t, ms, topics, listing) ELSE <<>>]]

\* extractTopics
extractTopics(topics) == UNION {topics[m] : m \in Members}

-----------------------------------------------------------------------------
\* The partitions read are those of the topics of the members.
ReadPartitions(ts, l) == [k \in {j \in DOMAIN l : l[j].topic \in ts} |-> l[k]]

Joined == {m \in Members : subscriptions[m] # {}}

\* The orders in which the coordinator may list the members.
Orders == {s \in [1 .. Cardinality(Joined) -> Joined] :
             \A m \in Joined : \E i \in DOMAIN s : s[i] = m}

GroupInit ==
  /\ subscriptions = [m \in Members |-> {}]
  /\ assignments = [m \in Members |-> [t \in Topics |-> <<>>]]
  /\ basis = Nothing

\* A member joins, leaves (with no topics), or subscribes to other topics.
Change(m, ts) ==
  /\ ts # subscriptions[m]
  /\ subscriptions' = [subscriptions EXCEPT ![m] = ts]
  /\ UNCHANGED <<assignments, basis>>

\* assignTopicPartitions
assignTopicPartitions(b, ms, l) ==
  LET listing == ReadPartitions(extractTopics(subscriptions), l)
  IN  /\ assignments' = AssignGroups(b, ms, subscriptions, listing)
      /\ basis' = [topics |-> subscriptions, listing |-> listing, balancer |-> b]
      /\ UNCHANGED subscriptions

GroupRebalance ==
  /\ Joined # {}
  /\ \E b \in Balancers, ms \in Orders, l \in Listings : assignTopicPartitions(b, ms, l)

GroupNext ==
  \/ \E m \in Members, ts \in SUBSET Topics : Change(m, ts)
  \/ GroupRebalance

GroupSpec == GroupInit /\ [][GroupNext]_groupVars

-----------------------------------------------------------------------------
(* Properties. *)

(***************************************************************************)
(* Every partition of a topic that some member has is assigned, once, and  *)
(* to a member with that topic; nothing else is assigned.                  *)
(***************************************************************************)
EachOnce ==
  \A t \in Topics :
    LET ids == findPartitions(t, basis.listing)
    IN  /\ \A m \in Members : DOMAIN assignments[m][t] # {} => t \in basis.topics[m]
        /\ \A m \in Members : \A k \in DOMAIN assignments[m][t] :
             k \in DOMAIN ids /\ assignments[m][t][k] = ids[k]
        /\ \A k \in DOMAIN ids : \E m \in Members :
             /\ k \in DOMAIN assignments[m][t]
             /\ \A n \in Members : k \in DOMAIN assignments[n][t] => n = m

\* The partitions of a topic are divided evenly among the members that have it:
\* no member has two more than another.
Balanced ==
  \A t \in Topics : \A m, n \in {q \in Members : t \in basis.topics[q]} :
    Cardinality(DOMAIN assignments[m][t]) <= Cardinality(DOMAIN assignments[n][t]) + 1

\* A rebalance that finds what the last one found moves no partition, whichever
\* member leads and in whatever order the coordinator lists the members ("normalize
\* ordering of members", groupbalancer.go).
Stable == [][basis' = basis => assignments' = assignments]_groupVars
=============================================================================
