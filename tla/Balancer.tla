------------------------------- MODULE Balancer -------------------------------
(***************************************************************************)
(* The balancers of balancer.go, as Writer.run uses them: one goroutine    *)
(* calls Balance for each message with the sorted list of the partitions   *)
(* of the topic, which a rebalance replaces from time to time.             *)
(*                                                                         *)
(* Kafka numbers the partitions of a topic from 0, so that a list is its   *)
(* length.  It grows when partitions are added, and it may be shorter when *)
(* the topic was deleted and made again.                                   *)
(*                                                                         *)
(* A message is its key, or NoKey for a nil key, and the bytes of its key  *)
(* and value together.                                                     *)
(***************************************************************************)
EXTENDS Integers

CONSTANTS
  Kinds,     \* the balancers, of "RoundRobin", "LeastBytes" and "Hash"
  Keys,      \* the keys
  NoKey,     \* a nil key
  Sizes,     \* the sizes of messages
  Largest,   \* the largest size
  Lengths,   \* the lengths that the list of partitions may have
  Modulus,   \* 2^64, the range of RoundRobin.offset, and 2^32, that of a hash
  Wide,      \* whether an int holds every uint32
  Digest(_, _),  \* Digest(s, k): the state s of a hasher after Write(k)
  MaxCalls   \* bound: how many messages are balanced

ASSUME BalancerAssumption ==
  /\ Kinds \subseteq {"RoundRobin", "LeastBytes", "Hash"}
  /\ NoKey \notin Keys
  /\ Sizes \subseteq Nat
  /\ Largest \in Nat /\ \A s \in Sizes : s <= Largest
  /\ Lengths \subseteq Nat \ {0}
  /\ Modulus \in Nat \ {0}
  /\ Wide \in BOOLEAN
  /\ \A s \in 0 .. Modulus - 1, k \in Keys : Digest(s, k) \in 0 .. Modulus - 1
  /\ MaxCalls \in Nat

VARIABLES
  kind,      \* WriterConfig.Balancer
  length,    \* len(partitions) of the next call
  offset,    \* RoundRobin.offset, also of the RoundRobin in a Hash
  counters,  \* LeastBytes.counters: the bytes of each partition it counts
  sum,       \* the state of the hasher
  picked,    \* the partition that the last call returned
  \* history: the calls; the messages that RoundRobin gave to each partition
  \* since the list changed, and how often its offset wrapped since; where
  \* the messages with a key went since the list changed
  calls, count, wraps, route

vars == <<kind, length, offset, counters, sum, picked, calls, count, wraps, route>>

Partitions(n) == 0 .. n - 1

\* No partition.
None == -1

TypeOK ==
  /\ kind \in Kinds
  /\ length \in Lengths
  /\ offset \in 0 .. Modulus - 1
  /\ \E n \in Lengths \cup {0} : counters \in [Partitions(n) -> Nat]
  /\ sum \in 0 .. Modulus - 1
  /\ picked \in Int
  /\ calls \in Nat
  /\ count \in [Partitions(length) -> Nat]
  /\ wraps \in Nat
  /\ route \in [Keys -> Int]

Init ==
  /\ kind \in Kinds
  /\ length \in Lengths
  /\ offset = 0
  /\ counters = [p \in Partitions(0) |-> 0]
  /\ sum = 0
  /\ picked = None
  /\ calls = 0
  /\ count = [p \in Partitions(length) |-> 0]
  /\ wraps = 0
  /\ route = [k \in Keys |-> None]

-----------------------------------------------------------------------------
(* RoundRobin.Balance. *)

\* partitions[offset%length]
Turn == offset % length

\* Mutant of Advance: the first message of a list does not count.
AdvanceLate == offset' = IF picked = None THEN offset ELSE (offset + 1) % Modulus

\* rr.offset++, a uint64.
Advance == offset' = (offset + 1) % Modulus

RoundRobin ==
  /\ picked' = Turn
  /\ Advance
  /\ count' = [p \in DOMAIN count |-> count[p] + IF p = picked' THEN 1 ELSE 0]
  /\ wraps' = IF offset' = 0 THEN wraps + 1 ELSE wraps

RoundRobinBalance ==
  /\ kind = "RoundRobin" /\ calls < MaxCalls
  /\ RoundRobin
  /\ calls' = calls + 1
  /\ UNCHANGED <<kind, length, counters, sum, route>>

-----------------------------------------------------------------------------
(* LeastBytes.Balance. *)

\* The counters are made anew, at 0, when a partition of the list has none.
\* Those of partitions that are no longer in the list stay.
refreshed ==
  IF \E p \in Partitions(length) : p \notin DOMAIN counters
    THEN [p \in Partitions(length) |-> 0]
    ELSE counters

\* Mutant of IsLeast: the last counter is not looked at.
IsLeastButLast(c, p) ==
  /\ \A q \in DOMAIN c : q + 1 \in DOMAIN c => c[p] <= c[q]
  /\ \A q \in DOMAIN c : q < p => c[p] < c[q]

\* The first of the least counters.
IsLeast(c, p) ==
  /\ \A q \in DOMAIN c : c[p] <= c[q]
  /\ \A q \in DOMAIN c : q < p => c[p] < c[q]

LeastBytesBalance(size) ==
  /\ kind = "LeastBytes" /\ calls < MaxCalls
  /\ \E p \in DOMAIN refreshed :
       /\ IsLeast(refreshed, p)
       /\ counters' = [refreshed EXCEPT ![p] = @ + size]
       /\ picked' = p
  /\ calls' = calls + 1
  /\ UNCHANGED <<kind, length, offset, sum, count, wraps, route>>

-----------------------------------------------------------------------------
(* Hash.Balance. *)

\* int(hasher.Sum32())
ToInt(h) == IF Wide \/ 2 * h < Modulus THEN h ELSE h - Modulus

\* The remainder of a division that truncates, with the sign of i.
Remainder(i, n) == IF i >= 0 THEN i % n ELSE -((-i) % n)

\* Mutant of HashPartition: the sign of the remainder is kept.
HashPartitionSigned(h, n) == Remainder(ToInt(h), n)

HashPartition(h, n) ==
  LET r == Remainder(ToInt(h), n) IN IF r < 0 THEN -r ELSE r

\* Mutant of Hashed: the hasher is not reset.
HashedOn(k) == Digest(sum, k)

\* hasher.Reset and hasher.Write; a pooled or a given hasher is not fresh.
Hashed(k) == Digest(0, k)

HashBalance(k) ==
  /\ kind = "Hash" /\ calls < MaxCalls
  /\ IF k = NoKey
       THEN RoundRobin /\ UNCHANGED <<sum, route>>
       ELSE /\ sum' = Hashed(k)
            /\ picked' = HashPartition(sum', length)
            /\ route' = [route EXCEPT ![k] = picked']
            /\ UNCHANGED <<offset, count, wraps>>
  /\ calls' = calls + 1
  /\ UNCHANGED <<kind, length, counters>>

-----------------------------------------------------------------------------
\* A rebalance of Writer.run: another list for the calls to come.
Rebalance(n) ==
  /\ n # length
  /\ length' = n
  /\ picked' = None
  /\ count' = [p \in Partitions(n) |-> 0]
  /\ wraps' = 0
  /\ route' = [k \in Keys |-> None]
  /\ UNCHANGED <<kind, offset, counters, sum, calls>>

Next ==
  \/ RoundRobinBalance
  \/ \E s \in Sizes : LeastBytesBalance(s)
  \/ \E k \in Keys \cup {NoKey} : HashBalance(k)
  \/ \E n \in Lengths : Rebalance(n)

Spec == Init /\ [][Next]_vars

-----------------------------------------------------------------------------
(* Properties. *)

(***************************************************************************)
(* Balance returns a partition of the list: Writer.run uses it to look up  *)
(* the partition writer, and there is none for another.  A list that       *)
(* shrinks, a counter that wraps and a negative int are no exception; a    *)
(* LeastBytes that still counts partitions that have gone is.              *)
(***************************************************************************)
Routable ==
  picked # None =>
    \/ picked \in Partitions(length)
    \/ kind = "LeastBytes" /\ picked \in DOMAIN counters
         /\ \E p \in DOMAIN counters : p \notin Partitions(length)

(***************************************************************************)
(* LeastBytes counts every partition of the list once it has been called,  *)
(* and no partition is ahead of another by more than one message.          *)
(***************************************************************************)
LeastBytesEven ==
  /\ kind = "LeastBytes" /\ picked # None => Partitions(length) \subseteq DOMAIN counters
  /\ \A p, q \in DOMAIN counters : counters[p] <= counters[q] + Largest

(***************************************************************************)
(* RoundRobin "equally distributes messages across all available           *)
(* partitions" (balancer.go): by one message, and by one more each time    *)
(* that its offset wraps, which need not be at the end of the list.        *)
(***************************************************************************)
RoundRobinEven == \A p, q \in DOMAIN count : count[p] <= count[q] + 1 + wraps

(***************************************************************************)
(* "messages with the same key are routed to the same partition"           *)
(* (balancer.go), as long as the list does not change, whatever messages   *)
(* come in between.                                                        *)
(***************************************************************************)
SameKeySamePartition ==
  [][\A k \in Keys : route[k] # None /\ length' = length => route'[k] = route[k]]_vars
=============================================================================
