---------------------------- MODULE BalancerProofs ----------------------------
(***************************************************************************)
(* Proofs about the balancers of the Writer, for any number of partitions, *)
(* any lists, any keys, sizes and hash, and any range of the counter; and  *)
(* about those of the consumer groups, for any members, topics and         *)
(* listings.                                                               *)
(***************************************************************************)
EXTENDS Balancer, GroupBalancer, FiniteSetTheorems, TLAPS

-----------------------------------------------------------------------------
(* Arithmetic. *)

\* A remainder is less than the divisor.
LEMMA ModRange ==
  ASSUME NEW o \in Nat, NEW n \in Nat \ {0}
  PROVE  o % n \in 0 .. n - 1
  OBVIOUS

\* A number is a multiple of the divisor and a remainder.
LEMMA Division ==
  ASSUME NEW o \in Nat, NEW n \in Nat \ {0}
  PROVE  o \div n \in Int /\ o = n * (o \div n) + (o % n)
  OBVIOUS

\* Products of unequal factors differ by the other factor at least.
LEMMA Products ==
  ASSUME NEW n \in Nat, NEW x \in Int, NEW y \in Int, x < y
  PROVE  n * x + n <= n * y
<1>1. y - x >= 1 /\ y - x \in Nat
  OBVIOUS
<1>2. n * (y - x) >= n
  BY <1>1
<1>3. n * (y - x) = n * y - n * x
  OBVIOUS
<1>4. QED
  BY <1>2, <1>3

\* The remainder is determined.
LEMMA ModUnique ==
  ASSUME NEW o \in Nat, NEW n \in Nat \ {0}, NEW d \in Int, NEW r \in 0 .. n - 1,
         o = n * d + r
  PROVE  o % n = r
<1> DEFINE e == o \div n
           s == o % n
<1>1. e \in Int /\ s \in 0 .. n - 1 /\ o = n * e + s
  BY Zenon, Division, ModRange
<1> HIDE DEF e, s
<1>2. n * d \in Int /\ n * e \in Int
  BY <1>1
<1>3. ~(d < e)
  <2>1. SUFFICES ASSUME d < e PROVE FALSE
    BY Zenon
  <2>2. n * d + n <= n * e
    BY Zenon, <1>1, <2>1, Products
  <2>3. QED
    BY <1>1, <1>2, <2>2
<1>4. ~(e < d)
  <2>1. SUFFICES ASSUME e < d PROVE FALSE
    BY Zenon
  <2>2. n * e + n <= n * d
    BY Zenon, <1>1, <2>1, Products
  <2>3. QED
    BY <1>1, <1>2, <2>2
<1>5. d = e
  BY <1>1, <1>3, <1>4
<1>6. QED
  BY <1>1, <1>2, <1>5 DEF s

\* The remainders of successive numbers follow each other, round and round.
LEMMA ModSuccessor ==
  ASSUME NEW o \in Nat, NEW n \in Nat \ {0}
  PROVE  (o + 1) % n = IF (o % n) + 1 = n THEN 0 ELSE (o % n) + 1
<1> DEFINE d == o \div n
           r == o % n
<1>1. d \in Int /\ r \in 0 .. n - 1 /\ o = n * d + r
  BY Zenon, Division, ModRange
<1> HIDE DEF d, r
<1>2. CASE r + 1 = n
  <2>1. o + 1 = n * (d + 1) + 0
    BY <1>1, <1>2
  <2>2. (o + 1) % n = 0
    BY <1>1, <2>1, ModUnique
  <2>3. QED
    BY Zenon, <1>2, <2>2 DEF r
<1>3. CASE r + 1 # n
  <2>1. o + 1 = n * d + (r + 1) /\ r + 1 \in 0 .. n - 1
    BY <1>1, <1>3
  <2>2. (o + 1) % n = r + 1
    BY <1>1, <2>1, ModUnique
  <2>3. QED
    BY Zenon, <1>3, <2>2 DEF r
<1>4. QED
  BY Zenon, <1>2, <1>3

\* Whatever the hash and however wide an int is, Hash.Balance computes the
\* number of a partition of the list.
LEMMA HashInRange ==
  ASSUME NEW h \in 0 .. Modulus - 1, NEW n \in Nat \ {0}
  PROVE  HashPartition(h, n) \in Partitions(n)
<1>1. ToInt(h) \in Int
  BY BalancerAssumption DEF BalancerAssumption, ToInt
<1>2. CASE ToInt(h) >= 0
  <2>1. ToInt(h) \in Nat
    BY <1>1, <1>2
  <2>2. ToInt(h) % n \in 0 .. n - 1
    BY Zenon, <2>1, ModRange
  <2>3. QED
    BY <1>1, <1>2, <2>2 DEF HashPartition, Remainder, Partitions
<1>3. CASE ToInt(h) < 0
  <2>1. -ToInt(h) \in Nat
    BY <1>1, <1>3
  <2>2. (-ToInt(h)) % n \in 0 .. n - 1
    BY Zenon, <2>1, ModRange
  <2>3. QED
    BY <1>1, <1>3, <2>2 DEF HashPartition, Remainder, Partitions
<1>4. QED
  BY <1>1, <1>2, <1>3

-----------------------------------------------------------------------------
(* Types. *)

\* The assumptions on the lists, as the proofs below use them.
LEMMA ListTypes ==
  /\ \A n \in Lengths : n \in Nat \ {0}
  /\ Modulus \in Nat \ {0}
  BY Zenon, BalancerAssumption DEF BalancerAssumption

\* Every balancer keeps its state to its types: the uint64 of RoundRobin and
\* the counters of LeastBytes included.
THEOREM TypeCorrect == Spec => []TypeOK
<1>1. Init => TypeOK
  BY SMTT(40), ListTypes DEF Init, TypeOK, Partitions, None
<1>2. TypeOK /\ [Next]_vars => TypeOK'
  <2> SUFFICES ASSUME TypeOK, [Next]_vars PROVE TypeOK'
    BY Zenon
  <2> USE DEF TypeOK
  <2>0. length \in Nat \ {0} /\ Modulus \in Nat \ {0}
    BY Zenon, ListTypes
  <2>1. ASSUME RoundRobin PROVE /\ picked' \in Int /\ offset' \in 0 .. Modulus - 1
                                /\ count' \in [Partitions(length) -> Nat] /\ wraps' \in Nat
    <3>1. offset' \in 0 .. Modulus - 1
      BY <2>0, <2>1, ModRange DEF RoundRobin, Advance
    <3>2. picked' \in Int
      BY <2>0, <2>1, ModRange DEF RoundRobin, Turn
    <3>3. count' \in [Partitions(length) -> Nat]
      BY <2>1 DEF RoundRobin
    <3>4. wraps' \in Nat
      BY <2>1 DEF RoundRobin
    <3>5. QED
      BY Zenon, <3>1, <3>2, <3>3, <3>4
  <2>2. CASE RoundRobinBalance
    BY <2>1, <2>2 DEF RoundRobinBalance
  <2>3. ASSUME NEW s \in Sizes, LeastBytesBalance(s) PROVE TypeOK'
    <3>1. s \in Nat
      BY Zenon, BalancerAssumption DEF BalancerAssumption
    <3>2. PICK n \in Lengths \cup {0} : refreshed \in [Partitions(n) -> Nat]
      BY Zenon DEF refreshed
    <3>3. PICK p \in DOMAIN refreshed : counters' = [refreshed EXCEPT ![p] = @ + s] /\ picked' = p
      BY Zenon, <2>3 DEF LeastBytesBalance
    <3>4. counters' \in [Partitions(n) -> Nat]
      BY <3>1, <3>2, <3>3
    <3>5. picked' \in Int
      BY <3>2, <3>3, ListTypes DEF Partitions
    <3>6. QED
      BY <2>3, <3>4, <3>5 DEF LeastBytesBalance
  <2>4. ASSUME NEW k \in Keys \cup {NoKey}, HashBalance(k) PROVE TypeOK'
    <3>1. CASE k = NoKey
      BY <2>1, <2>4, <3>1 DEF HashBalance
    <3>2. CASE k # NoKey
      <4>1. sum' = Digest(0, k) /\ picked' = HashPartition(sum', length)
              /\ route' = [route EXCEPT ![k] = picked']
              /\ UNCHANGED <<kind, length, offset, counters, count, wraps>> /\ calls' = calls + 1
        BY Zenon, <2>4, <3>2 DEF HashBalance, Hashed
      <4>2. sum' \in 0 .. Modulus - 1
        BY <2>0, <3>2, <4>1, BalancerAssumption DEF BalancerAssumption
      <4>3. picked' \in Int
        BY <2>0, <4>1, <4>2, HashInRange DEF Partitions
      <4>4. QED
        BY <3>2, <4>1, <4>2, <4>3
    <3>3. QED
      BY Zenon, <3>1, <3>2
  <2>5. ASSUME NEW n \in Lengths, Rebalance(n) PROVE TypeOK'
    BY <2>5 DEF Rebalance, None
  <2>6. CASE UNCHANGED vars
    BY Zenon, <2>6 DEF vars
  <2>7. QED
    BY Zenon, <2>2, <2>3, <2>4, <2>5, <2>6 DEF Next
<1>3. QED
  BY <1>1, <1>2, PTL DEF Spec

-----------------------------------------------------------------------------
(* LeastBytes. *)

\* No partition gets ahead of another by more than the largest message, and
\* every partition of the list is counted: LeastBytes picks a least counter,
\* and counts from nothing when it sees a partition that it has no counter for.
THEOREM LeastBytesCorrect == Spec => []LeastBytesEven
<1>1. Init => LeastBytesEven
  BY DEF Init, LeastBytesEven, Partitions, None
<1>2. TypeOK /\ LeastBytesEven /\ [Next]_vars => LeastBytesEven'
  <2> SUFFICES ASSUME TypeOK, LeastBytesEven, [Next]_vars PROVE LeastBytesEven'
    BY Zenon
  <2>0. Largest \in Nat /\ \A s \in Sizes : s \in Nat /\ s <= Largest
    BY Zenon, BalancerAssumption DEF BalancerAssumption
  <2>1. ASSUME NEW s \in Sizes, LeastBytesBalance(s) PROVE LeastBytesEven'
    <3>1. PICK m \in Lengths \cup {0} : refreshed \in [Partitions(m) -> Nat]
      BY Zenon DEF refreshed, TypeOK
    <3>2. Partitions(length) \subseteq DOMAIN refreshed
      BY Zenon DEF refreshed
    <3>3. \A p, q \in DOMAIN refreshed : refreshed[p] <= refreshed[q] + Largest
      BY <2>0 DEF refreshed, LeastBytesEven
    <3>4. PICK p \in DOMAIN refreshed : /\ IsLeast(refreshed, p)
                                       /\ counters' = [refreshed EXCEPT ![p] = @ + s]
      BY Zenon, <2>1 DEF LeastBytesBalance
    <3>5. length' = length
      BY Zenon, <2>1 DEF LeastBytesBalance
    <3> HIDE DEF refreshed
    <3>6. \A q \in DOMAIN refreshed : refreshed[p] <= refreshed[q]
      BY Zenon, <3>4 DEF IsLeast
    <3>7. \A a, b \in DOMAIN counters' : counters'[a] <= counters'[b] + Largest
      BY <2>0, <3>1, <3>3, <3>4, <3>6
    <3>8. Partitions(length') \subseteq DOMAIN counters'
      BY Zenon, <3>2, <3>4, <3>5
    <3>9. QED
      BY Zenon, <3>7, <3>8 DEF LeastBytesEven
  <2>2. ASSUME counters' = counters, kind' = kind,
               kind # "LeastBytes" \/ picked' = None \/ (picked' = picked /\ length' = length)
        PROVE  LeastBytesEven'
    BY Zenon, <2>2 DEF LeastBytesEven
  <2>3. CASE RoundRobinBalance
    BY Zenon, <2>2, <2>3 DEF RoundRobinBalance
  <2>4. ASSUME NEW k \in Keys \cup {NoKey}, HashBalance(k) PROVE LeastBytesEven'
    BY Zenon, <2>2, <2>4 DEF HashBalance
  <2>5. ASSUME NEW n \in Lengths, Rebalance(n) PROVE LeastBytesEven'
    BY Zenon, <2>2, <2>5 DEF Rebalance
  <2>6. CASE UNCHANGED vars
    BY Zenon, <2>2, <2>6 DEF vars
  <2>7. QED
    BY Zenon, <2>1, <2>3, <2>4, <2>5, <2>6 DEF Next
<1>3. QED
  BY <1>1, <1>2, TypeCorrect, PTL DEF Spec

-----------------------------------------------------------------------------
(* The partition returned is one of the list. *)

\* RoundRobin and Hash return a partition of the list, for which Writer.run
\* has a partition writer.  LeastBytes returns one of the list or, when it
\* still counts a partition that has gone from the list, one that it counts.
THEOREM RoutableCorrect == Spec => []Routable
<1>1. Init => Routable
  BY Zenon DEF Init, Routable
<1>2. TypeOK /\ Routable /\ [Next]_vars => Routable'
  <2> SUFFICES ASSUME TypeOK, Routable, [Next]_vars PROVE Routable'
    BY Zenon
  <2>0. length \in Nat \ {0}
    BY Zenon, ListTypes DEF TypeOK
  <2>1. ASSUME picked' \in Partitions(length'), kind' = kind PROVE Routable'
    BY Zenon, <2>1 DEF Routable
  <2>2. ASSUME RoundRobin PROVE picked' \in Partitions(length)
    BY <2>0, <2>2, ModRange DEF RoundRobin, Turn, Partitions, TypeOK
  <2>3. CASE RoundRobinBalance
    BY Zenon, <2>1, <2>2, <2>3 DEF RoundRobinBalance
  <2>4. ASSUME NEW s \in Sizes, LeastBytesBalance(s) PROVE Routable'
    <3>1. Partitions(length) \subseteq DOMAIN refreshed
      BY Zenon DEF refreshed
    <3>2. /\ picked' \in DOMAIN refreshed /\ DOMAIN counters' = DOMAIN refreshed
          /\ kind = "LeastBytes" /\ kind' = kind /\ length' = length
      BY Zenon, <2>4 DEF LeastBytesBalance
    <3>3. QED
      BY Zenon, <3>1, <3>2 DEF Routable
  <2>5. ASSUME NEW k \in Keys \cup {NoKey}, HashBalance(k) PROVE Routable'
    <3>1. CASE k = NoKey
      BY Zenon, <2>1, <2>2, <2>5, <3>1 DEF HashBalance
    <3>2. CASE k # NoKey
      <4>1. sum' = Digest(0, k) /\ picked' = HashPartition(sum', length)
              /\ length' = length /\ kind' = kind
        BY Zenon, <2>5, <3>2 DEF HashBalance, Hashed
      <4>2. sum' \in 0 .. Modulus - 1
        BY <3>2, <4>1, BalancerAssumption DEF BalancerAssumption
      <4>3. picked' \in Partitions(length)
        BY Zenon, <2>0, <4>1, <4>2, HashInRange
      <4>4. QED
        BY Zenon, <2>1, <4>1, <4>3
    <3>3. QED
      BY Zenon, <3>1, <3>2
  <2>6. ASSUME NEW n \in Lengths, Rebalance(n) PROVE Routable'
    BY Zenon, <2>6 DEF Rebalance, Routable
  <2>7. CASE UNCHANGED vars
    BY Zenon, <2>7 DEF vars, Routable
  <2>8. QED
    BY Zenon, <2>3, <2>4, <2>5, <2>6, <2>7 DEF Next
<1>3. QED
  BY <1>1, <1>2, TypeCorrect, PTL DEF Spec

\* The partition that the last call of Balance returned is one of the list.
InList == picked # None => picked \in Partitions(length)

\* No partition ever goes from the list that Writer.run gives to Balance.
NeverShrinks == [][length <= length']_vars

\* A LeastBytes counts only partitions of the list.
CountsList == DOMAIN counters \subseteq Partitions(length)

\* As long as the topic only gains partitions, what Routable excepts does not
\* happen: all three balancers, LeastBytes included, return a partition of the
\* list, for which Writer.run has a partition writer.
THEOREM RoutableWhileGrowing == Spec /\ NeverShrinks => []InList
<1>1. Init => CountsList
  BY ListTypes DEF Init, CountsList, Partitions
<1>2. TypeOK /\ CountsList /\ [Next]_vars /\ [length <= length']_vars => CountsList'
  <2> SUFFICES ASSUME TypeOK, CountsList, [Next]_vars, [length <= length']_vars
               PROVE  CountsList'
    BY Zenon
  <2>1. CASE counters' = counters /\ length' = length
    BY Zenon, <2>1 DEF CountsList
  <2>2. ASSUME NEW s \in Sizes, LeastBytesBalance(s) PROVE CountsList'
    <3>1. DOMAIN counters' = DOMAIN refreshed /\ length' = length
      BY Zenon, <2>2 DEF LeastBytesBalance
    <3>2. DOMAIN refreshed \subseteq Partitions(length)
      BY Zenon DEF refreshed, CountsList
    <3>3. QED
      BY Zenon, <3>1, <3>2 DEF CountsList
  <2>3. ASSUME NEW n \in Lengths, Rebalance(n) PROVE CountsList'
    <3>1. counters' = counters /\ length' = n /\ n # length
      BY Zenon, <2>3 DEF Rebalance
    <3>2. length <= length'
      BY Zenon, <3>1 DEF vars
    <3>3. length \in Nat /\ n \in Nat
      BY Zenon, ListTypes DEF TypeOK
    <3>4. Partitions(length) \subseteq Partitions(length')
      BY <3>1, <3>2, <3>3 DEF Partitions
    <3>5. QED
      BY Zenon, <3>1, <3>4 DEF CountsList
  <2>4. QED
    BY Zenon, <2>1, <2>2, <2>3 DEF Next, RoundRobinBalance, HashBalance, vars
<1>3. CountsList /\ Routable => InList
  BY Zenon DEF CountsList, Routable, InList
<1>4. QED
  BY <1>1, <1>2, <1>3, TypeCorrect, RoutableCorrect, PTL DEF Spec, NeverShrinks

-----------------------------------------------------------------------------
(* Hash. *)

\* What a key was routed to is determined by the key and the list.
Determined ==
  \A k \in Keys : route[k] # None => route[k] = HashPartition(Digest(0, k), length)

\* The hasher is reset before it is used: a key always goes to the same
\* partition of the same list.
THEOREM SameKeyCorrect == Spec => SameKeySamePartition
<1>1. Init => Determined
  BY Zenon DEF Init, Determined
<1>2. ASSUME TypeOK, Determined, [Next]_vars
      PROVE  /\ Determined'
             /\ \A k \in Keys : route[k] # None /\ length' = length => route'[k] = route[k]
  <2>1. CASE UNCHANGED <<route, length>>
    BY Zenon, <1>2, <2>1 DEF Determined
  <2>2. ASSUME NEW k \in Keys, HashBalance(k)
        PROVE  /\ Determined'
               /\ \A j \in Keys : route[j] # None => route'[j] = route[j]
    <3>1. k # NoKey
      BY Zenon, BalancerAssumption DEF BalancerAssumption
    <3>2. /\ route' = [route EXCEPT ![k] = HashPartition(Digest(0, k), length)]
          /\ length' = length
      BY Zenon, <2>2, <3>1 DEF HashBalance, Hashed
    <3>3. QED
      BY Zenon, <1>2, <3>2 DEF Determined, TypeOK
  <2>3. ASSUME HashBalance(NoKey) PROVE UNCHANGED <<route, length>>
    BY Zenon, <2>3 DEF HashBalance
  <2>4. ASSUME NEW n \in Lengths, Rebalance(n) PROVE Determined' /\ length' # length
    BY Zenon, <2>4 DEF Rebalance, Determined
  <2>5. CASE RoundRobinBalance
    BY Zenon, <2>1, <2>5 DEF RoundRobinBalance
  <2>6. ASSUME NEW s \in Sizes, LeastBytesBalance(s) PROVE UNCHANGED <<route, length>>
    BY Zenon, <2>6 DEF LeastBytesBalance
  <2>7. CASE UNCHANGED vars
    BY Zenon, <2>1, <2>7 DEF vars
  <2>8. QED
    BY Zenon, <1>2, <2>1, <2>2, <2>3, <2>4, <2>5, <2>6, <2>7 DEF Next
<1>3. QED
  BY <1>1, <1>2, TypeCorrect, PTL DEF Spec, SameKeySamePartition

-----------------------------------------------------------------------------
(* RoundRobin. *)

\* In the order of their turns from t on, p is not after q.
Before(t, p, q) == IF (t <= p) = (t <= q) THEN p <= q ELSE t <= p

\* Since the offset last wrapped or the list changed, when the partitions had
\* been given pre, no partition is ahead of one whose turn is later.
Rounds(pre) ==
  /\ \A p, q \in Partitions(length) : pre[p] <= pre[q] + wraps
  /\ \A p, q \in Partitions(length) : count[p] - pre[p] <= count[q] - pre[q] + 1
  /\ \A p, q \in Partitions(length) :
       Before(Turn, p, q) => count[p] - pre[p] <= count[q] - pre[q]

\* The inductive invariant of RoundRobin.
InRounds == \E pre \in [Partitions(length) -> Int] : Rounds(pre)

\* The orders of successive turns: the partition whose turn it was is last.
LEMMA NextTurn ==
  ASSUME NEW n \in Nat \ {0}, NEW t \in 0 .. n - 1, NEW u \in 0 .. n - 1,
         u = IF t + 1 = n THEN 0 ELSE t + 1,
         NEW p \in 0 .. n - 1, NEW q \in 0 .. n - 1, Before(u, p, q), p # q
  PROVE  p # t /\ (q # t => Before(t, p, q))
<1>1. CASE t + 1 = n
  BY <1>1 DEF Before
<1>2. CASE t + 1 # n
  BY <1>2 DEF Before
<1>3. QED
  BY Zenon, <1>1, <1>2

\* A message of RoundRobin keeps the invariant.
LEMMA RoundRobinStep ==
  ASSUME TypeOK, InRounds, RoundRobin, length' = length
  PROVE  InRounds'
<1>0. length \in Nat \ {0} /\ Modulus \in Nat \ {0} /\ offset \in Nat /\ wraps \in Nat
  BY ListTypes DEF TypeOK
<1> DEFINE P == Partitions(length)
<1>1. Turn \in P
  BY Zenon, <1>0, ModRange DEF Turn, Partitions
<1>2. P = 0 .. length - 1 /\ count \in [P -> Nat]
  BY Zenon DEF TypeOK, Partitions
<1>3. count' = [p \in P |-> count[p] + IF p = Turn THEN 1 ELSE 0]
  BY Zenon, <1>2 DEF RoundRobin
<1>4. PICK pre \in [P -> Int] : Rounds(pre)
  BY Zenon DEF InRounds
<1>5. \A p \in P : Before(Turn, Turn, p)
  BY <1>1, <1>2, <1>0 DEF Before
<1>6. \A p \in P : count[p] - pre[p] <= count[Turn] - pre[Turn] + 1
                   /\ count[Turn] - pre[Turn] <= count[p] - pre[p]
  BY Zenon, <1>1, <1>4, <1>5 DEF Rounds
<1>7. \A p, q \in P : /\ pre[p] <= pre[q] + wraps
                      /\ count[p] - pre[p] <= count[q] - pre[q] + 1
  BY Zenon, <1>4 DEF Rounds
<1> HIDE DEF P
<1>8. ASSUME NEW p \in P, NEW q \in P
      PROVE  count'[p] - pre[p] <= count'[q] - pre[q] + 1
  <2>1. /\ count[p] \in Nat /\ pre[p] \in Int /\ count[q] \in Nat /\ pre[q] \in Int
        /\ count[Turn] \in Nat /\ pre[Turn] \in Int
    BY Zenon, <1>1, <1>2, <1>4
  <2>2. /\ count'[p] = count[p] + IF p = Turn THEN 1 ELSE 0
        /\ count'[q] = count[q] + IF q = Turn THEN 1 ELSE 0
    BY Zenon, <1>3
  <2>3. CASE p = Turn
    <3>1. count[p] - pre[p] <= count[q] - pre[q]
      BY Zenon, <1>6, <2>3
    <3>2. QED
      BY <2>1, <2>2, <3>1
  <2>4. CASE p # Turn
    <3>1. count[p] - pre[p] <= count[q] - pre[q] + 1
      BY Zenon, <1>7
    <3>2. QED
      BY <2>1, <2>2, <2>4, <3>1
  <2>5. QED
    BY Zenon, <2>3, <2>4
<1>9. CASE offset' = 0
  <2>1. wraps' = wraps + 1
    BY Zenon, <1>9 DEF RoundRobin
  <2>2. count' \in [P -> Int]
    BY <1>2, <1>3
  <2>3. \A p, q \in P : count'[p] <= count'[q] + wraps'
    BY <1>0, <1>4, <1>7, <1>8, <2>1, <2>2
  <2>4. \A p, q \in P : /\ count'[p] - count'[p] <= count'[q] - count'[q] + 1
                        /\ count'[p] - count'[p] <= count'[q] - count'[q]
    BY <2>2
  <2>5. QED
    BY Zenon, <2>2, <2>3, <2>4 DEF InRounds, Rounds, P
<1>10. CASE offset' # 0
  <2>1. wraps' = wraps
    BY Zenon, <1>10 DEF RoundRobin
  <2>2. offset' = offset + 1
    <3>1. offset + 1 \in 1 .. Modulus
      BY <1>0 DEF TypeOK
    <3>2. CASE offset + 1 < Modulus
      <4>1. offset + 1 = Modulus * 0 + (offset + 1) /\ offset + 1 \in 0 .. Modulus - 1
        BY <1>0, <3>1, <3>2
      <4>2. (offset + 1) % Modulus = offset + 1
        BY <1>0, <4>1, ModUnique
      <4>3. QED
        BY Zenon, <4>2 DEF RoundRobin, Advance
    <3>3. CASE offset + 1 = Modulus
      <4>1. offset + 1 = Modulus * 1 + 0 /\ 0 \in 0 .. Modulus - 1
        BY <1>0, <3>3
      <4>2. (offset + 1) % Modulus = 0
        BY <1>0, <4>1, ModUnique
      <4>3. QED
        BY Zenon, <1>10, <4>2 DEF RoundRobin, Advance
    <3>4. QED
      BY <1>0, <3>1, <3>2, <3>3
  <2>3. Turn' = IF Turn + 1 = length THEN 0 ELSE Turn + 1
    BY Zenon, <1>0, <2>2, ModSuccessor DEF Turn
  <2>4. Turn' \in P
    BY <1>0, <1>1, <1>2, <2>3
  <2>5. ASSUME NEW p \in P, NEW q \in P, Before(Turn', p, q)
        PROVE  count'[p] - pre[p] <= count'[q] - pre[q]
    <3>1. CASE p = q
      BY <1>2, <1>3, <1>4, <3>1
    <3>2. CASE p # q
      <4>1. p # Turn /\ (q # Turn => Before(Turn, p, q))
        BY Zenon, <1>0, <1>1, <1>2, <2>3, <2>4, <2>5, <3>2, NextTurn
      <4>2. CASE q = Turn
        BY <1>2, <1>3, <1>4, <1>6, <4>1, <4>2
      <4>3. CASE q # Turn
        <5>1. count[p] - pre[p] <= count[q] - pre[q]
          BY Zenon, <1>4, <4>1, <4>3 DEF Rounds, P
        <5>2. QED
          BY <1>2, <1>3, <1>4, <4>1, <4>3, <5>1
      <4>4. QED
        BY Zenon, <4>2, <4>3
    <3>3. QED
      BY Zenon, <3>1, <3>2
  <2>6. QED
    BY Zenon, <1>4, <1>7, <1>8, <2>1, <2>5 DEF InRounds, Rounds, P
<1>11. QED
  BY Zenon, <1>9, <1>10

\* RoundRobin spreads messages evenly over any list, whatever its offset when
\* the list came; each time the offset wraps costs one message at most.
THEOREM RoundRobinCorrect == Spec => []RoundRobinEven
<1>1. Init => InRounds
  <2> SUFFICES ASSUME Init PROVE InRounds
    BY Zenon
  <2>1. Rounds([p \in Partitions(length) |-> 0])
    BY DEF Init, Rounds
  <2>2. QED
    BY <2>1 DEF InRounds
<1>2. TypeOK /\ InRounds /\ [Next]_vars => InRounds'
  <2> SUFFICES ASSUME TypeOK, InRounds, [Next]_vars PROVE InRounds'
    BY Zenon
  <2>1. CASE UNCHANGED <<length, offset, count, wraps>>
    BY Zenon, <2>1 DEF InRounds, Rounds, Turn
  <2>2. CASE RoundRobinBalance
    BY Zenon, <2>2, RoundRobinStep DEF RoundRobinBalance
  <2>3. ASSUME NEW s \in Sizes, LeastBytesBalance(s) PROVE InRounds'
    BY Zenon, <2>1, <2>3 DEF LeastBytesBalance
  <2>4. ASSUME NEW k \in Keys \cup {NoKey}, HashBalance(k) PROVE InRounds'
    BY Zenon, <2>1, <2>4, RoundRobinStep DEF HashBalance
  <2>5. ASSUME NEW n \in Lengths, Rebalance(n) PROVE InRounds'
    <3>1. Rounds([p \in Partitions(length) |-> 0])'
      BY <2>5 DEF Rebalance, Rounds
    <3>2. QED
      BY <3>1 DEF InRounds
  <2>6. CASE UNCHANGED vars
    BY Zenon, <2>1, <2>6 DEF vars
  <2>7. QED
    BY Zenon, <2>2, <2>3, <2>4, <2>5, <2>6 DEF Next
<1>3. TypeOK /\ InRounds => RoundRobinEven
  <2> SUFFICES ASSUME TypeOK, InRounds PROVE RoundRobinEven
    BY Zenon
  <2>1. PICK pre \in [Partitions(length) -> Int] : Rounds(pre)
    BY Zenon DEF InRounds
  <2>2. count \in [Partitions(length) -> Nat] /\ wraps \in Nat
    BY Zenon DEF TypeOK
  <2>3. QED
    BY <2>1, <2>2 DEF Rounds, RoundRobinEven
<1>4. QED
  BY <1>1, <1>2, <1>3, TypeCorrect, PTL DEF Spec

-----------------------------------------------------------------------------
(* The balancers of the consumer groups: arithmetic. *)

\* What the integer division of the code returns: the quotient, rounded down.
LEMMA Quotient ==
  ASSUME NEW a \in Nat, NEW m \in Nat \ {0}
  PROVE  /\ a \div m \in Nat
         /\ (a \div m) * m <= a
         /\ a < (a \div m) * m + m
  BY SMT

\* A product grows with its first factor.
LEMMA FactorGrows ==
  ASSUME NEW x \in Int, NEW y \in Int, NEW m \in Nat, x <= y
  PROVE  x * m <= y * m
  BY SMT

\* A quotient is at most x when what is divided is below x + 1 times the divisor.
LEMMA QuotientAtMost ==
  ASSUME NEW a \in Nat, NEW m \in Nat \ {0}, NEW x \in Nat
  PROVE  a \div m <= x <=> a < x * m + m
<1> DEFINE q == a \div m
<1>1. q \in Nat /\ q * m <= a /\ a < q * m + m
  BY Zenon, Quotient
<1> HIDE DEF q
<1>2. ASSUME q <= x
      PROVE  a < x * m + m
  <2>1. q * m <= x * m
    BY <1>1, <1>2, FactorGrows
  <2> QED
    BY <1>1, <2>1
<1>3. ASSUME ~(q <= x)
      PROVE  ~(a < x * m + m)
  <2>1. (x + 1) * m <= q * m
    BY <1>1, <1>3, FactorGrows
  <2>2. (x + 1) * m = x * m + m
    BY SMT
  <2> QED
    BY <1>1, <2>1, <2>2
<1> QED
  BY Zenon, <1>2, <1>3 DEF q

-----------------------------------------------------------------------------
(* The range balancer. *)

\* Member i has partition k when (k + 1) * mc lies between i * pc and (i + 1) * pc.
LEMMA RangeBounds ==
  ASSUME NEW pc \in Nat, NEW mc \in Nat \ {0}, NEW k \in Nat, NEW i \in Nat
  PROVE  rangeOwns(k, i, pc, mc) <=> i * pc < (k + 1) * mc /\ (k + 1) * mc <= (i + 1) * pc
<1>1. i * pc \in Nat /\ (i + 1) * pc \in Nat /\ (k + 1) * mc = k * mc + mc
  BY SMT
<1>2. (i * pc) \div mc <= k <=> i * pc < k * mc + mc
  BY Zenon, <1>1, QuotientAtMost
<1>3. ((i + 1) * pc) \div mc <= k <=> (i + 1) * pc < k * mc + mc
  BY Zenon, <1>1, QuotientAtMost
<1>4. ((i + 1) * pc) \div mc \in Nat /\ k * mc + mc \in Nat
  BY <1>1, Quotient
<1> QED
  BY <1>1, <1>2, <1>3, <1>4 DEF rangeOwns

\* Of the members before and after one that has a partition, none has it.
LEMMA RangeUnique ==
  ASSUME NEW pc \in Nat, NEW mc \in Nat \ {0}, NEW k \in Nat, NEW i \in Nat, NEW j \in Nat,
         rangeOwns(k, i, pc, mc), rangeOwns(k, j, pc, mc)
  PROVE  i = j
<1>1. /\ i * pc < (k + 1) * mc /\ (k + 1) * mc <= (i + 1) * pc
      /\ j * pc < (k + 1) * mc /\ (k + 1) * mc <= (j + 1) * pc
  BY Zenon, RangeBounds
<1>2. CASE i < j
  <2>1. (i + 1) * pc <= j * pc
    BY <1>2, FactorGrows
  <2> QED
    BY <1>1, <2>1
<1>3. CASE j < i
  <2>1. (j + 1) * pc <= i * pc
    BY <1>3, FactorGrows
  <2> QED
    BY <1>1, <2>1
<1> QED
  BY <1>2, <1>3

\* Every partition has a member.
LEMMA RangeCovers ==
  ASSUME NEW pc \in Nat, NEW mc \in Nat \ {0}, NEW k \in 0 .. pc - 1
  PROVE  \E i \in 0 .. mc - 1 : rangeOwns(k, i, pc, mc)
<1> DEFINE a == (k + 1) * mc - 1
           i == a \div pc
<1>1. a \in Nat /\ pc \in Nat \ {0} /\ k \in Nat
  <2>1. 1 * mc <= (k + 1) * mc
    BY FactorGrows
  <2> QED
    BY <2>1
<1>2. i \in Nat /\ i * pc <= a /\ a < i * pc + pc
  BY Zenon, <1>1, Quotient
<1> HIDE DEF i
<1>3. (i + 1) * pc = i * pc + pc
  BY <1>1, <1>2, SMT
<1>4. rangeOwns(k, i, pc, mc)
  BY <1>1, <1>2, <1>3, RangeBounds
<1>5. i <= mc - 1
  <2>1. (k + 1) * mc <= pc * mc
    BY <1>1, FactorGrows
  <2>2. ASSUME mc <= i
        PROVE  FALSE
    <3>1. mc * pc <= i * pc
      BY <1>1, <1>2, <2>2, FactorGrows
    <3>2. mc * pc = pc * mc
      BY SMT
    <3> QED
      BY <1>2, <2>1, <3>1, <3>2
  <2> QED
    BY <1>2, <2>2
<1> QED
  BY <1>2, <1>4, <1>5

(***************************************************************************)
(* RangeGroupBalancer gives each member of a topic pc \div mc partitions   *)
(* or one more, whatever the numbers of partitions and of members.         *)
(***************************************************************************)
THEOREM RangeShares ==
  ASSUME NEW pc \in Nat, NEW mc \in Nat \ {0}, NEW i \in Nat
  PROVE  ((i + 1) * pc) \div mc - (i * pc) \div mc \in {pc \div mc, pc \div mc + 1}
<1> DEFINE lo == (i * pc) \div mc
           hi == ((i + 1) * pc) \div mc
           q == pc \div mc
<1>1. i * pc \in Nat /\ (i + 1) * pc \in Nat /\ (i + 1) * pc = i * pc + pc
  BY SMT
<1>2. lo \in Nat /\ lo * mc <= i * pc /\ i * pc < lo * mc + mc
  BY Zenon, <1>1, Quotient
<1>3. hi \in Nat /\ hi * mc <= (i + 1) * pc /\ (i + 1) * pc < hi * mc + mc
  BY Zenon, <1>1, Quotient
<1>4. q \in Nat /\ q * mc <= pc /\ pc < q * mc + mc
  BY Zenon, Quotient
<1> HIDE DEF lo, hi, q
<1>5. hi - lo >= q
  <2>1. (lo + q) * mc = lo * mc + q * mc /\ (hi + 1) * mc = hi * mc + mc
    BY <1>2, <1>3, <1>4, SMT
  <2>2. ASSUME hi + 1 <= lo + q
        PROVE  FALSE
    <3>1. (hi + 1) * mc <= (lo + q) * mc
      BY <1>2, <1>3, <1>4, <2>2, FactorGrows
    <3> QED
      BY <1>1, <1>2, <1>3, <1>4, <2>1, <3>1
  <2> QED
    BY <1>2, <1>3, <1>4, <2>2
<1>6. hi - lo <= q + 1
  <2>1. (lo + q + 2) * mc = lo * mc + q * mc + mc + mc
    BY <1>2, <1>4, SMT
  <2>2. ASSUME lo + q + 2 <= hi
        PROVE  FALSE
    <3>1. (lo + q + 2) * mc <= hi * mc
      BY <1>2, <1>3, <1>4, <2>2, FactorGrows
    <3> QED
      BY <1>1, <1>2, <1>3, <1>4, <2>1, <3>1
  <2> QED
    BY <1>2, <1>3, <1>4, <2>2
<1>7. hi - lo \in {q, q + 1}
  BY <1>2, <1>3, <1>4, <1>5, <1>6
<1> QED
  BY Zenon, <1>7 DEF lo, hi, q

-----------------------------------------------------------------------------
(* Both balancers. *)

\* The remainder is the index of a member, and of one member.
LEMMA RoundRobinOne ==
  ASSUME NEW mc \in Nat \ {0}, NEW k \in Nat
  PROVE  k % mc \in 0 .. mc - 1
  BY SMT

(***************************************************************************)
(* Both AssignGroups give every partition of a topic to exactly one of the *)
(* members that have it, whatever the numbers of partitions and of         *)
(* members.                                                                *)
(***************************************************************************)
THEOREM OneOwner ==
  ASSUME NEW b \in Balancers, NEW pc \in Nat, NEW mc \in Nat \ {0}, NEW k \in 0 .. pc - 1
  PROVE  \E i \in 0 .. mc - 1 :
           /\ Owns(b, k, i, pc, mc)
           /\ \A j \in 0 .. mc - 1 : Owns(b, k, j, pc, mc) => j = i
<1>1. CASE b = "range"
  <2>1. PICK i \in 0 .. mc - 1 : rangeOwns(k, i, pc, mc)
    BY Zenon, RangeCovers
  <2>2. \A j \in 0 .. mc - 1 : rangeOwns(k, j, pc, mc) => j = i
    BY <2>1, RangeUnique
  <2> QED
    BY Zenon, <1>1, <2>1, <2>2 DEF Owns
<1>2. CASE b = "roundrobin"
  <2>1. k % mc \in 0 .. mc - 1
    BY RoundRobinOne
  <2>2. \A j \in 0 .. mc - 1 : Owns(b, k, j, pc, mc) <=> j = k % mc
    BY Zenon, <1>2 DEF Owns, roundRobinOwns
  <2> QED
    BY Zenon, <2>1, <2>2
<1> QED
  BY Zenon, <1>1, <1>2 DEF Balancers

-----------------------------------------------------------------------------
(* Indexes. *)

\* The index of an element is less than the number of elements.
LEMMA IndexType ==
  ASSUME NEW S \in SUBSET Nat, IsFiniteSet(S), NEW k \in S
  PROVE  Cardinality(S) \in Nat \ {0} /\ Index(S, k) \in 0 .. Cardinality(S) - 1
<1> DEFINE T == {j \in S : j < k}
<1>1. T \in SUBSET S /\ k \notin T
  OBVIOUS
<1>2. IsFiniteSet(T) /\ Cardinality(T) <= Cardinality(S) /\ Cardinality(T) # Cardinality(S)
  BY Zenon, <1>1, FS_Subset
<1>3. Cardinality(T) \in Nat /\ Cardinality(S) \in Nat
  BY Zenon, <1>2, FS_CardinalityType
<1>4. Index(S, k) = Cardinality(T)
  BY Zenon DEF Index
<1> QED
  BY <1>2, <1>3, <1>4

\* Indexes grow with the elements.
LEMMA IndexGrows ==
  ASSUME NEW S \in SUBSET Nat, IsFiniteSet(S), NEW j \in S, NEW k \in S, j < k
  PROVE  Index(S, j) < Index(S, k)
<1> DEFINE T == {i \in S : i < j}
           U == {i \in S : i < k}
<1>1. T \in SUBSET U /\ j \in U /\ j \notin T /\ U \in SUBSET S
  <2>1. \A i \in S : i \in Nat
    BY Zenon
  <2>2. (\A i \in S : i < j => i < k) /\ ~(j < j)
    BY <2>1
  <2> QED
    BY Zenon, <2>2
<1>2. IsFiniteSet(U)
  BY Zenon, <1>1, FS_Subset
<1>3. IsFiniteSet(T) /\ Cardinality(T) <= Cardinality(U) /\ Cardinality(T) # Cardinality(U)
  BY Zenon, <1>1, <1>2, FS_Subset
<1>4. Cardinality(T) \in Nat /\ Cardinality(U) \in Nat
  BY Zenon, <1>2, <1>3, FS_CardinalityType
<1> QED
  BY <1>3, <1>4 DEF Index

\* No two elements have one index.
LEMMA IndexUnique ==
  ASSUME NEW S \in SUBSET Nat, IsFiniteSet(S), NEW j \in S, NEW k \in S,
         Index(S, j) = Index(S, k)
  PROVE  j = k
<1>1. Index(S, j) \in Nat /\ Index(S, k) \in Nat
  BY IndexType
<1>2. ~(j < k) /\ ~(k < j)
  BY <1>1, IndexGrows
<1> QED
  BY <1>2

\* Every number below that of the elements is the index of one.
LEMMA IndexOnto ==
  ASSUME NEW S \in SUBSET Nat, IsFiniteSet(S), NEW i \in 0 .. Cardinality(S) - 1
  PROVE  \E k \in S : Index(S, k) = i
<1> DEFINE n == Cardinality(S)
           f == [k \in S |-> Index(S, k)]
<1>1. n \in Nat \ {0}
  BY FS_CardinalityType
<1>2. f \in Injection(S, 0 .. n - 1)
  BY Zenon, IndexType, IndexUnique DEF Injection, IsInjective
<1>3. IsFiniteSet(0 .. n - 1) /\ Cardinality(0 .. n - 1) = n
  BY <1>1, FS_Interval
<1>4. f \in Surjection(S, 0 .. n - 1)
  BY Zenon, <1>2, <1>3, FS_Injection
<1> QED
  BY Zenon, <1>4 DEF Surjection

-----------------------------------------------------------------------------
(* The sizes of the shares. *)

\* A set of numbers below n is finite, and so is its number of elements.
LEMMA Below ==
  ASSUME NEW n \in Nat, NEW S \in SUBSET (0 .. n - 1)
  PROVE  IsFiniteSet(S) /\ Cardinality(S) \in Nat
<1>1. IsFiniteSet(0 .. n - 1)
  BY FS_Interval
<1> QED
  BY Zenon, <1>1, FS_Subset, FS_CardinalityType

\* The range balancer gives pc \div mc partitions, or one more.
LEMMA RangeCount ==
  ASSUME NEW pc \in Nat, NEW mc \in Nat \ {0}, NEW i \in 0 .. mc - 1
  PROVE  Cardinality({k \in 0 .. pc - 1 : rangeOwns(k, i, pc, mc)}) \in {pc \div mc, pc \div mc + 1}
<1> DEFINE lo == (i * pc) \div mc
           hi == ((i + 1) * pc) \div mc
           q == pc \div mc
<1>1. i * pc \in Nat /\ (i + 1) * pc \in Nat /\ pc * mc = mc * pc /\ q \in Nat
  BY Quotient, SMT
<1>2. lo \in Nat /\ hi \in Nat
  BY Zenon, <1>1, Quotient
<1>3. hi - lo \in {q, q + 1}
  BY RangeShares
<1>4. hi <= pc
  <2>1. (i + 1) * pc <= mc * pc
    BY FactorGrows
  <2>2. (i + 1) * pc < pc * mc + mc
    BY <1>1, <2>1
  <2> QED
    BY Zenon, <1>1, <2>2, QuotientAtMost
<1>5. {k \in 0 .. pc - 1 : rangeOwns(k, i, pc, mc)} = {k \in 0 .. pc - 1 : lo <= k /\ k < hi}
  BY Zenon DEF rangeOwns
<1> HIDE DEF lo, hi, q
<1>6. {k \in 0 .. pc - 1 : lo <= k /\ k < hi} = lo .. hi - 1
  <2>1. \A k \in lo .. hi - 1 : k \in 0 .. pc - 1 /\ lo <= k /\ k < hi
    BY <1>2, <1>4
  <2>2. \A k \in 0 .. pc - 1 : lo <= k /\ k < hi => k \in lo .. hi - 1
    BY <1>2
  <2> QED
    BY Zenon, <2>1, <2>2
<1>7. Cardinality(lo .. hi - 1) = hi - lo
  <2>1. q \in Nat
    BY Zenon, <1>1
  <2>2. lo <= hi
    BY <1>2, <1>3, <2>1
  <2>3. Cardinality(lo .. hi - 1) = IF lo > hi - 1 THEN 0 ELSE (hi - 1) - lo + 1
    BY <1>2, FS_Interval
  <2> QED
    BY <1>2, <2>2, <2>3
<1> QED
  BY Zenon, <1>3, <1>5, <1>6, <1>7 DEF q

\* So does the round robin balancer.
LEMMA RoundRobinCount ==
  ASSUME NEW pc \in Nat, NEW mc \in Nat \ {0}, NEW i \in 0 .. mc - 1
  PROVE  Cardinality({k \in 0 .. pc - 1 : roundRobinOwns(k, i, pc, mc)})
           \in {pc \div mc, pc \div mc + 1}
<1> DEFINE q == pc \div mc
           S == {k \in 0 .. pc - 1 : roundRobinOwns(k, i, pc, mc)}
           f == [x \in 0 .. q - 1 |-> x * mc + i]
           g == [k \in S |-> k \div mc]
<1>1. q \in Nat /\ q * mc <= pc /\ pc < q * mc + mc
  BY Zenon, Quotient
<1> HIDE DEF q
<1>2. IsFiniteSet(S) /\ Cardinality(S) \in Nat
  BY Zenon, Below
<1>3. f \in Injection(0 .. q - 1, S)
  <2>1. ASSUME NEW x \in 0 .. q - 1
        PROVE  x * mc + i \in S
    <3>1. (x + 1) * mc <= q * mc /\ (x + 1) * mc = x * mc + mc /\ x * mc \in Nat
      BY <1>1, FactorGrows, SMT
    <3>2. x * mc + i \in 0 .. pc - 1
      BY <1>1, <3>1
    <3>3. (x * mc + i) % mc = i
      OBVIOUS
    <3> QED
      BY Zenon, <3>2, <3>3 DEF roundRobinOwns
  <2>2. ASSUME NEW x \in 0 .. q - 1, NEW y \in 0 .. q - 1, x * mc + i = y * mc + i
        PROVE  x = y
    BY <2>2
  <2> QED
    BY Zenon, <2>1, <2>2 DEF Injection, IsInjective
<1>4. Cardinality(0 .. q - 1) = q
  BY <1>1, FS_Interval
<1>5. q <= Cardinality(S)
  BY <1>2, <1>3, <1>4, FS_Injection
<1>6. g \in Injection(S, 0 .. q)
  <2>1. ASSUME NEW k \in S
        PROVE  k \div mc \in 0 .. q /\ k = (k \div mc) * mc + i
    <3>1. k \in 0 .. pc - 1 /\ k % mc = i
      BY Zenon DEF roundRobinOwns
    <3>2. k = (k \div mc) * mc + i /\ k \div mc \in Nat
      BY <3>1, Quotient
    <3>3. k \div mc <= q
      BY SMTT(40), <1>1, <3>1, QuotientAtMost
    <3> QED
      BY <1>1, <3>2, <3>3
  <2> QED
    BY Zenon, <2>1 DEF Injection, IsInjective
<1>7. IsFiniteSet(0 .. q) /\ Cardinality(0 .. q) = q + 1
  BY <1>1, FS_Interval
<1>8. Cardinality(S) <= q + 1
  BY <1>6, <1>7, FS_Injection
<1>9. Cardinality(S) \in {q, q + 1}
  BY <1>1, <1>2, <1>5, <1>8
<1> QED
  BY Zenon, <1>9 DEF q

\* The elements of a list that a balancer gives to member i of mc are as many as
\* their indexes.
LEMMA ShareSize ==
  ASSUME NEW P \in SUBSET Nat, IsFiniteSet(P), NEW b \in Balancers, NEW mc \in Nat \ {0},
         NEW i \in 0 .. mc - 1
  PROVE  /\ Cardinality({j \in P : Owns(b, Index(P, j), i, Cardinality(P), mc)})
              \in {Cardinality(P) \div mc, Cardinality(P) \div mc + 1}
         /\ Cardinality(P) \div mc \in Nat
<1> DEFINE pc == Cardinality(P)
           D == {j \in P : Owns(b, Index(P, j), i, pc, mc)}
           E == {k \in 0 .. pc - 1 : Owns(b, k, i, pc, mc)}
           f == [j \in D |-> Index(P, j)]
<1>1. pc \in Nat /\ pc \div mc \in Nat
  BY Zenon, FS_CardinalityType, Quotient
<1>2. Cardinality(E) \in {pc \div mc, pc \div mc + 1}
  <2>1. CASE b = "range"
    BY ZenonT(60), <1>1, <2>1, RangeCount DEF Owns
  <2>2. CASE b = "roundrobin"
    <3>1. E = {k \in 0 .. pc - 1 : roundRobinOwns(k, i, pc, mc)}
      BY Zenon, <2>2 DEF Owns
    <3> QED
      BY Zenon, <1>1, <3>1, RoundRobinCount
  <2> QED
    BY Zenon, <2>1, <2>2 DEF Balancers
<1>3. IsFiniteSet(D)
  BY Zenon, FS_Subset
<1>4. f \in Injection(D, E) /\ f \in Surjection(D, E)
  <2>1. \A j \in P : Index(P, j) \in 0 .. pc - 1
    BY Zenon, IndexType
  <2>2. \A k \in 0 .. pc - 1 : \E j \in P : Index(P, j) = k
    BY Zenon, IndexOnto
  <2>3. \A j, k \in P : Index(P, j) = Index(P, k) => j = k
    BY Zenon, IndexUnique
  <2>4. f \in [D -> E]
    BY Zenon, <2>1
  <2> HIDE DEF pc
  <2> QED
    BY Zenon, <2>2, <2>3, <2>4 DEF Injection, Surjection, IsInjective
<1>5. Cardinality(E) = Cardinality(D)
  BY <1>3, <1>4, FS_Surjection
<1> QED
  BY Zenon, <1>1, <1>2, <1>5

-----------------------------------------------------------------------------
(* The assignments. *)

\* The types of the subscriptions.
GroupTypeOK == subscriptions \in [Members -> SUBSET Topics]

\* The members that have t.
With(t, topics) == {m \in Members : t \in topics[m]}

\* findMembersByTopic finds them, in whatever order the coordinator lists the members.
LEMMA FindsMembers ==
  ASSUME GroupTypeOK, NEW ms \in Orders, NEW t \in Topics
  PROVE  findMembersByTopic(t, ms, subscriptions)
           = [m \in With(t, subscriptions) |-> Index(With(t, subscriptions), m)]
<1>1. Having(t, ms, subscriptions) = With(t, subscriptions)
  <2>1. ASSUME NEW i \in DOMAIN ms
        PROVE  ms[i] \in Members
    BY Zenon DEF Orders, Joined
  <2>2. ASSUME NEW m \in With(t, subscriptions)
        PROVE  \E i \in DOMAIN ms : ms[i] = m
    BY Zenon DEF Orders, Joined, With
  <2> QED
    BY Zenon, <2>1, <2>2 DEF Having, With
<1> QED
  BY Zenon, <1>1 DEF findMembersByTopic

\* The partitions read of a topic are at finitely many positions.
LEMMA FindsPartitions ==
  ASSUME NEW l \in Listings, NEW ts, NEW t
  PROVE  LET P == DOMAIN findPartitions(t, ReadPartitions(ts, l))
         IN  P \in SUBSET Nat /\ IsFiniteSet(P) /\ (P # {} => t \in ts)
<1> DEFINE P == DOMAIN findPartitions(t, ReadPartitions(ts, l))
<1>1. DOMAIN l = 1 .. Len(l) /\ Len(l) \in Nat
  BY GroupBalancerAssumption
<1>2. P \in SUBSET DOMAIN l /\ (P # {} => t \in ts)
  BY Zenon DEF findPartitions, ReadPartitions
<1>3. IsFiniteSet(1 .. Len(l))
  BY <1>1, FS_Interval
<1> HIDE DEF P
<1>4. IsFiniteSet(P)
  BY Zenon, <1>1, <1>2, <1>3, FS_Subset
<1> QED
  BY <1>1, <1>2, <1>4 DEF P

\* The assignments after a rebalance.
LEMMA Assigned ==
  ASSUME GroupTypeOK, NEW b \in Balancers, NEW ms \in Orders, NEW l \in Listings,
         assignTopicPartitions(b, ms, l), NEW t \in Topics, NEW m \in Members
  PROVE  LET ids == findPartitions(t, basis'.listing)
             H == With(t, basis'.topics)
         IN  /\ m \in H => assignments'[m][t] =
                  [k \in {j \in DOMAIN ids : Owns(b, Index(DOMAIN ids, j), Index(H, m),
                                                  Cardinality(DOMAIN ids), Cardinality(H))} |-> ids[k]]
             /\ m \notin H => assignments'[m][t] = <<>>
<1> DEFINE listing == ReadPartitions(extractTopics(subscriptions), l)
<1>1. basis'.listing = listing /\ basis'.topics = subscriptions
  BY Zenon DEF assignTopicPartitions
<1>2. assignments'[m][t] = IF t \in subscriptions[m] THEN Share(b, m, t, ms, subscriptions, listing)
                           ELSE <<>>
  BY Zenon DEF assignTopicPartitions, AssignGroups
<1> DEFINE of == findMembersByTopic(t, ms, subscriptions)
           ids == findPartitions(t, listing)
           H == With(t, subscriptions)
<1>3. m \in H => DOMAIN of = H /\ of[m] = Index(H, m)
  BY Zenon, FindsMembers
<1>4. Share(b, m, t, ms, subscriptions, listing)
        = [k \in {j \in DOMAIN ids : Owns(b, Index(DOMAIN ids, j), of[m],
                                         Cardinality(DOMAIN ids), Cardinality(DOMAIN of))} |-> ids[k]]
  BY Zenon DEF Share
<1>5. m \in H <=> t \in subscriptions[m]
  BY Zenon DEF With
<1> HIDE DEF listing, of, ids, H
<1>6. /\ m \in H => assignments'[m][t] =
            [k \in {j \in DOMAIN ids : Owns(b, Index(DOMAIN ids, j), Index(H, m),
                                            Cardinality(DOMAIN ids), Cardinality(H))} |-> ids[k]]
      /\ m \notin H => assignments'[m][t] = <<>>
  BY Zenon, <1>2, <1>3, <1>4, <1>5
<1> QED
  BY Zenon, <1>1, <1>6 DEF ids, H

\* A rebalance assigns every partition once, and evenly.
LEMMA RebalanceStep ==
  ASSUME GroupTypeOK, GroupRebalance
  PROVE  EachOnce' /\ Balanced'
<1>1. PICK b \in Balancers, ms \in Orders, l \in Listings : assignTopicPartitions(b, ms, l)
  BY Zenon DEF GroupRebalance
<1>2. basis'.listing = ReadPartitions(extractTopics(subscriptions), l) /\ basis'.topics = subscriptions
  BY Zenon, <1>1 DEF assignTopicPartitions
<1>3. ASSUME NEW t \in Topics
      PROVE  LET ids == findPartitions(t, basis'.listing)
             IN  /\ \A m \in Members : DOMAIN assignments'[m][t] # {} => t \in basis'.topics[m]
                 /\ \A m \in Members : \A k \in DOMAIN assignments'[m][t] :
                      k \in DOMAIN ids /\ assignments'[m][t][k] = ids[k]
                 /\ \A k \in DOMAIN ids : \E m \in Members :
                      /\ k \in DOMAIN assignments'[m][t]
                      /\ \A n \in Members : k \in DOMAIN assignments'[n][t] => n = m
                 /\ \A m, n \in With(t, basis'.topics) :
                      Cardinality(DOMAIN assignments'[m][t]) <= Cardinality(DOMAIN assignments'[n][t]) + 1
  <2> DEFINE ids == findPartitions(t, basis'.listing)
             P == DOMAIN ids
             H == With(t, basis'.topics)
             O(k, m) == Owns(b, Index(P, k), Index(H, m), Cardinality(P), Cardinality(H))
  <2>1. P \in SUBSET Nat /\ IsFiniteSet(P) /\ (P # {} => t \in extractTopics(subscriptions))
    BY Zenon, <1>2, FindsPartitions
  <2>2. H \in SUBSET Nat /\ H \in SUBSET Members /\ IsFiniteSet(H)
    <3>1. H \in SUBSET Members
      BY Zenon DEF With
    <3> QED
      BY Zenon, <3>1, GroupBalancerAssumption, FS_Subset
  <2>3. /\ \A m \in H : assignments'[m][t] = [k \in {j \in P : O(j, m)} |-> ids[k]]
        /\ \A m \in Members \ H : assignments'[m][t] = <<>>
    BY Zenon, <1>1, <2>2, Assigned
  <2>4. \A m \in H : t \in basis'.topics[m]
    BY Zenon DEF With
  <2>5. P # {} => H # {}
    BY Zenon, <1>2, <2>1 DEF extractTopics, With
  <2>6. Cardinality(P) \in Nat /\ Cardinality(H) \in Nat
    BY Zenon, <2>1, <2>2, FS_CardinalityType
  <2> HIDE DEF ids, P, H
  <2>7. \A m \in H : DOMAIN assignments'[m][t] = {j \in P : O(j, m)}
    BY Zenon, <2>3
  <2>8. \A m \in Members \ H : DOMAIN assignments'[m][t] = {}
    BY <2>3
  <2>9. ASSUME NEW k \in P
        PROVE  \E m \in H : O(k, m) /\ \A n \in H : O(k, n) => n = m
    <3>1. Index(P, k) \in 0 .. Cardinality(P) - 1
      BY Zenon, <2>1, IndexType
    <3>2. Cardinality(H) \in Nat \ {0}
      BY Zenon, <2>2, <2>5, <2>6, <2>9, FS_EmptySet
    <3>3. PICK i \in 0 .. Cardinality(H) - 1 :
            /\ Owns(b, Index(P, k), i, Cardinality(P), Cardinality(H))
            /\ \A j \in 0 .. Cardinality(H) - 1 :
                 Owns(b, Index(P, k), j, Cardinality(P), Cardinality(H)) => j = i
      BY Zenon, <2>6, <3>1, <3>2, OneOwner
    <3>4. PICK m \in H : Index(H, m) = i
      BY Zenon, <2>2, IndexOnto
    <3>5. \A n \in H : Index(H, n) \in 0 .. Cardinality(H) - 1
      BY Zenon, <2>2, IndexType
    <3>6. \A n \in H : Index(H, n) = i => n = m
      BY Zenon, <2>2, <3>4, IndexUnique
    <3> QED
      BY Zenon, <3>3, <3>4, <3>5, <3>6
  <2>10. ASSUME NEW m \in H
         PROVE  /\ Cardinality({j \in P : O(j, m)})
                     \in {Cardinality(P) \div Cardinality(H), Cardinality(P) \div Cardinality(H) + 1}
                /\ Cardinality(P) \div Cardinality(H) \in Nat
    <3>1. Cardinality(H) \in Nat \ {0} /\ Index(H, m) \in 0 .. Cardinality(H) - 1
      BY Zenon, <2>2, IndexType
    <3> QED
      BY Zenon, <2>1, <3>1, ShareSize
  <2> HIDE DEF O
  <2>11. \A m \in Members : DOMAIN assignments'[m][t] # {} => t \in basis'.topics[m]
    BY Zenon, <2>4, <2>8
  <2>12. \A m \in Members : \A k \in DOMAIN assignments'[m][t] : k \in P /\ assignments'[m][t][k] = ids[k]
    BY ZenonT(60), <2>3, <2>7, <2>8
  <2>13. ASSUME NEW k \in P
         PROVE  \E m \in Members :
                  /\ k \in DOMAIN assignments'[m][t]
                  /\ \A n \in Members : k \in DOMAIN assignments'[n][t] => n = m
    <3>1. PICK m \in H : O(k, m) /\ \A n \in H : O(k, n) => n = m
      BY Zenon, <2>9
    <3>2. k \in DOMAIN assignments'[m][t]
      BY Zenon, <2>7, <3>1
    <3>3. ASSUME NEW n \in Members, k \in DOMAIN assignments'[n][t]
          PROVE  n = m
      BY Zenon, <2>7, <2>8, <3>1, <3>3
    <3> QED
      BY Zenon, <2>2, <3>2, <3>3
  <2>14. \A m, n \in H :
           Cardinality(DOMAIN assignments'[m][t]) <= Cardinality(DOMAIN assignments'[n][t]) + 1
    BY <2>7, <2>10
  <2> QED
    BY Zenon, <2>11, <2>12, <2>13, <2>14 DEF ids, P, H
<1>4. EachOnce'
  BY Zenon, <1>3 DEF EachOnce
<1>5. Balanced'
  BY Zenon, <1>3 DEF Balanced, With
<1> QED
  BY Zenon, <1>4, <1>5

\* Changes of the subscriptions leave the assignments alone.
LEMMA GroupInvariant == GroupSpec => [](GroupTypeOK /\ EachOnce /\ Balanced)
<1>1. GroupInit => GroupTypeOK /\ EachOnce /\ Balanced
  <2> SUFFICES ASSUME GroupInit
               PROVE  GroupTypeOK /\ EachOnce /\ Balanced
    BY Zenon
  <2>1. GroupTypeOK
    BY Zenon DEF GroupInit, GroupTypeOK
  <2>2. ASSUME NEW m \in Members, NEW t \in Topics
        PROVE  DOMAIN assignments[m][t] = {} /\ t \notin basis.topics[m]
    BY DEF GroupInit, Nothing
  <2>3. ASSUME NEW t \in Topics
        PROVE  DOMAIN findPartitions(t, basis.listing) = {}
    BY DEF GroupInit, Nothing, findPartitions
  <2>4. EachOnce
    BY Zenon, <2>2, <2>3 DEF EachOnce
  <2>5. Balanced
    BY Zenon, <2>2 DEF Balanced
  <2> QED
    BY Zenon, <2>1, <2>4, <2>5
<1>2. ASSUME GroupTypeOK, EachOnce, Balanced, [GroupNext]_groupVars
      PROVE  GroupTypeOK' /\ EachOnce' /\ Balanced'
  <2>1. CASE GroupRebalance
    <3>1. UNCHANGED subscriptions
      BY ZenonT(60), <2>1 DEF GroupRebalance, assignTopicPartitions
    <3> QED
      BY Zenon, <1>2, <2>1, <3>1, RebalanceStep DEF GroupTypeOK
  <2>2. ASSUME NEW m \in Members, NEW ts \in SUBSET Topics, Change(m, ts)
        PROVE  GroupTypeOK' /\ EachOnce' /\ Balanced'
    BY SMTT(40), <1>2, <2>2 DEF Change, GroupTypeOK, EachOnce, Balanced
  <2>3. CASE UNCHANGED groupVars
    BY <1>2, <2>3 DEF groupVars, GroupTypeOK, EachOnce, Balanced
  <2> QED
    BY Zenon, <1>2, <2>1, <2>2, <2>3 DEF GroupNext
<1> QED
  BY <1>1, <1>2, PTL DEF GroupSpec

(***************************************************************************)
(* Whatever members join and leave, whatever topics they have, whatever    *)
(* the brokers list, and whichever balancer the group has: the leader      *)
(* assigns every partition of the topics to exactly one of the members     *)
(* that have its topic.                                                    *)
(***************************************************************************)
THEOREM AssignedOnce == GroupSpec => []EachOnce
  BY GroupInvariant, PTL

\* And it divides the partitions of a topic evenly among those members.
THEOREM AssignedEvenly == GroupSpec => []Balanced
  BY GroupInvariant, PTL

-----------------------------------------------------------------------------
(* Stability. *)

\* What a basis gives to member m of topic t; the order of the members has no part in it.
Given(bs, m, t) ==
  LET ids == findPartitions(t, bs.listing)
      H == With(t, bs.topics)
  IN  IF m \in H
        THEN [k \in {j \in DOMAIN ids : Owns(bs.balancer, Index(DOMAIN ids, j), Index(H, m),
                                             Cardinality(DOMAIN ids), Cardinality(H))} |-> ids[k]]
        ELSE <<>>

\* The assignments are what their basis gives.
Computed ==
  /\ GroupTypeOK
  /\ assignments = [m \in Members |-> [t \in Topics |-> Given(basis, m, t)]]

\* A rebalance computes them so.
LEMMA ComputedStep ==
  ASSUME GroupTypeOK, GroupRebalance
  PROVE  Computed'
<1>1. PICK b \in Balancers, ms \in Orders, l \in Listings : assignTopicPartitions(b, ms, l)
  BY Zenon DEF GroupRebalance
<1>2. basis'.balancer = b /\ UNCHANGED subscriptions
  BY ZenonT(60), <1>1 DEF assignTopicPartitions
<1>3. \A m \in Members, t \in Topics : assignments'[m][t] = Given(basis', m, t)
  BY <1>1, <1>2, Assigned DEF Given
<1>4. assignments' = [m \in Members |-> [t \in Topics |-> assignments'[m][t]]]
  BY Zenon, <1>1 DEF assignTopicPartitions, AssignGroups
<1>5. [m \in Members |-> [t \in Topics |-> assignments'[m][t]]]
        = [m \in Members |-> [t \in Topics |-> Given(basis', m, t)]]
  BY Zenon, <1>3
<1>6. assignments' = [m \in Members |-> [t \in Topics |-> Given(basis', m, t)]]
  BY Zenon, <1>4, <1>5
<1> QED
  BY Zenon, <1>2, <1>6 DEF Computed, GroupTypeOK

\* The assignments stay computed.
LEMMA ComputedInvariant == GroupSpec => []Computed
<1>1. GroupInit => Computed
  <2> SUFFICES ASSUME GroupInit
               PROVE  Computed
    BY Zenon
  <2>1. ASSUME NEW m \in Members, NEW t \in Topics
        PROVE  Given(basis, m, t) = <<>>
    <3>1. m \notin With(t, basis.topics)
      BY Zenon DEF GroupInit, Nothing, With
    <3> QED
      BY Zenon, <3>1 DEF Given
  <2>2. assignments = [m \in Members |-> [t \in Topics |-> Given(basis, m, t)]]
    BY Zenon, <2>1 DEF GroupInit
  <2> QED
    BY Zenon, <2>2 DEF Computed, GroupInit, GroupTypeOK
<1>2. ASSUME Computed, [GroupNext]_groupVars
      PROVE  Computed'
  <2>1. CASE GroupRebalance
    BY Zenon, <1>2, <2>1, ComputedStep DEF Computed
  <2>2. ASSUME NEW m \in Members, NEW ts \in SUBSET Topics, Change(m, ts)
        PROVE  Computed'
    <3>1. UNCHANGED <<assignments, basis>> /\ GroupTypeOK'
      BY Zenon, <1>2, <2>2 DEF Change, Computed, GroupTypeOK
    <3> QED
      BY Zenon, <1>2, <3>1 DEF Computed
  <2>3. CASE UNCHANGED groupVars
    BY Zenon, <1>2, <2>3 DEF groupVars, Computed, GroupTypeOK
  <2> QED
    BY Zenon, <1>2, <2>1, <2>2, <2>3 DEF GroupNext
<1> QED
  BY <1>1, <1>2, PTL DEF GroupSpec

(***************************************************************************)
(* A rebalance that finds the topics, the listing and the balancer of the  *)
(* last one moves no partition, whichever member leads and in whatever     *)
(* order the coordinator lists the members.                                *)
(***************************************************************************)
THEOREM AssignmentStable == GroupSpec => Stable
<1>1. Computed /\ Computed' => (basis' = basis => assignments' = assignments)
  BY Zenon DEF Computed
<1>2. Computed /\ Computed' /\ [GroupNext]_groupVars
        => [basis' = basis => assignments' = assignments]_groupVars
  BY Zenon, <1>1
<1> QED
  BY <1>2, ComputedInvariant, PTL DEF GroupSpec, Stable

=============================================================================
