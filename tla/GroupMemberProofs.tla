-------------------------- MODULE GroupMemberProofs --------------------------
(***************************************************************************)
(* Proofs about GroupMember, for any partitions, any offsets, any number   *)
(* of disruptions and any capacity of the channels.  GroupMemberInvariant  *)
(* has the invariant, the types and the handshake; here are the messages,  *)
(* delivered without a gap, the commits, which are behind what was         *)
(* delivered, answered once, and not forgotten, and the theorems.          *)
(***************************************************************************)
EXTENDS GroupMemberInvariant

-----------------------------------------------------------------------------
(* Delivery, continued. *)

\* start: no message has the new version yet, and the goroutines start behind
\* delivered messages.
LEMMA ChannelStart ==
  ASSUME IInv, [Next]_vars, start
  PROVE  Numbered' /\ Queued' /\ Sending'
PROOF
  <1>1. UNCHANGED <<msgs, seen, ppc, delivered>>
    BY SMTT(40) DEF start, Apart, programVars
  <1>2. CASE closed
    <2>1. UNCHANGED <<version, at>>
      BY Zenon, <1>2 DEF start
    <2> QED BY <1>1, <2>1, ChannelNumbers, ChannelKept
  <1>3. CASE ~closed
    <2>1. /\ version' = version + 1
          /\ at' = [p \in Partitions |-> IF p \in subs THEN offsets[p] ELSE at[p]]
          /\ hpc = "start"
      BY Zenon, <1>3 DEF start
    <2>2. Numbered'
      <3>1. seen <= version
        BY SMTT(40) DEF IInv, Numbered
      <3> QED BY <1>1, <2>1, <3>1, ChannelNumbers DEF Numbered
    <2>3. Queued'
      <3>1. ASSUME NEW i \in 1 .. Len(msgs), msgs[i].version >= Floor'
            PROVE  CoveredNext(msgs[i].p, msgs[i].offset, msgs[i].version, i - 1)
        <4>1. Floor' = IF ppc = "select" THEN seen ELSE version + 1
          BY Zenon, <1>1, <2>1 DEF Floor
        <4>2. msgs[i].version >= Floor
          BY <3>1, <4>1, ChannelNumbers
        <4> QED BY SMTT(40), <1>1, <4>2, ChannelNumbers, DeliveredGrows, CoveredKept
      <3> QED BY SMTT(40), <1>1, <3>1, QueuedNext
    <2>4. Sending'
      <3>1. ASSUME NEW p \in Partitions, Live(p)'
            PROVE  CoveredNext(p, at'[p], version', Len(msgs'))
        <4>1. at'[p] = offsets[p]
          BY SMTT(40), <2>1, <3>1 DEF IInv, Joining, Joined, Live
        <4>2. Delivered(p, offsets[p])
          BY Zenon DEF IInv, Backed
        <4> QED BY SMTT(40), <1>1, <4>1, <4>2 DEF Delivered, CoveredNext
      <3> QED BY Zenon, <3>1, SendingNext
    <2> QED BY Zenon, <2>2, <2>3, <2>4
  <1> QED BY Zenon, <1>2, <1>3

\* A message leaves the channel: it is delivered, or the messages of its version
\* are not taken any more.
LEMMA ChannelReceive ==
  ASSUME IInv, [Next]_vars, FetchReceive \/ FetchDrop
  PROVE  Numbered' /\ Queued' /\ Sending'
PROOF
  <1>1. TypeOK /\ msgs # <<>> /\ msgs' = Tail(msgs) /\ ppc = "select" /\ UNCHANGED <<version, at>>
    BY Zenon DEF IInv, FetchReceive, FetchDrop, NotProgram, Beside
  <1>2. /\ Len(msgs) \in Nat \ {0} /\ Len(msgs') = Len(msgs) - 1
        /\ \A i \in 1 .. Len(msgs') : msgs'[i] = msgs[i + 1]
        /\ Head(msgs) = msgs[1] /\ 1 \in 1 .. Len(msgs)
    BY <1>1, ReceiveType
  <1>3. \A i \in 1 .. Len(msgs') : i + 1 \in 1 .. Len(msgs) /\ (i + 1) - 1 = i /\ i \in 1 .. Len(msgs)
    BY <1>2
  <1>4. FetchReceive => msgs[1].offset \in delivered'[msgs[1].p] /\ seen' = 0 /\ ppc' = "have"
    BY SMTT(40), <1>1, <1>2, ChannelNumbers DEF FetchReceive, TypeOK
  <1>5. FetchDrop => msgs[1].version < seen /\ seen' = version /\ ppc' = "select"
    BY Zenon, <1>1, <1>2 DEF FetchDrop
  <1>6. Floor = seen /\ Floor' = version /\ seen <= version /\ version \in Nat /\ seen \in Nat
    BY Zenon, <1>1, <1>4, <1>5, ChannelNumbers DEF Floor
  <1>7. Numbered'
    BY <1>1, <1>2, <1>3, <1>4, <1>5, <1>6, ChannelNumbers DEF Numbered
  <1>8. ASSUME NEW p \in Partitions, NEW n \in Nat, NEW k \in 1 .. Len(msgs), Covered(p, n, version, k)
        PROVE  CoveredNext(p, n, version, k - 1)
    <2>1. msgs[1].version = version /\ msgs[1].p = p => msgs[1].offset \in delivered'[p]
      BY <1>2, <1>4, <1>5, <1>6, ChannelNumbers
    <2> QED BY Zenon, <1>1, <1>6, <1>8, <2>1, CoveredReceive, DeliveredGrows
  <1>9. Queued'
    <2>1. ASSUME NEW i \in 1 .. Len(msgs'), msgs'[i].version >= Floor'
          PROVE  CoveredNext(msgs'[i].p, msgs'[i].offset, msgs'[i].version, i - 1)
      <3>1. msgs'[i] = msgs[i + 1] /\ i + 1 \in 1 .. Len(msgs) /\ i \in 1 .. Len(msgs)
        BY SMTT(40), <1>2, <1>3
      <3>2. msgs[i + 1].version = version
        BY <1>6, <2>1, <3>1, ChannelNumbers
      <3>3. Covered(msgs[i + 1].p, msgs[i + 1].offset, version, i)
        BY SMTT(40), <1>3, <1>6, <3>1, <3>2, ChannelNumbers
      <3> QED BY SMTT(40), <1>8, <3>1, <3>2, <3>3, ChannelNumbers
    <2> QED BY SMTT(40), <2>1, QueuedNext
  <1>10. Sending'
    <2>1. ASSUME NEW p \in Partitions, Live(p)'
          PROVE  CoveredNext(p, at'[p], version', Len(msgs'))
      <3>1. Len(msgs) \in 1 .. Len(msgs)
        BY <1>2
      <3>2. Live(p)
        BY Zenon, <1>1, <2>1 DEF Live
      <3> QED BY Zenon, <1>1, <1>2, <1>8, <3>1, <3>2, ChannelNumbers
    <2> QED BY Zenon, <2>1, SendingNext
  <1> QED BY SMTT(40), <1>7, <1>9, <1>10

\* A reader goroutine sends its next message.
LEMMA ChannelSend ==
  ASSUME IInv, [Next]_vars, NEW p \in Partitions, ReaderSend(p)
  PROVE  Numbered' /\ Queued' /\ Sending'
PROOF
  <1>1. TypeOK /\ UNCHANGED <<version, seen, ppc, delivered>> /\ Live(p)
    <2>1. Off \notin 0 .. MaxOffset - 1 /\ Stuck \notin 0 .. MaxOffset - 1
      BY GroupMemberAssumption DEF Off, Stuck
    <2> QED BY Zenon, <2>1 DEF IInv, ReaderSend, NotProgram, Beside, programVars, Live
  <1>2. /\ Len(msgs) \in Nat /\ Len(msgs') = Len(msgs) + 1
        /\ \A i \in 1 .. Len(msgs) : msgs'[i] = msgs[i]
        /\ msgs'[Len(msgs) + 1] = [version |-> version, p |-> p, offset |-> at[p]]
        /\ at'[p] = at[p] + 1 /\ \A q \in Partitions \ {p} : at'[q] = at[q]
    BY ZenonT(60), <1>1, SendType
  <1>3. Floor' = Floor /\ \A i \in 1 .. Len(msgs') : i \in 1 .. Len(msgs) \/ i = Len(msgs) + 1
    BY SMTT(40), <1>1, <1>2 DEF Floor
  <1>4. Numbered'
    BY <1>1, <1>2, <1>3, ChannelNumbers DEF Numbered
  <1>5. ASSUME NEW q \in Partitions, NEW n \in Nat, NEW v \in Nat, NEW k \in Nat, NEW m \in Nat,
               Covered(q, n, v, k), k <= Len(msgs), k <= m
        PROVE  CoveredNext(q, n, v, m)
    <2>1. \A i \in 1 .. k : msgs'[i] = msgs[i]
      BY SMTT(40), <1>2, <1>5
    <2> QED BY Zenon, <1>5, <2>1, CoveredKept, DeliveredGrows
  <1>6. Queued'
    <2>1. ASSUME NEW i \in 1 .. Len(msgs), msgs'[i].version >= Floor'
          PROVE  CoveredNext(msgs'[i].p, msgs'[i].offset, msgs'[i].version, i - 1)
      <3>1. msgs'[i] = msgs[i] /\ i - 1 <= Len(msgs) /\ i - 1 <= i - 1
        BY SMTT(40), <1>2
      <3> QED BY ZenonT(60), <1>3, <1>5, <2>1, <3>1, ChannelNumbers
    <2>2. CoveredNext(p, at[p], version, Len(msgs))
      BY SMTT(40), <1>1, <1>2, <1>5, ChannelNumbers
    <2>3. ASSUME NEW i \in 1 .. Len(msgs'), msgs'[i].version >= Floor'
          PROVE  CoveredNext(msgs'[i].p, msgs'[i].offset, msgs'[i].version, i - 1)
      <3>1. CASE i = Len(msgs) + 1
        <4>1. i - 1 = Len(msgs)
          BY <1>2, <3>1
        <4> QED BY SMTT(40), <1>2, <2>2, <3>1, <4>1
      <3> QED BY SMTT(40), <1>3, <2>1, <2>3, <3>1
    <2> QED BY SMTT(40), <2>3, QueuedNext
  <1>7. Sending'
    <2>1. ASSUME NEW q \in Partitions, q # p, Live(q)'
          PROVE  CoveredNext(q, at'[q], version', Len(msgs'))
      <3>1. Live(q) /\ at'[q] = at[q]
        BY Zenon, <1>2, <2>1 DEF Live
      <3> QED BY SMTT(40), <1>1, <1>2, <1>5, <3>1, ChannelNumbers
    <2>2. CoveredNext(p, at'[p], version', Len(msgs'))
      <3>1. CoveredNext(p, at[p], version, Len(msgs'))
        BY SMTT(40), <1>1, <1>2, <1>5, ChannelNumbers
      <3>2. /\ msgs'[Len(msgs')].p = p /\ msgs'[Len(msgs')].version = version
            /\ msgs'[Len(msgs')].offset = at[p] /\ Len(msgs') \in 1 .. Len(msgs')
        BY SMTT(40), <1>2
      <3>3. \A o \in 0 .. (at[p] + 1) - 1 : o \in 0 .. at[p] - 1 \/ o = at[p]
        BY <1>1, ChannelNumbers
      <3> QED BY ZenonT(60), <1>1, <1>2, <3>1, <3>2, <3>3 DEF CoveredNext
    <2> QED BY SMTT(40), <2>1, <2>2, SendingNext
  <1> QED BY Zenon, <1>4, <1>6, <1>7

\* The channel, over all steps.
LEMMA ChannelStep ==
  ASSUME IInv, [Next]_vars
  PROVE  Numbered' /\ Queued' /\ Sending'
PROOF
  <1>1. TypeOK
    BY SMTT(40) DEF IInv
  <1>2. ASSUME UNCHANGED <<msgs, version, seen, ppc, at>>
        PROVE  Numbered' /\ Queued' /\ Sending'
    BY SMTT(40), <1>2, ChannelNumbers, ChannelKept
  <1>3. CASE commitLoop
    BY SMTT(40), <1>2, <1>3, CommitLoopFrame DEF NotCommit, readerVars
  <1>4. CASE FetchOffsets \/ \E p \in Partitions : OtherCommits(p)
    BY SMTT(40), <1>2, <1>4 DEF FetchOffsets, OtherCommits, NotGroup, Apart, readerVars, programVars
  <1>5. CASE FetchMessage
    <2>1. UNCHANGED <<msgs, version, at>> /\ seen' = version
      BY SMTT(40), <1>5 DEF FetchMessage, NotProgram, Beside
    <2> QED BY <2>1, ChannelNumbers, ChannelKept
  <1>6. CASE FetchOver \/ CommitMessages \/ CommitAnswered \/ CommitCancelled
    <2>1. /\ UNCHANGED <<msgs, version, at>> /\ ppc' # "select"
          /\ seen' = seen \/ seen' = 0
      BY SMTT(40), <1>6 DEF FetchOver, CommitMessages, CommitAnswered, CommitCancelled, Idle, NotProgram, Beside
    <2> QED BY <2>1, ChannelNumbers, ChannelKept
  <1>7. ASSUME NEW p \in Partitions, ReaderExit(p) \/ ReaderSpins(p)
        PROVE  Numbered' /\ Queued' /\ Sending'
    <2>1. UNCHANGED <<msgs, version, seen, ppc>>
      BY SMTT(40), <1>7 DEF ReaderExit, ReaderSpins, NotProgram, Beside, programVars
    <2>2. \A q \in Partitions : Live(q)' => at'[q] = at[q]
      BY ZenonT(60), <1>1, <1>7 DEF ReaderExit, ReaderSpins, Live, TypeOK
    <2> QED BY <2>1, <2>2, ChannelNumbers, ChannelKept
  <1> QED BY Zenon, <1>2, <1>3, <1>4, <1>5, <1>6, <1>7, ChannelStart, ChannelReceive, ChannelSend, Quiet
          DEF program, Reading

-----------------------------------------------------------------------------
(* Commits are behind delivered messages. *)

\* Delivered after the step; n is not primed.
DeliveredNext(p, n) == \A o \in 0 .. n - 1 : o \in delivered'[p]

\* What has been delivered, up to an offset.
LEMMA DeliveredKept ==
  ASSUME IInv, [Next]_vars, NEW p \in Partitions, NEW n, Delivered(p, n)
  PROVE  DeliveredNext(p, n)
PROOF
  BY Zenon, DeliveredGrows DEF Delivered, DeliveredNext

\* What Backed and NothingSkipped ask for after the step.
LEMMA BackedNext ==
  ASSUME \A p \in Partitions : /\ DeliveredNext(p, stash'[p]) /\ DeliveredNext(p, offsets'[p])
                               /\ DeliveredNext(p, committed'[p]),
         \A i \in 1 .. Len(commits') : DeliveredNext(commits'[i].p, commits'[i].offset),
         ppc' \in {"have", "await"} => held' \in Held /\ DeliveredNext(held'.p, held'.offset + 1)
  PROVE  Backed' /\ NothingSkipped'
PROOF
  BY Zenon DEF Backed, Delivered, DeliveredNext, NothingSkipped

\* What the invariants say before the step, of the state after it.
LEMMA BackedFacts ==
  ASSUME IInv, [Next]_vars
  PROVE  /\ \A p \in Partitions : /\ DeliveredNext(p, stash[p]) /\ DeliveredNext(p, offsets[p])
                                  /\ DeliveredNext(p, committed[p]) /\ DeliveredNext(p, 0)
         /\ \A i \in 1 .. Len(commits) : /\ commits[i].p \in Partitions
                                         /\ DeliveredNext(commits[i].p, commits[i].offset)
         /\ ppc \in {"have", "await"} => held \in Held /\ DeliveredNext(held.p, held.offset + 1)
PROOF
  <1>1. TypeOK /\ Backed /\ NothingSkipped
    BY Zenon DEF IInv
  <1>2. \A p \in Partitions : Delivered(p, stash[p]) /\ Delivered(p, offsets[p]) /\ Delivered(p, committed[p])
    BY Zenon, <1>1 DEF Backed, NothingSkipped, Delivered
  <1>3. \A p \in Partitions : DeliveredNext(p, 0)
    BY DEF DeliveredNext
  <1>4. \A i \in 1 .. Len(commits) : commits[i].p \in Partitions
    BY Zenon, <1>1, Numbers DEF Request
  <1>5. \A i \in 1 .. Len(commits) : DeliveredNext(commits[i].p, commits[i].offset)
    BY Zenon, <1>1, <1>4, DeliveredKept DEF Backed
  <1>6. ppc \in {"have", "await"} => held \in Held /\ DeliveredNext(held.p, held.offset + 1)
    BY Zenon, <1>1, DeliveredKept DEF Backed, Held
  <1> QED BY Zenon, <1>2, <1>3, <1>4, <1>5, <1>6, DeliveredKept

\* A step after which every offset is one of those before it.
LEMMA BackedKept ==
  ASSUME IInv, [Next]_vars,
         \A p \in Partitions : /\ stash'[p] \in {0, stash[p]}
                               /\ offsets'[p] \in {0, offsets[p], committed[p]}
                               /\ committed'[p] \in {committed[p], stash[p]},
         Len(commits') = Len(commits),
         \A i \in 1 .. Len(commits) :
           commits'[i].p = commits[i].p /\ commits'[i].offset = commits[i].offset,
         ppc' \in {"have", "await"} => ppc \in {"have", "await"} /\ held' = held
  PROVE  Backed' /\ NothingSkipped'
PROOF
  <1>1. \A p \in Partitions : /\ DeliveredNext(p, stash'[p]) /\ DeliveredNext(p, offsets'[p])
                              /\ DeliveredNext(p, committed'[p])
    BY Zenon, BackedFacts
  <1>2. \A i \in 1 .. Len(commits') : DeliveredNext(commits'[i].p, commits'[i].offset)
    BY Zenon, BackedFacts
  <1>3. ppc' \in {"have", "await"} => held' \in Held /\ DeliveredNext(held'.p, held'.offset + 1)
    BY Zenon, BackedFacts
  <1> QED BY Zenon, <1>1, <1>2, <1>3, BackedNext

\* The end of an attempt clears the stash or leaves it.
LEMMA StashKept ==
  ASSUME CommitAgain \/ CommitDone(TRUE) \/ CommitDone(FALSE), NEW p \in Partitions
  PROVE  stash'[p] \in {0, stash[p]}
PROOF
  BY Zenon DEF CommitAgain, CommitDone, Zero

\* Offsets and requests, over all steps.
LEMMA BackedStep ==
  ASSUME IInv, [Next]_vars
  PROVE  Backed' /\ NothingSkipped'
PROOF
  <1>1. TypeOK
    BY Zenon DEF IInv
  <1>2. ASSUME UNCHANGED <<stash, offsets, committed, commits>>,
               ppc' \in {"have", "await"} => ppc \in {"have", "await"} /\ held' = held
        PROVE  Backed' /\ NothingSkipped'
    BY Zenon, <1>2, BackedKept
  <1>3. CASE start \/ FetchOffsets
    <2>1. \A p \in Partitions : offsets'[p] \in {0, offsets[p], committed[p]}
      BY Zenon, <1>3 DEF start, FetchOffsets, Zero
    <2>2. UNCHANGED <<stash, committed, commits, ppc, held>>
      BY Zenon, <1>3 DEF start, FetchOffsets, Apart, commitVars, programVars
    <2> QED BY Zenon, <2>1, <2>2, BackedKept
  <1>4. CASE CommitReceive
    <2>1. UNCHANGED <<offsets, committed, ppc, held>>
      BY Zenon, <1>4 DEF CommitReceive, NotCommit, shakeVars
    <2>2. \A i \in 1 .. Len(commits') : commits'[i] = commits[i + 1] /\ i + 1 \in 1 .. Len(commits)
      BY <1>1, <1>4, CommitReceiveType
    <2>3. 1 \in 1 .. Len(commits)
      BY <1>1, <1>4, CommitReceiveType
    <2>4. \A p \in Partitions : DeliveredNext(p, stash'[p])
      BY Zenon, <1>1, <1>4, <2>3, CommitReceiveType, BackedFacts
    <2>5. \A i \in 1 .. Len(commits') : DeliveredNext(commits'[i].p, commits'[i].offset)
      BY Zenon, <2>2, BackedFacts
    <2> QED BY Zenon, <2>1, <2>4, <2>5, BackedFacts, BackedNext
  <1>5. CASE CommitTick \/ CommitStop
    BY Zenon, <1>2, <1>5 DEF CommitTick, CommitStop, NotCommit, shakeVars
  <1>6. CASE CommitRefused \/ CommitAborted
    <2>1. UNCHANGED <<offsets, committed, commits, ppc, held>>
      BY Zenon, <1>6 DEF CommitRefused, CommitAborted, NotCommit, shakeVars
    <2>2. \A p \in Partitions : stash'[p] \in {0, stash[p]}
      BY Zenon, <1>6, StashKept DEF CommitRefused, CommitAborted
    <2> QED BY Zenon, <2>1, <2>2, BackedKept
  <1>7. ASSUME NEW ps \in SUBSET Stashed, (CommitOffsets /\ ps = Stashed) \/ CommitPartly(ps)
        PROVE  Backed' /\ NothingSkipped'
    <2>1. UNCHANGED <<offsets, commits, ppc, held>>
      BY Zenon, <1>7 DEF CommitOffsets, CommitPartly, NotCommit, shakeVars
    <2>2. \A p \in Partitions : stash'[p] \in {0, stash[p]}
      BY Zenon, <1>7, StashKept DEF CommitOffsets, CommitPartly
    <2>3. \A p \in Partitions : committed'[p] \in {committed[p], stash[p]}
      BY Zenon, <1>7 DEF CommitOffsets, CommitPartly, Store
    <2> QED BY Zenon, <2>1, <2>2, <2>3, BackedKept
  <1>8. CASE FetchMessage \/ FetchDrop \/ FetchOver \/ CommitAnswered
    BY Zenon, <1>2, <1>8 DEF FetchMessage, FetchDrop, FetchOver, CommitAnswered, Idle, NotProgram,
         Beside, shakeVars,
                      groupVars, commitVars
  <1>9. CASE FetchReceive
    <2>1. UNCHANGED <<stash, offsets, committed, commits>>
      BY Zenon, <1>9 DEF FetchReceive, NotProgram, Beside, shakeVars, groupVars, commitVars
    <2>2. /\ 1 \in 1 .. Len(msgs) /\ msgs[1] \in Message /\ msgs[1].version >= seen /\ ppc = "select"
          /\ held' = [p |-> msgs[1].p, offset |-> msgs[1].offset]
          /\ delivered' = [delivered EXCEPT ![msgs[1].p] = @ \cup {msgs[1].offset}]
      <3>1. msgs # <<>> /\ msgs' = Tail(msgs)
        BY Zenon, <1>9 DEF FetchReceive
      <3>2. Head(msgs) = msgs[1] /\ msgs[1] \in Message /\ 1 \in 1 .. Len(msgs)
        BY <1>1, <3>1, ReceiveType
      <3> QED BY Zenon, <1>9, <3>2 DEF FetchReceive
    <2>3. Covered(msgs[1].p, msgs[1].offset, msgs[1].version, 0)
      <3>1. msgs[1].version >= Floor /\ 1 - 1 = 0
        BY <2>2, ChannelNumbers
      <3> QED BY Zenon, <2>2, <3>1, ChannelNumbers
    <2>4. msgs[1].p \in Partitions /\ msgs[1].offset \in 0 .. MaxOffset - 1
      BY Zenon, <2>2 DEF Message
    <2>5. held' \in Held /\ held'.p = msgs[1].p /\ held'.offset = msgs[1].offset
      BY Zenon, <2>2, <2>4 DEF Held
    <2>6. \A o \in 0 .. msgs[1].offset - 1 : o \in delivered[msgs[1].p]
      BY <2>3 DEF Covered
    <2>7. msgs[1].offset \in delivered'[msgs[1].p]
      BY Zenon, <1>1, <2>2, <2>4 DEF TypeOK
    <2>8. \A o \in 0 .. (msgs[1].offset + 1) - 1 : o \in 0 .. msgs[1].offset - 1 \/ o = msgs[1].offset
      BY <2>4, GroupMemberAssumption
    <2>9. DeliveredNext(msgs[1].p, msgs[1].offset + 1)
      BY Zenon, <2>4, <2>6, <2>7, <2>8, DeliveredGrows DEF DeliveredNext
    <2> QED BY Zenon, <2>1, <2>5, <2>9, BackedFacts, BackedNext
  <1>10. CASE CommitMessages
    <2>1. UNCHANGED <<stash, offsets, committed>> /\ ppc = "have"
      BY Zenon, <1>10 DEF CommitMessages, NotProgram, Beside, shakeVars, groupVars
    <2>2. ppc' \in {"have", "await"} => held' = held
      BY Zenon, <1>10 DEF CommitMessages, Idle
    <2>3. /\ Len(commits) \in Nat /\ Len(commits') = Len(commits) + 1
          /\ \A i \in 1 .. Len(commits) : commits'[i] = commits[i]
          /\ commits'[Len(commits) + 1].p = held.p /\ commits'[Len(commits) + 1].offset = held.offset + 1
      BY <1>1, <1>10, CommitMessagesType DEF IInv
    <2>4. \A i \in 1 .. Len(commits') : i \in 1 .. Len(commits) \/ i = Len(commits) + 1
      BY <2>3
    <2>5. \A i \in 1 .. Len(commits') : DeliveredNext(commits'[i].p, commits'[i].offset)
      BY Zenon, <2>1, <2>3, <2>4, BackedFacts
    <2> QED BY Zenon, <2>1, <2>2, <2>5, BackedFacts, BackedNext
  <1>11. CASE CommitCancelled
    <2>1. UNCHANGED <<stash, offsets, committed>> /\ ppc' = "idle"
      BY Zenon, <1>11 DEF CommitCancelled, Idle, NotProgram, Beside, shakeVars, groupVars
    <2> QED BY Zenon, <1>1, <1>11, <2>1, CommitCancelledType, BackedKept
  <1>12. CASE Reading
    BY Zenon, <1>2, <1>12 DEF Reading, ReaderSend, ReaderExit, ReaderSpins, NotProgram, Beside,
         shakeVars, groupVars, commitVars, programVars
  <1>13. ASSUME NEW q \in Partitions, OtherCommits(q)
         PROVE  Backed' /\ NothingSkipped'
    <2>1. UNCHANGED <<stash, offsets, commits, ppc, held>>
      BY Zenon, <1>13 DEF OtherCommits, NotGroup, commitVars, programVars
    <2>2. /\ committed[q] \in Nat /\ committed'[q] = committed[q] + 1
          /\ committed[q] \in delivered'[q]
          /\ \A p \in Partitions \ {q} : committed'[p] = committed[p]
      BY <1>1, <1>13, GroupMemberAssumption DEF OtherCommits, TypeOK
    <2>3. \A o \in 0 .. (committed[q] + 1) - 1 : o \in 0 .. committed[q] - 1 \/ o = committed[q]
      BY <2>2
    <2>4. DeliveredNext(q, committed'[q])
      BY Zenon, <2>2, <2>3, BackedFacts DEF DeliveredNext
    <2> QED BY Zenon, <2>1, <2>2, <2>4, BackedFacts, BackedNext
  <1>14. CASE commitLoop
    <2>1. Stashed \in SUBSET Stashed
      BY Zenon
    <2> QED BY Zenon, <1>4, <1>5, <1>6, <1>7, <1>14, <2>1 DEF commitLoop
  <1>15. CASE program
    BY Zenon, <1>8, <1>9, <1>10, <1>11, <1>15 DEF program
  <1> QED BY Zenon, <1>2, <1>3, <1>12, <1>13, <1>14, <1>15, Quiet

-----------------------------------------------------------------------------
(* Commits are answered, and not forgotten. *)

\* What the program awaits, and what the coordinator has accepted, have their types.
LEMMA AnswerNumbers ==
  ASSUME IInv
  PROVE  /\ \A p \in Partitions : stash[p] \in Nat /\ accepted[p] \in Nat /\ requested[p] \in Nat
         /\ ppc = "await" => held.p \in Partitions /\ held.offset \in Nat
         /\ Len(commits) \in Nat /\ sync \in BOOLEAN
         /\ \A i \in 1 .. Len(commits) : commits[i].p \in Partitions /\ commits[i].offset \in Nat
PROOF
  <1>1. TypeOK /\ Backed
    BY Zenon DEF IInv
  <1>2. \A p \in Partitions : stash[p] \in Nat /\ accepted[p] \in Nat /\ requested[p] \in Nat
    BY <1>1, GroupMemberAssumption DEF TypeOK
  <1>3. ppc = "await" => held.p \in Partitions /\ held.offset \in Nat
    BY <1>1, GroupMemberAssumption DEF Backed, Held
  <1>4. \A i \in 1 .. Len(commits) : commits[i].p \in Partitions /\ commits[i].offset \in Nat
    BY <1>1, Numbers DEF Request
  <1> QED BY Zenon, <1>1, <1>2, <1>3, <1>4, Numbers

\* Only a program that awaits an answer has a request somewhere.
LEMMA NoneAwaited ==
  ASSUME IInv, ppc # "await" \/ errch # "empty"
  PROVE  ~req.awaited /\ \A i \in 1 .. Len(commits) : ~commits[i].awaited
PROOF
  BY Zenon DEF IInv, Awaiting, Mine

\* A step that leaves the requests where they are.
LEMMA AwaitingKept ==
  ASSUME IInv, UNCHANGED <<config, ppc, held, errch, commits, req, stash>>,
         clpc = "commit" => clpc' = "commit"
  PROVE  Awaiting'
PROOF
  <1>1. Awaiting
    BY Zenon DEF IInv
  <1> QED BY Zenon, <1>1 DEF Awaiting, Mine, sync

\* A step after which nothing is awaited.
LEMMA AwaitingNone ==
  ASSUME ~req'.awaited, \A i \in 1 .. Len(commits') : ~commits'[i].awaited,
         ppc' = "await" => sync', ppc' # "await" => errch' = "empty"
  PROVE  Awaiting'
PROOF
  BY Zenon DEF Awaiting

\* The end of a commit answers the request that the loop served.
LEMMA AwaitingDone ==
  ASSUME IInv, NEW ok \in BOOLEAN, CommitDone(ok), UNCHANGED <<config, ppc, held, commits>>
  PROVE  Awaiting'
PROOF
  <1>1. ~req'.awaited /\ req' = NoRequest
    BY Zenon DEF CommitDone, NoRequest
  <1>2. Awaiting
    BY Zenon DEF IInv
  <1>3. sync' = sync
    BY Zenon DEF sync
  <1>4. CASE req.awaited
    <2>1. ppc = "await" /\ \A i \in 1 .. Len(commits) : ~commits[i].awaited
      BY Zenon, <1>2, <1>4 DEF Awaiting, Mine
    <2> QED BY Zenon, <1>1, <1>2, <1>3, <2>1, AwaitingNone DEF Awaiting
  <1>5. CASE ~req.awaited
    <2>1. errch' = errch
      BY Zenon, <1>5 DEF CommitDone
    <2> QED BY Zenon, <1>1, <1>2, <1>3, <2>1 DEF Awaiting, Mine
  <1> QED BY Zenon, <1>4, <1>5

\* So does an attempt that failed.
LEMMA AwaitingAgain ==
  ASSUME IInv, CommitAgain, UNCHANGED <<config, ppc, held, commits>>
  PROVE  Awaiting'
PROOF
  <1>1. CASE attempt + 1 < Retries
    BY Zenon, <1>1, AwaitingKept DEF CommitAgain
  <1>2. CASE ~(attempt + 1 < Retries)
    BY Zenon, <1>2, AwaitingDone DEF CommitAgain
  <1> QED BY Zenon, <1>1, <1>2

\* What the coordinator has accepted grows, and covers what it stores.
LEMMA AcceptedGrows ==
  ASSUME IInv, NEW ps, Store(ps)
  PROVE  /\ \A p \in Partitions : accepted'[p] \in Nat /\ accepted'[p] >= accepted[p]
         /\ \A p \in Partitions : p \in ps => accepted'[p] >= stash[p]
PROOF
  BY AnswerNumbers DEF Store

\* An answer that the program has got stays true.
LEMMA NilKept ==
  ASSUME IInv, UNCHANGED <<ppc, held>>, errch' = "nil" => errch = "nil",
         \A p \in Partitions : accepted'[p] \in Nat /\ accepted'[p] >= accepted[p]
  PROVE  NilMeansCommitted'
PROOF
  <1>1. NilMeansCommitted
    BY Zenon DEF IInv
  <1>2. ASSUME ppc = "await", errch = "nil"
        PROVE  accepted'[held.p] >= held.offset + 1
    <2>1. /\ accepted[held.p] >= held.offset + 1 /\ held.p \in Partitions /\ held.offset \in Nat
          /\ accepted[held.p] \in Nat
      BY Zenon, <1>1, <1>2, AnswerNumbers DEF NilMeansCommitted
    <2> QED BY <2>1
  <1> QED BY Zenon, <1>2 DEF NilMeansCommitted

\* A failed attempt answers no nil.
LEMMA ErrorKept ==
  ASSUME CommitAgain \/ CommitDone(FALSE)
  PROVE  /\ errch' = "nil" => errch = "nil"
         /\ ~sync => stash' = stash
PROOF
  BY Zenon DEF CommitAgain, CommitDone

\* A step that leaves what was requested where it is.
LEMMA ForgottenKept ==
  ASSUME IInv, UNCHANGED <<config, requested, commits>>, ~sync => stash' = stash,
         \A p \in Partitions : accepted'[p] \in Nat /\ accepted'[p] >= accepted[p]
  PROVE  NothingForgotten'
PROOF
  <1>1. NothingForgotten
    BY Zenon DEF IInv
  <1>2. sync' = sync
    BY Zenon DEF sync
  <1>3. ASSUME ~sync, NEW p \in Partitions, requested[p] <= accepted[p]
        PROVE  requested[p] <= accepted'[p]
    BY <1>3, AnswerNumbers
  <1> QED BY Zenon, <1>1, <1>2, <1>3 DEF NothingForgotten

\* All three, when nothing that they are about changes.
LEMMA AnswerKept ==
  ASSUME IInv, UNCHANGED <<config, ppc, held, errch, commits, req, clpc, stash, accepted, requested>>
  PROVE  Awaiting' /\ NilMeansCommitted' /\ NothingForgotten'
PROOF
  <1>1. \A p \in Partitions : accepted'[p] \in Nat /\ accepted'[p] >= accepted[p]
    BY AnswerNumbers
  <1> QED BY Zenon, <1>1, AwaitingKept, NilKept, ForgottenKept

\* A request goes from the channel to the commit loop.
LEMMA AnswerReceive ==
  ASSUME IInv, CommitReceive
  PROVE  Awaiting' /\ NilMeansCommitted' /\ NothingForgotten'
PROOF
  <1>1. TypeOK /\ Awaiting /\ NothingForgotten
    BY Zenon DEF IInv
  <1>2. /\ UNCHANGED <<config, ppc, held, errch, accepted, requested>> /\ clpc = "select"
        /\ sync => clpc' = "commit" /\ req' = commits[1]
        /\ ~sync => req' = NoRequest
    BY Zenon, <1>1, CommitReceiveType DEF CommitReceive, NotCommit, readerVars
  <1>3. /\ Len(commits) \in Nat \ {0} /\ Len(commits') = Len(commits) - 1
        /\ \A i \in 1 .. Len(commits') : commits'[i] = commits[i + 1]
        /\ commits[1] \in Request
        /\ \A p \in Partitions : stash'[p] \in Nat /\ stash'[p] >= stash[p]
        /\ stash'[commits[1].p] >= commits[1].offset
    BY <1>1, CommitReceiveType, GroupMemberAssumption
  <1>4. \A i \in 1 .. Len(commits') : i + 1 \in 1 .. Len(commits) /\ i + 1 # 1
    BY <1>3
  <1>5. 1 \in 1 .. Len(commits) /\ sync' = sync
    BY <1>2, <1>3 DEF sync
  <1>6. Awaiting'
    <2>1. \A i \in 1 .. Len(commits') : commits'[i].awaited =>
            /\ ppc' = "await" /\ errch' = "empty" /\ commits'[i].p = held'.p
            /\ commits'[i].offset = held'.offset + 1 /\ ~req'.awaited
      <3>1. \A i \in 1 .. Len(commits') : commits'[i].awaited =>
              ppc = "await" /\ errch = "empty" /\ commits'[i].p = held.p /\ commits'[i].offset = held.offset + 1
        BY SMTT(40), <1>1, <1>3, <1>4 DEF Awaiting, Mine
      <3>2. \A i \in 1 .. Len(commits') : commits'[i].awaited => ~commits[1].awaited
        BY Zenon, <1>1, <1>3, <1>4, <1>5 DEF Awaiting
      <3>3. \A i \in 1 .. Len(commits') : commits'[i].awaited => ~req'.awaited
        BY <1>2, <3>2 DEF NoRequest
      <3> QED BY ZenonT(60), <1>2, <3>1, <3>3
    <2>2. ASSUME NEW i \in 1 .. Len(commits'), NEW j \in 1 .. Len(commits'),
                 commits'[i].awaited, commits'[j].awaited
          PROVE  i = j
      <3>1. i + 1 = j + 1
        BY Zenon, <1>1, <1>3, <1>4, <2>2 DEF Awaiting
      <3> QED BY <3>1
    <2>3. req'.awaited => /\ Mine(req)' /\ clpc' = "commit"
                          /\ req' \in Request /\ req'.offset <= stash'[req'.p]
      <3>1. CASE sync
        <4>1. commits[1].awaited => Mine(commits[1])
          BY Zenon, <1>1, <1>5 DEF Awaiting
        <4>2. commits[1].offset <= stash'[commits[1].p]
          BY Zenon, <1>3, <1>5, AnswerNumbers
        <4> QED BY Zenon, <1>2, <1>3, <3>1, <4>1, <4>2 DEF Mine
      <3>2. CASE ~sync
        <4>1. req' = NoRequest
          BY Zenon, <1>2, <3>2
        <4>2. ~req'.awaited
          BY ONLY SMTT(40), <4>1 DEF NoRequest
        <4> QED BY Zenon, <4>2
      <3> QED BY Zenon, <3>1, <3>2
    <2>4. (ppc' = "await" => sync') /\ (ppc' # "await" => errch' = "empty")
      BY Zenon, <1>1, <1>2, <1>5 DEF Awaiting
    <2> QED BY Zenon, <2>1, <2>2, <2>3, <2>4 DEF Awaiting, Mine
  <1>7. NilMeansCommitted'
    BY <1>2, NilKept, AnswerNumbers
  <1>8. NothingForgotten'
    <2>1. SUFFICES ASSUME ~sync, NEW p \in Partitions, ~(requested[p] <= stash'[p]), ~(requested[p] <= accepted[p])
                   PROVE  \E i \in 1 .. Len(commits') : commits'[i].p = p /\ requested[p] <= commits'[i].offset
      BY Zenon, <1>2, <1>5 DEF NothingForgotten
    <2>2. ~(requested[p] <= stash[p])
      BY <1>3, <2>1, AnswerNumbers
    <2>3. PICK i \in 1 .. Len(commits) : commits[i].p = p /\ requested[p] <= commits[i].offset
      BY ZenonT(60), <1>1, <2>1, <2>2 DEF NothingForgotten
    <2>4. i # 1
      BY <1>3, <1>5, <2>1, <2>3, AnswerNumbers
    <2>5. i - 1 \in 1 .. Len(commits') /\ (i - 1) + 1 = i
      BY <1>3, <2>3, <2>4
    <2>6. commits'[i - 1] = commits[i]
      BY Zenon, <1>3, <2>5
    <2> QED BY Zenon, <2>3, <2>5, <2>6
  <1> QED BY Zenon, <1>6, <1>7, <1>8

\* A commit succeeds: what was stashed is accepted.
LEMMA AnswerCommitted ==
  ASSUME IInv, CommitOffsets
  PROVE  Awaiting' /\ NilMeansCommitted' /\ NothingForgotten'
PROOF
  <1>1. TypeOK /\ Awaiting /\ NothingForgotten
    BY Zenon DEF IInv
  <1>2. UNCHANGED <<config, ppc, held, commits, requested>> /\ Store(Stashed) /\ CommitDone(TRUE)
    BY Zenon DEF CommitOffsets, NotCommit, readerVars
  <1>3. /\ \A p \in Partitions : accepted'[p] \in Nat /\ accepted'[p] >= accepted[p]
        /\ \A p \in Partitions : p \in Stashed => accepted'[p] >= stash[p]
    BY Zenon, <1>2, AcceptedGrows
  <1>4. Awaiting'
    BY Zenon, <1>2, AwaitingDone
  <1>5. NilMeansCommitted'
    <2>1. CASE req.awaited
      <3>1. req \in Request /\ req.offset <= stash[req.p] /\ req.p = held.p /\ req.offset = held.offset + 1
        BY Zenon, <1>1, <2>1 DEF Awaiting, Mine
      <3>2. req.p \in Partitions /\ req.offset \in Nat \ {0} /\ stash[req.p] \in Nat
        BY <3>1, AnswerNumbers, GroupMemberAssumption DEF Request
      <3>3. req.p \in Stashed
        BY <3>1, <3>2 DEF Stashed
      <3>4. accepted'[req.p] >= req.offset
        BY <1>3, <3>1, <3>2, <3>3
      <3> QED BY Zenon, <1>2, <3>1, <3>4 DEF NilMeansCommitted
    <2>2. CASE ~req.awaited
      <3>1. errch' = errch
        BY Zenon, <1>2, <2>2 DEF CommitDone
      <3> QED BY Zenon, <1>2, <1>3, <3>1, NilKept
    <2> QED BY Zenon, <2>1, <2>2
  <1>6. NothingForgotten'
    <2>1. sync' = sync /\ stash' = Zero
      BY Zenon, <1>2 DEF sync, CommitDone
    <2>2. ASSUME NEW p \in Partitions, requested[p] <= stash[p]
          PROVE  requested[p] <= stash'[p] \/ requested[p] <= accepted'[p]
      <3>1. CASE stash[p] > 0
        BY <1>3, <2>2, <3>1, AnswerNumbers DEF Stashed
      <3>2. CASE ~(stash[p] > 0)
        BY <2>1, <2>2, <3>2, AnswerNumbers DEF Zero
      <3> QED BY Zenon, <3>1, <3>2
    <2>3. ASSUME NEW p \in Partitions, requested[p] <= accepted[p]
          PROVE  requested[p] <= accepted'[p]
      BY <1>3, <2>3, AnswerNumbers
    <2> QED BY Zenon, <1>1, <1>2, <2>1, <2>2, <2>3 DEF NothingForgotten
  <1> QED BY Zenon, <1>4, <1>5, <1>6

\* CommitMessages sends a request.
LEMMA AnswerRequested ==
  ASSUME IInv, CommitMessages
  PROVE  Awaiting' /\ NilMeansCommitted' /\ NothingForgotten'
PROOF
  <1>1. TypeOK /\ Backed /\ Awaiting /\ NothingForgotten
    BY Zenon DEF IInv
  <1>2. UNCHANGED <<config, req, clpc, stash, accepted>> /\ ppc = "have"
    BY Zenon DEF CommitMessages, NotProgram, Beside, loopVars
  <1>3. /\ held \in Held /\ Len(commits) \in Nat /\ Len(commits') = Len(commits) + 1
        /\ \A i \in 1 .. Len(commits) : commits'[i] = commits[i]
        /\ commits'[Len(commits) + 1] = [p |-> held.p, offset |-> held.offset + 1, awaited |-> sync]
        /\ \A q \in Partitions \ {held.p} : requested'[q] = requested[q]
        /\ requested'[held.p] = IF ~sync /\ held.offset + 1 > requested[held.p]
                                  THEN held.offset + 1 ELSE requested[held.p]
    BY Zenon, <1>1, CommitMessagesType
  <1>4. \A i \in 1 .. Len(commits') : i \in 1 .. Len(commits) \/ i = Len(commits) + 1
    BY <1>3
  <1>5. ~req.awaited /\ errch = "empty" /\ \A i \in 1 .. Len(commits) : ~commits[i].awaited
    BY Zenon, <1>1, <1>2, NoneAwaited DEF Awaiting
  <1>6. sync' = sync /\ errch' = "empty"
    BY Zenon, <1>2, <1>5 DEF CommitMessages, Idle, sync
  <1>7. \A i \in 1 .. Len(commits') : commits'[i].awaited => i = Len(commits) + 1 /\ sync
    BY <1>3, <1>4, <1>5
  <1>8. Awaiting'
    <2>1. CASE sync
      <3>1. ppc' = "await" /\ held' = held
        BY Zenon, <2>1 DEF CommitMessages
      <3>2. \A i \in 1 .. Len(commits') : commits'[i].awaited =>
              commits'[i].p = held.p /\ commits'[i].offset = held.offset + 1
        BY <1>3, <1>7
      <3>3. \A i, j \in 1 .. Len(commits') : commits'[i].awaited /\ commits'[j].awaited => i = j
        BY Zenon, <1>7
      <3> QED BY Zenon, <1>2, <1>5, <1>6, <2>1, <3>1, <3>2, <3>3 DEF Awaiting, Mine
    <2>2. CASE ~sync
      <3>1. ppc' = "idle"
        BY Zenon, <2>2 DEF CommitMessages, Idle
      <3> QED BY Zenon, <1>2, <1>5, <1>6, <1>7, <2>2, <3>1, AwaitingNone
    <2> QED BY Zenon, <2>1, <2>2
  <1>9. NilMeansCommitted'
    BY Zenon, <1>6 DEF NilMeansCommitted
  <1>10. NothingForgotten'
    <2>1. ASSUME ~sync, NEW p \in Partitions
          PROVE  \/ requested'[p] <= stash[p] \/ requested'[p] <= accepted[p]
                 \/ \E i \in 1 .. Len(commits') : commits'[i].p = p /\ requested'[p] <= commits'[i].offset
      <3>1. CASE requested'[p] = requested[p]
        <4>1. \A i \in 1 .. Len(commits) : i \in 1 .. Len(commits') /\ commits'[i] = commits[i]
          BY <1>3
        <4> QED BY <1>1, <2>1, <3>1, <4>1 DEF NothingForgotten
      <3>2. CASE requested'[p] # requested[p]
        <4>1. p = held.p /\ requested'[p] = held.offset + 1 /\ held.offset + 1 \in Nat
          BY <1>3, <3>2, GroupMemberAssumption DEF Held
        <4>2. /\ commits'[Len(commits) + 1].p = p /\ Len(commits) + 1 \in 1 .. Len(commits')
              /\ requested'[p] <= commits'[Len(commits) + 1].offset
          BY <1>3, <4>1
        <4> QED BY Zenon, <4>2
      <3> QED BY Zenon, <3>1, <3>2
    <2> QED BY Zenon, <1>2, <1>6, <2>1 DEF NothingForgotten
  <1> QED BY Zenon, <1>8, <1>9, <1>10

\* The answers, over all steps.
LEMMA AnswerStep ==
  ASSUME IInv, [Next]_vars
  PROVE  Awaiting' /\ NilMeansCommitted' /\ NothingForgotten'
PROOF
  <1>1. TypeOK /\ Awaiting
    BY Zenon DEF IInv
  <1>2. ASSUME UNCHANGED accepted
        PROVE  \A p \in Partitions : accepted'[p] \in Nat /\ accepted'[p] >= accepted[p]
    BY <1>2, AnswerNumbers
  <1>3. CASE start \/ FetchOffsets
    <2>1. UNCHANGED <<config, ppc, held, errch, commits, req, clpc, stash, accepted, requested>>
      BY Zenon, <1>3 DEF start, FetchOffsets, Apart, readerVars, loopVars, commitVars, programVars
    <2> QED BY Zenon, <2>1, AnswerKept
  <1>4. CASE CommitTick \/ CommitStop
    <2>1. /\ UNCHANGED <<config, ppc, held, errch, commits, req, stash, accepted, requested>>
          /\ clpc = "select"
      BY Zenon, <1>4 DEF CommitTick, CommitStop, NotCommit, readerVars
    <2> QED BY Zenon, <1>2, <2>1, AwaitingKept, NilKept, ForgottenKept
  <1>5. CASE CommitRefused \/ CommitAborted
    <2>1. /\ UNCHANGED <<config, ppc, held, commits, accepted, requested>>
          /\ CommitAgain \/ CommitDone(FALSE)
      BY Zenon, <1>5 DEF CommitRefused, CommitAborted, NotCommit, readerVars
    <2> QED BY Zenon, <1>2, <2>1, ErrorKept, AwaitingDone, AwaitingAgain, NilKept, ForgottenKept
  <1>6. ASSUME NEW ps \in SUBSET Stashed, CommitPartly(ps)
        PROVE  Awaiting' /\ NilMeansCommitted' /\ NothingForgotten'
    <2>1. UNCHANGED <<config, ppc, held, commits, requested>> /\ CommitAgain /\ Store(ps)
      BY Zenon, <1>6 DEF CommitPartly, NotCommit, readerVars
    <2>2. \A p \in Partitions : accepted'[p] \in Nat /\ accepted'[p] >= accepted[p]
      BY Zenon, <2>1, AcceptedGrows
    <2> QED BY Zenon, <2>1, <2>2, ErrorKept, AwaitingAgain, NilKept, ForgottenKept
  <1>7. CASE FetchMessage \/ FetchReceive \/ FetchDrop \/ FetchOver \/ CommitAnswered
    <2>1. UNCHANGED <<config, commits, req, clpc, stash, accepted, requested>>
      BY Zenon, <1>7 DEF FetchMessage, FetchReceive, FetchDrop, FetchOver, CommitAnswered, NotProgram, Beside,
                  loopVars, commitVars
    <2>2. ppc' # "await"
      BY Zenon, <1>7 DEF FetchMessage, FetchReceive, FetchDrop, FetchOver, CommitAnswered, Idle
    <2>3. ppc # "await" \/ errch # "empty"
      BY Zenon, <1>7 DEF FetchMessage, FetchReceive, FetchDrop, FetchOver, CommitAnswered
    <2>4. errch' = "empty"
      BY Zenon, <1>1, <1>7 DEF FetchMessage, FetchReceive, FetchDrop, FetchOver, CommitAnswered, Idle, Awaiting
    <2>5. Awaiting'
      BY Zenon, <2>1, <2>2, <2>3, <2>4, NoneAwaited, AwaitingNone
    <2> QED BY Zenon, <1>2, <2>1, <2>2, <2>5, ForgottenKept DEF NilMeansCommitted
  <1>8. CASE CommitCancelled
    <2>1. UNCHANGED <<config, stash, accepted, requested>> /\ ppc' = "idle" /\ errch' = "empty"
      BY Zenon, <1>8 DEF CommitCancelled, Idle, NotProgram, Beside
    <2>2. Awaiting'
      BY Zenon, <1>1, <1>8, <2>1, CommitCancelledType, AwaitingNone
    <2>3. NothingForgotten'
      <3>1. NothingForgotten /\ sync' = sync
        BY Zenon, <2>1 DEF IInv, sync
      <3>2. /\ Len(commits') = Len(commits)
            /\ \A i \in 1 .. Len(commits) : commits'[i].p = commits[i].p /\ commits'[i].offset = commits[i].offset
        BY Zenon, <1>1, <1>8, CommitCancelledType
      <3> QED BY <2>1, <3>1, <3>2 DEF NothingForgotten
    <2> QED BY Zenon, <2>1, <2>2, <2>3 DEF NilMeansCommitted
  <1>9. CASE Reading
    <2>1. UNCHANGED <<config, ppc, held, errch, commits, req, clpc, stash, accepted, requested>>
      BY Zenon, <1>9 DEF Reading, ReaderSend, ReaderExit, ReaderSpins, NotProgram, Beside, loopVars,
           commitVars, programVars
    <2> QED BY Zenon, <2>1, AnswerKept
  <1>10. CASE \E p \in Partitions : OtherCommits(p)
    <2>1. UNCHANGED <<config, ppc, held, errch, commits, req, clpc, stash, accepted, requested>>
      BY Zenon, <1>10 DEF OtherCommits, NotGroup, readerVars, loopVars, commitVars, programVars
    <2> QED BY Zenon, <2>1, AnswerKept
  <1>11. CASE commitLoop
    BY Zenon, <1>4, <1>5, <1>6, <1>11, AnswerReceive, AnswerCommitted DEF commitLoop
  <1>12. CASE program
    BY Zenon, <1>7, <1>8, <1>12, AnswerRequested DEF program
  <1> QED BY Zenon, <1>3, <1>9, <1>10, <1>11, <1>12, Quiet, AnswerKept

-----------------------------------------------------------------------------
(* The theorems. *)

\* A new Reader satisfies the invariant.
LEMMA InitInvariant ==
  ASSUME Init
  PROVE  IInv
PROOF
  <1> USE GroupMemberAssumption
  <1>1. msgs = <<>> /\ commits = <<>> /\ Len(msgs) = 0 /\ Len(commits) = 0
    BY Zenon DEF Init
  <1>2. msgs \in Seq(Message) /\ commits \in Seq(Request)
    BY <1>1
  <1>3. at \in [Partitions -> Stuck .. MaxOffset] /\ \A p \in Partitions : at[p] = Off
    BY DEF Init, Off, Stuck
  <1>4. Zero \in [Partitions -> 0 .. MaxOffset] /\ \A p \in Partitions : Zero[p] = 0
    BY DEF Zero
  <1>5. TypeOK
    <2>1. 0 \in 0 .. Retries - 1 /\ 0 \in 0 .. MaxDisruptions /\ 0 <= QueueCapacity
      OBVIOUS
    <2>2. delivered \in [Partitions -> SUBSET (0 .. MaxOffset - 1)]
      BY Zenon DEF Init
    <2> QED BY ZenonT(60), <1>1, <1>2, <1>3, <1>4, <2>1, <2>2 DEF Init, TypeOK
  <1>6. Joining /\ Subscribing /\ OwnedReads /\ ConnOutlivesGroup
    BY Zenon, <1>3 DEF Init, Joining, Joined, Subscribing, OwnedReads, ConnOutlivesGroup
  <1>7. Numbered /\ Queued /\ Sending
    BY <1>1, <1>3 DEF Init, Numbered, Queued, Sending, Live
  <1>8. Backed /\ NothingSkipped
    BY SMTT(40), <1>1, <1>4 DEF Init, Backed, NothingSkipped, Delivered
  <1>9. Awaiting /\ NilMeansCommitted /\ NothingForgotten
    BY <1>1, <1>4 DEF Init, Awaiting, NilMeansCommitted, NothingForgotten, NoRequest
  <1> QED BY Zenon, <1>5, <1>6, <1>7, <1>8, <1>9 DEF IInv

\* Every step keeps the invariant.
LEMMA StepInvariant ==
  ASSUME IInv, [Next]_vars
  PROVE  IInv'
PROOF
  BY Zenon, TypeStep, HandshakeStep, ChannelStep, BackedStep, AnswerStep DEF IInv

\* The invariant holds in every reachable state.
LEMMA Invariant == Spec => []IInv
PROOF
  BY InitInvariant, StepInvariant, PTL DEF Spec

\* The variables keep to their types, and the channels msgs and commits to the
\* QueueCapacity.
THEOREM TypeCorrect == Spec => []TypeOK
PROOF
  <1>1. IInv => TypeOK
    BY Zenon DEF IInv
  <1> QED BY <1>1, Invariant, PTL

\* At least once: every offset below one that the group has committed has been
\* delivered, whatever rebalances, dropped messages, late commits and lost
\* responses there were (FetchMessage, CommitMessages and the commit loops).
THEOREM AtLeastOnce == Spec => []NothingSkipped
PROOF
  <1>1. IInv => NothingSkipped
    BY Zenon DEF IInv
  <1> QED BY <1>1, Invariant, PTL

\* A synchronous CommitMessages that returns nil has had its offset stored: the
\* request is answered once, by the loop that committed it.
THEOREM NilIsCommitted == Spec => []NilMeansCommitted
PROOF
  <1>1. IInv => NilMeansCommitted
    BY Zenon DEF IInv
  <1> QED BY <1>1, Invariant, PTL

\* What an asynchronous CommitMessages took is queued, stashed or stored, across
\* failed commits and generations (commitLoopInterval and offsetStash).
THEOREM NoCommitForgotten == Spec => []NothingForgotten
PROOF
  <1>1. IInv => NothingForgotten
    BY Zenon DEF IInv
  <1> QED BY <1>1, Invariant, PTL

\* A member reads no partition that is not assigned to it in the generation it is
\* in: handshake unsubscribes and waits before it joins.
THEOREM ReadsOnlyOwned == Spec => []OwnedReads
PROOF
  <1>1. IInv => OwnedReads
    BY Zenon DEF IInv
  <1> QED BY <1>1, Invariant, PTL

\* The goroutines of a runGroup end before the connection that they share is
\* closed (handshake, runGroup.Stop and runGroup.Wait).
THEOREM GroupEndsFirst == Spec => []ConnOutlivesGroup
PROOF
  <1>1. IInv => ConnOutlivesGroup
    BY Zenon DEF IInv
  <1> QED BY <1>1, Invariant, PTL
=============================================================================
