------------------------ MODULE GroupMemberInvariant ------------------------
(***************************************************************************)
(* The inductive invariant of GroupMember, why the steps keep the types    *)
(* and the handshake, and the lemmas about the channel of messages.  The   *)
(* rest, the delivery of messages, the commits and the theorems, is in     *)
(* GroupMemberProofs.                                                      *)
(*                                                                         *)
(* That nothing is skipped rests on three facts.  The reader goroutines of *)
(* a generation start from committed offsets, and send without a gap.  The *)
(* program drops the messages of a version only when it has seen a newer   *)
(* one, and then it drops all that are left of that version.  So when a    *)
(* message is delivered all those before it have been, and what is queued  *)
(* for the commit loop, stashed or stored is never ahead of that.          *)
(***************************************************************************)
EXTENDS GroupMember, TLAPS

\* The handshake joins the group when the reader goroutines have ended.
Joining == hpc \in {"dial", "joinGroup", "syncGroup", "subscribe", "start"} => Joined

\* The handshake subscribes to what the coordinator assigned.
Subscribing == hpc \in {"subscribe", "start"} /\ member /\ current => subs \subseteq assigned

\* No version is newer than that of the Reader.
Numbered ==
  /\ seen <= version
  /\ \A i \in 1 .. Len(msgs) : msgs[i].version <= version

\* The oldest version of which the program takes messages, now or in its next call.
Floor == IF ppc = "select" THEN seen ELSE version

\* The offsets of p below n have been delivered.
Delivered(p, n) == \A o \in 0 .. n - 1 : o \in delivered[p]

\* The offsets of p below n have been delivered, or are among the first k
\* messages of the channel, with version v.
Covered(p, n, v, k) ==
  \A o \in 0 .. n - 1 :
    \/ o \in delivered[p]
    \/ \E j \in 1 .. k : msgs[j].p = p /\ msgs[j].version = v /\ msgs[j].offset = o

\* A message that the program will take comes after those before it.
Queued ==
  \A i \in 1 .. Len(msgs) :
    msgs[i].version >= Floor => Covered(msgs[i].p, msgs[i].offset, msgs[i].version, i - 1)

\* The message that a reader goroutine sends next comes after those before it.
Sending == \A p \in Partitions : Live(p) => Covered(p, at[p], version, Len(msgs))

\* What is to be committed, and where reading starts, is behind delivered messages.
Backed ==
  /\ \A p \in Partitions : Delivered(p, stash[p]) /\ Delivered(p, offsets[p])
  /\ \A i \in 1 .. Len(commits) : Delivered(commits[i].p, commits[i].offset)
  /\ ppc \in {"have", "await"} => held \in Held /\ Delivered(held.p, held.offset + 1)

\* The request whose answer the program awaits.
Mine(r) == ppc = "await" /\ errch = "empty" /\ r.p = held.p /\ r.offset = held.offset + 1

\* There is at most one such request, in the channel or with the commit loop.
Awaiting ==
  /\ ppc = "await" => sync
  /\ ppc # "await" => errch = "empty"
  /\ \A i \in 1 .. Len(commits) : commits[i].awaited => Mine(commits[i]) /\ ~req.awaited
  /\ \A i, j \in 1 .. Len(commits) : commits[i].awaited /\ commits[j].awaited => i = j
  /\ req.awaited => /\ Mine(req) /\ clpc = "commit"
                    /\ req \in Request /\ req.offset <= stash[req.p]

\* The inductive invariant.
IInv ==
  /\ TypeOK
  /\ Joining /\ Subscribing /\ OwnedReads /\ ConnOutlivesGroup
  /\ Numbered /\ Queued /\ Sending /\ Backed /\ NothingSkipped
  /\ Awaiting /\ NilMeansCommitted /\ NothingForgotten

-----------------------------------------------------------------------------
(* Sequences. *)

\* Arithmetic of positions, when the first one is removed.
LEMMA PositionBefore ==
  ASSUME NEW n \in Nat, NEW k \in 1 .. n, NEW j \in 1 .. k, j # 1
  PROVE  j - 1 \in 1 .. k - 1 /\ j - 1 \in 1 .. n - 1 /\ (j - 1) + 1 = j
PROOF
  OBVIOUS

\* The length and the elements of a sequence.
LEMMA LenAndElements ==
  ASSUME NEW S, NEW s \in Seq(S)
  PROVE  Len(s) \in Nat /\ \A i \in 1 .. Len(s) : s[i] \in S
  OBVIOUS

\* The rest of a sequence that is not empty.
LEMMA HeadAndTail ==
  ASSUME NEW S, NEW s \in Seq(S), s # <<>>
  PROVE  /\ Head(s) \in S /\ Head(s) = s[1]
         /\ Tail(s) \in Seq(S) /\ Len(s) \in Nat \ {0} /\ Len(Tail(s)) = Len(s) - 1
         /\ \A i \in 1 .. Len(Tail(s)) : Tail(s)[i] = s[i + 1]
  OBVIOUS

-----------------------------------------------------------------------------
(* Types. *)

\* The types of the sequences and of the numbers.
LEMMA Numbers ==
  ASSUME TypeOK
  PROVE  /\ MaxOffset \in Nat /\ QueueCapacity \in Nat \ {0} /\ Retries \in Nat \ {0}
         /\ version \in Nat /\ seen \in Nat /\ sync \in BOOLEAN
         /\ Len(msgs) \in Nat /\ Len(commits) \in Nat
         /\ \A i \in 1 .. Len(msgs) : msgs[i] \in Message
         /\ \A i \in 1 .. Len(commits) : commits[i] \in Request
PROOF
  <1>1. config \in [sync : BOOLEAN, watch : BOOLEAN]
    BY Zenon, GroupMemberAssumption DEF TypeOK
  <1>2. sync \in BOOLEAN
    BY Zenon, <1>1 DEF sync
  <1>3. msgs \in Seq(Message) /\ commits \in Seq(Request)
    BY Zenon DEF TypeOK
  <1> QED BY Zenon, <1>2, <1>3, LenAndElements, GroupMemberAssumption DEF TypeOK

\* What a step of handshake changes has its type, and so all has.
LEMMA ShakeType ==
  ASSUME TypeOK, Apart, UNCHANGED <<config, closed, stopped, msgs, clpc, attempt, last, req>>,
         version' \in Nat, cancelled' \in BOOLEAN, at' \in [Partitions -> Stuck .. MaxOffset],
         hpc' \in {"unsubscribe", "join", "dial", "joinGroup", "syncGroup",
                   "subscribe", "start", "wait", "teardown", "loop", "exited"},
         conn' \in {"nil", "open", "broken"}, memberID' \in BOOLEAN,
         subs' \in SUBSET Partitions, offsets' \in [Partitions -> 0 .. MaxOffset],
         running' \in SUBSET Loops, rgStop' \in BOOLEAN,
         member' \in BOOLEAN, current' \in BOOLEAN, rebalancing' \in BOOLEAN,
         assigned' \in SUBSET Partitions, disruptions' \in 0 .. MaxDisruptions
  PROVE  TypeOK'
PROOF
  BY DEF TypeOK, Apart, commitVars, programVars, Loops

\* The steps of handshake keep the types.
LEMMA HandshakeType ==
  ASSUME TypeOK, handshake
  PROVE  TypeOK'
PROOF
  <1> USE DEF readerVars, loopVars, membership, Goto, Gone
  <1>1. ASSUME Disrupt \/ UNCHANGED disruptions
        PROVE  disruptions' \in 0 .. MaxDisruptions
    BY <1>1, GroupMemberAssumption DEF Disrupt, TypeOK
  <1>2. ASSUME NEW l \in {"unsubscribe", "dial", "teardown", "loop", "exited"}, Move(l),
               Disrupt \/ UNCHANGED disruptions
        PROVE  TypeOK'
    <2>1. disruptions' \in 0 .. MaxDisruptions
      BY Zenon, <1>1, <1>2
    <2>2. hpc' \in {"unsubscribe", "join", "dial", "joinGroup", "syncGroup",
                    "subscribe", "start", "wait", "teardown", "loop", "exited"}
      BY Zenon, <1>2 DEF Move
    <2>3. /\ UNCHANGED <<readerVars, conn, memberID, subs, offsets, loopVars, membership>>
          /\ Apart
      BY Zenon, <1>2 DEF Move
    <2> QED BY ZenonT(60), <2>1, <2>2, <2>3, ShakeType DEF TypeOK
  <1>3. CASE Unsubscribe
    BY ZenonT(60), <1>3, ShakeType DEF Unsubscribe, TypeOK
  <1>4. CASE DialCoordinator
    BY ZenonT(60), <1>4, ShakeType DEF DialCoordinator, TypeOK
  <1>5. CASE UnsubscribeWait \/ DialFails \/ JoinGroupFails \/ SyncGroupRebalance \/ Wait \/ Loop
    BY Zenon, <1>2, <1>5 DEF UnsubscribeWait, DialFails, JoinGroupFails, SyncGroupRebalance, Wait, Loop
  <1>6. CASE JoinGroup
    BY Zenon, <1>6, ShakeType DEF JoinGroup, TypeOK
  <1>7. CASE JoinGroupUnknown \/ SyncGroupUnknown
    BY ZenonT(60), <1>7, ShakeType DEF JoinGroupUnknown, SyncGroupUnknown, TypeOK
  <1>8. CASE AssignFails
    BY Zenon, <1>1, <1>8, ShakeType DEF AssignFails, TypeOK
  <1>9. ASSUME NEW ps \in SUBSET Partitions, SyncGroup(ps)
        PROVE  TypeOK'
    BY Zenon, <1>9, ShakeType DEF SyncGroup, TypeOK
  <1>10. CASE SyncGroupFails
    <2>1. disruptions' \in 0 .. MaxDisruptions
      BY Zenon, <1>1, <1>10 DEF SyncGroupFails, TypeOK
    <2>2. /\ member' \in BOOLEAN /\ current' \in BOOLEAN /\ rebalancing' \in BOOLEAN
          /\ assigned' \in SUBSET Partitions
      BY Zenon, <1>10 DEF SyncGroupFails, leaveGroup, TypeOK
    <2> QED BY Zenon, <1>10, <2>1, <2>2, ShakeType DEF SyncGroupFails, TypeOK
  <1>11. CASE FetchOffsets
    <2>1. offsets' \in [Partitions -> 0 .. MaxOffset]
      BY <1>11, GroupMemberAssumption DEF FetchOffsets, TypeOK
    <2> QED BY ZenonT(60), <1>11, <2>1, ShakeType DEF FetchOffsets, TypeOK
  <1>12. CASE SubscribeFails
    BY ZenonT(60), <1>1, <1>12, ShakeType DEF SubscribeFails, TypeOK
  <1>13. CASE start
    <2>1. offsets' \in [Partitions -> 0 .. MaxOffset]
      BY <1>13, GroupMemberAssumption DEF start, Zero, TypeOK
    <2>2. at' \in [Partitions -> Stuck .. MaxOffset]
      <3>1. \A n \in 0 .. MaxOffset : n \in Stuck .. MaxOffset
        BY GroupMemberAssumption DEF Stuck
      <3>2. CASE closed
        BY Zenon, <1>13, <3>2 DEF start, TypeOK
      <3>3. CASE ~closed
        <4>1. at' = [p \in Partitions |-> IF p \in subs THEN offsets[p] ELSE at[p]]
          BY Zenon, <1>13, <3>3 DEF start
        <4> QED BY Zenon, <3>1, <4>1 DEF TypeOK
      <3> QED BY Zenon, <3>2, <3>3
    <2>3. version' \in Nat
      BY <1>13 DEF start, TypeOK
    <2>4. cancelled' \in BOOLEAN
      BY Zenon, <1>13 DEF start, TypeOK
    <2> QED BY ZenonT(60), <1>13, <2>1, <2>2, <2>3, <2>4, ShakeType DEF start, TypeOK
  <1>14. CASE Teardown
    <2>1. /\ member' \in BOOLEAN /\ current' \in BOOLEAN /\ rebalancing' \in BOOLEAN
          /\ assigned' \in SUBSET Partitions
      BY Zenon, <1>14 DEF Teardown, leaveGroup, TypeOK
    <2> QED BY Zenon, <1>14, <2>1, ShakeType DEF Teardown, TypeOK
  <1> QED BY Zenon, <1>3, <1>4, <1>5, <1>6, <1>7, <1>8, <1>9, <1>10, <1>11, <1>12, <1>13,
             <1>14 DEF handshake

\* The end of a commit keeps the types.
LEMMA CommitDoneType ==
  ASSUME TypeOK, NEW ok \in BOOLEAN, CommitDone(ok)
  PROVE  /\ attempt' \in 0 .. Retries - 1 /\ last' \in BOOLEAN /\ clpc' \in {"select", "commit"}
         /\ req' \in Request \cup {NoRequest} /\ stash' \in [Partitions -> 0 .. MaxOffset]
         /\ errch' \in {"empty", "nil", "error"}
         /\ running' \in SUBSET Loops /\ rgStop' \in BOOLEAN
PROOF
  <1>1. attempt' \in 0 .. Retries - 1
    BY GroupMemberAssumption DEF CommitDone
  <1>2. stash' \in [Partitions -> 0 .. MaxOffset]
    BY GroupMemberAssumption DEF CommitDone, Zero, TypeOK
  <1>3. errch' \in {"empty", "nil", "error"}
    BY Zenon DEF CommitDone, TypeOK
  <1>4. running' \in SUBSET Loops /\ rgStop' \in BOOLEAN
    BY Zenon DEF CommitDone, Ends, TypeOK
  <1> QED BY Zenon, <1>1, <1>2, <1>3, <1>4 DEF CommitDone

\* So does a failed attempt.
LEMMA CommitAgainType ==
  ASSUME TypeOK, CommitAgain
  PROVE  /\ attempt' \in 0 .. Retries - 1 /\ last' \in BOOLEAN /\ clpc' \in {"select", "commit"}
         /\ req' \in Request \cup {NoRequest} /\ stash' \in [Partitions -> 0 .. MaxOffset]
         /\ errch' \in {"empty", "nil", "error"}
         /\ running' \in SUBSET Loops /\ rgStop' \in BOOLEAN
PROOF
  <1>1. CASE attempt + 1 < Retries
    <2>1. attempt' \in 0 .. Retries - 1
      BY <1>1, GroupMemberAssumption DEF CommitAgain, TypeOK
    <2> QED BY Zenon, <1>1, <2>1 DEF CommitAgain, TypeOK
  <1>2. CASE ~(attempt + 1 < Retries)
    BY Zenon, <1>2, CommitDoneType DEF CommitAgain
  <1> QED BY Zenon, <1>1, <1>2

\* What the coordinator stores has its type.
LEMMA StoreType ==
  ASSUME TypeOK, NEW ps, Store(ps)
  PROVE  /\ committed' \in [Partitions -> 0 .. MaxOffset]
         /\ accepted' \in [Partitions -> 0 .. MaxOffset]
PROOF
  BY Zenon DEF Store, TypeOK

\* What a step of the commit loop changes has its type, and so all has.
LEMMA LoopType ==
  ASSUME TypeOK, NotCommit, commits' \in Seq(Request), Len(commits') <= QueueCapacity,
         attempt' \in 0 .. Retries - 1, last' \in BOOLEAN, clpc' \in {"select", "commit"},
         req' \in Request \cup {NoRequest}, stash' \in [Partitions -> 0 .. MaxOffset],
         errch' \in {"empty", "nil", "error"},
         running' \in SUBSET Loops, rgStop' \in BOOLEAN,
         committed' \in [Partitions -> 0 .. MaxOffset],
         accepted' \in [Partitions -> 0 .. MaxOffset], disruptions' \in 0 .. MaxDisruptions
  PROVE  TypeOK'
PROOF
  BY DEF TypeOK, NotCommit, readerVars, shakeVars, Loops

\* A request that leaves the channel.
LEMMA CommitReceiveType ==
  ASSUME TypeOK, CommitReceive
  PROVE  /\ commits' \in Seq(Request) /\ Len(commits') <= QueueCapacity
         /\ Len(commits) \in Nat \ {0} /\ Len(commits') = Len(commits) - 1
         /\ \A i \in 1 .. Len(commits') : commits'[i] = commits[i + 1]
         /\ Head(commits) = commits[1] /\ Head(commits) \in Request
         /\ stash' \in [Partitions -> 0 .. MaxOffset]
         /\ \A p \in Partitions : stash'[p] >= stash[p]
         /\ \A p \in Partitions : stash'[p] = stash[p] \/ (p = commits[1].p /\ stash'[p] = commits[1].offset)
         /\ stash'[commits[1].p] >= commits[1].offset
PROOF
  <1>1. commits \in Seq(Request) /\ commits # <<>> /\ commits' = Tail(commits)
        /\ Len(commits) <= QueueCapacity
    BY Zenon DEF TypeOK, CommitReceive
  <1>2. /\ commits' \in Seq(Request) /\ Len(commits) \in Nat \ {0}
        /\ Len(commits') = Len(commits) - 1
        /\ \A i \in 1 .. Len(commits') : commits'[i] = commits[i + 1]
        /\ Head(commits) = commits[1] /\ Head(commits) \in Request
    BY Zenon, <1>1, HeadAndTail
  <1>3. commits[1].p \in Partitions /\ commits[1].offset \in 1 .. MaxOffset
    BY Zenon, <1>2 DEF Request
  <1>4. stash' = [stash EXCEPT ![commits[1].p] = IF commits[1].offset > @ THEN commits[1].offset ELSE @]
    BY Zenon, <1>2 DEF CommitReceive, merge
  <1>5. stash \in [Partitions -> 0 .. MaxOffset]
    BY Zenon DEF TypeOK
  <1>6. stash' \in [Partitions -> 0 .. MaxOffset]
    BY <1>3, <1>4, <1>5, GroupMemberAssumption
  <1>7. \A p \in Partitions \ {commits[1].p} : stash'[p] = stash[p]
    BY Zenon, <1>4, <1>5
  <1>8. stash'[commits[1].p] = IF commits[1].offset > stash[commits[1].p] THEN commits[1].offset
                               ELSE stash[commits[1].p]
    BY Zenon, <1>3, <1>4, <1>5
  <1>9. \A p \in Partitions : stash[p] \in Nat
    BY <1>5, GroupMemberAssumption
  <1>10. \A p \in Partitions : stash'[p] >= stash[p]
    BY <1>3, <1>7, <1>8, <1>9
  <1>11. \A p \in Partitions : stash'[p] = stash[p] \/ (p = commits[1].p /\ stash'[p] = commits[1].offset)
    BY Zenon, <1>7, <1>8
  <1>12. stash'[commits[1].p] >= commits[1].offset
    BY <1>3, <1>8, <1>9
  <1> QED BY <1>1, <1>2, <1>6, <1>10, <1>11, <1>12, GroupMemberAssumption

\* The goroutines of the runGroup keep the types.
LEMMA RunGroupType ==
  ASSUME TypeOK, runGroup
  PROVE  TypeOK'
PROOF
  <1>1. ASSUME Disrupt \/ UNCHANGED disruptions
        PROVE  disruptions' \in 0 .. MaxDisruptions
    BY <1>1, GroupMemberAssumption DEF Disrupt, TypeOK
  <1>2. CASE HeartbeatLoop
    BY <1>2 DEF HeartbeatLoop, Ends, Apart, readerVars, shakeVars, commitVars, programVars,
                membership, groupVars, Loops, TypeOK
  <1>3. CASE PartitionWatcher
    <2>1. disruptions' \in 0 .. MaxDisruptions
      BY Zenon, <1>1, <1>3 DEF PartitionWatcher
    <2>2. /\ Ends("watcher")
          /\ UNCHANGED <<readerVars, shakeVars, clpc, attempt, last, req, groupVars>> /\ Apart
      BY Zenon, <1>3 DEF PartitionWatcher
    <2> QED BY <2>1, <2>2 DEF Ends, Apart, readerVars, shakeVars, commitVars, programVars,
                              membership, groupVars, Loops, TypeOK
  <1>4. CASE CommitReceive
    <2>1. req' \in Request \cup {NoRequest}
      BY Zenon, <1>4, CommitReceiveType DEF CommitReceive
    <2>2. clpc' \in {"select", "commit"}
      BY Zenon, <1>4 DEF CommitReceive
    <2> QED BY Zenon, <1>4, <2>1, <2>2, CommitReceiveType, LoopType DEF CommitReceive, TypeOK
  <1>5. CASE CommitTick
    BY ZenonT(60), <1>5, LoopType DEF CommitTick, TypeOK
  <1>6. CASE CommitStop
    <2>1. running' \in SUBSET Loops
      BY Zenon, <1>6 DEF CommitStop, Ends, TypeOK
    <2>2. rgStop' \in BOOLEAN /\ last' \in BOOLEAN
      BY Zenon, <1>6 DEF CommitStop, Ends, TypeOK
    <2>3. clpc' \in {"select", "commit"}
      BY Zenon, <1>6 DEF CommitStop, TypeOK
    <2> QED BY Zenon, <1>6, <2>1, <2>2, <2>3, LoopType DEF CommitStop, TypeOK
  <1>7. CASE CommitOffsets
    BY Zenon, <1>7, StoreType, CommitDoneType, LoopType DEF CommitOffsets, TypeOK
  <1>8. CASE CommitRefused
    BY Zenon, <1>8, CommitAgainType, LoopType DEF CommitRefused, TypeOK
  <1>9. CASE CommitAborted
    BY Zenon, <1>9, CommitDoneType, LoopType DEF CommitAborted, TypeOK
  <1>10. ASSUME NEW ps \in SUBSET Stashed, CommitPartly(ps)
        PROVE  TypeOK'
    BY ZenonT(60), <1>1, <1>10, StoreType, CommitAgainType, LoopType DEF CommitPartly, TypeOK
  <1> QED BY Zenon, <1>2, <1>3, <1>4, <1>5, <1>6, <1>7, <1>8, <1>9, <1>10 DEF runGroup, commitLoop

\* What a step of the program or of a reader goroutine changes has its type, and
\* so all has.
LEMMA BesideType ==
  ASSUME TypeOK, Beside, disruptions' \in 0 .. MaxDisruptions,
         at' \in [Partitions -> Stuck .. MaxOffset],
         msgs' \in Seq(Message), Len(msgs') <= QueueCapacity,
         UNCHANGED <<running, rgStop, clpc, attempt, last, stash>>,
         req' \in Request \cup {NoRequest},
         commits' \in Seq(Request), Len(commits') <= QueueCapacity,
         ppc' \in {"idle", "select", "have", "await"}, seen' \in Nat,
         held' \in Held \cup {NoMessage}, errch' \in {"empty", "nil", "error"},
         delivered' \in [Partitions -> SUBSET (0 .. MaxOffset - 1)],
         requested' \in [Partitions -> 0 .. MaxOffset]
  PROVE  TypeOK'
PROOF
  BY SMTT(40) DEF TypeOK, Beside, shakeVars, groupVars, membership, Loops

\* The same, of a step without a disruption.
LEMMA TakesType ==
  ASSUME TypeOK, NotProgram, at' \in [Partitions -> Stuck .. MaxOffset],
         msgs' \in Seq(Message), Len(msgs') <= QueueCapacity,
         UNCHANGED <<running, rgStop, clpc, attempt, last, stash>>,
         req' \in Request \cup {NoRequest},
         commits' \in Seq(Request), Len(commits') <= QueueCapacity,
         ppc' \in {"idle", "select", "have", "await"}, seen' \in Nat,
         held' \in Held \cup {NoMessage}, errch' \in {"empty", "nil", "error"},
         delivered' \in [Partitions -> SUBSET (0 .. MaxOffset - 1)],
         requested' \in [Partitions -> 0 .. MaxOffset]
  PROVE  TypeOK'
PROOF
  <1>1. Beside /\ disruptions' \in 0 .. MaxDisruptions
    BY Zenon DEF NotProgram, TypeOK
  <1> QED BY Zenon, <1>1, BesideType

\* A message that leaves the channel.
LEMMA ReceiveType ==
  ASSUME TypeOK, msgs # <<>>, msgs' = Tail(msgs)
  PROVE  /\ msgs' \in Seq(Message) /\ Len(msgs') <= QueueCapacity
         /\ Len(msgs) \in Nat \ {0} /\ Len(msgs') = Len(msgs) - 1
         /\ \A i \in 1 .. Len(msgs') : msgs'[i] = msgs[i + 1]
         /\ Head(msgs) = msgs[1] /\ Head(msgs) \in Message
PROOF
  <1>1. msgs \in Seq(Message) /\ Len(msgs) <= QueueCapacity
    BY Zenon DEF TypeOK
  <1> QED BY <1>1, HeadAndTail, GroupMemberAssumption

\* A message that is sent.
LEMMA SendType ==
  ASSUME TypeOK, NEW p \in Partitions, ReaderSend(p)
  PROVE  /\ msgs' \in Seq(Message) /\ Len(msgs') <= QueueCapacity
         /\ Len(msgs) \in Nat /\ Len(msgs') = Len(msgs) + 1
         /\ \A i \in 1 .. Len(msgs) : msgs'[i] = msgs[i]
         /\ msgs'[Len(msgs) + 1] = [version |-> version, p |-> p, offset |-> at[p]]
         /\ at[p] \in 0 .. MaxOffset - 1 /\ at' \in [Partitions -> Stuck .. MaxOffset]
         /\ at'[p] = at[p] + 1 /\ \A q \in Partitions \ {p} : at'[q] = at[q]
PROOF
  <1>1. msgs \in Seq(Message) /\ Len(msgs) \in Nat /\ Len(msgs) < QueueCapacity
    BY Zenon, LenAndElements DEF TypeOK, ReaderSend
  <1>2. at[p] \in 0 .. MaxOffset - 1
    BY Zenon DEF ReaderSend
  <1>3. at[p] \in 0 .. MaxOffset - 1 /\ at[p] + 1 \in Stuck .. MaxOffset
    BY <1>2, GroupMemberAssumption DEF Stuck
  <1>4. [version |-> version, p |-> p, offset |-> at[p]] \in Message
    BY Zenon, <1>3 DEF Message, TypeOK
  <1>5. at' = [at EXCEPT ![p] = at[p] + 1] /\ at \in [Partitions -> Stuck .. MaxOffset]
    BY Zenon DEF ReaderSend, TypeOK
  <1>6. /\ at' \in [Partitions -> Stuck .. MaxOffset]
        /\ at'[p] = at[p] + 1 /\ \A q \in Partitions \ {p} : at'[q] = at[q]
    BY Zenon, <1>3, <1>5
  <1>7. msgs' = Append(msgs, [version |-> version, p |-> p, offset |-> at[p]])
    BY Zenon DEF ReaderSend
  <1> QED BY <1>1, <1>3, <1>4, <1>6, <1>7, GroupMemberAssumption

\* The request that CommitMessages sends.
LEMMA CommitMessagesType ==
  ASSUME TypeOK, Backed, CommitMessages
  PROVE  LET r == [p |-> held.p, offset |-> held.offset + 1, awaited |-> sync]
         IN  /\ held \in Held /\ r \in Request
             /\ commits' \in Seq(Request) /\ Len(commits') <= QueueCapacity
             /\ Len(commits) \in Nat /\ Len(commits') = Len(commits) + 1
             /\ \A i \in 1 .. Len(commits) : commits'[i] = commits[i]
             /\ commits'[Len(commits) + 1] = r
             /\ requested' \in [Partitions -> 0 .. MaxOffset]
             /\ \A q \in Partitions \ {held.p} : requested'[q] = requested[q]
             /\ requested'[held.p] = IF ~sync /\ held.offset + 1 > requested[held.p]
                                       THEN held.offset + 1 ELSE requested[held.p]
PROOF
  <1> DEFINE r == [p |-> held.p, offset |-> held.offset + 1, awaited |-> sync]
  <1>1. held \in Held
    BY Zenon DEF Backed, CommitMessages
  <1>2. held.p \in Partitions /\ held.offset + 1 \in 1 .. MaxOffset
    BY <1>1, GroupMemberAssumption DEF Held
  <1>3. r \in Request
    BY Zenon, <1>2, Numbers DEF Request
  <1>4. commits \in Seq(Request) /\ Len(commits) \in Nat /\ Len(commits) < QueueCapacity
    BY Zenon, LenAndElements DEF TypeOK, CommitMessages
  <1>5. commits' = Append(commits, r)
    BY Zenon DEF CommitMessages, makeCommit
  <1> HIDE DEF r
  <1>6. /\ commits' \in Seq(Request) /\ Len(commits') <= QueueCapacity
        /\ Len(commits') = Len(commits) + 1
        /\ \A i \in 1 .. Len(commits) : commits'[i] = commits[i]
        /\ commits'[Len(commits) + 1] = r
    BY <1>3, <1>4, <1>5, GroupMemberAssumption
  <1>7. requested' = [requested EXCEPT ![held.p] = IF ~sync /\ held.offset + 1 > @
                                                     THEN held.offset + 1 ELSE @]
    BY Zenon DEF CommitMessages, makeCommit
  <1>8. requested \in [Partitions -> 0 .. MaxOffset] /\ held.offset + 1 \in 0 .. MaxOffset
    BY SMTT(40), <1>2, GroupMemberAssumption DEF TypeOK
  <1>9. /\ requested' \in [Partitions -> 0 .. MaxOffset]
        /\ \A q \in Partitions \ {held.p} : requested'[q] = requested[q]
        /\ requested'[held.p] = IF ~sync /\ held.offset + 1 > requested[held.p]
                                  THEN held.offset + 1 ELSE requested[held.p]
    BY Zenon, <1>2, <1>7, <1>8
  <1> QED BY Zenon, <1>1, <1>3, <1>4, <1>6, <1>9 DEF r

\* The requests that nobody awaits any more.
LEMMA CommitCancelledType ==
  ASSUME TypeOK, CommitCancelled
  PROVE  /\ commits' \in Seq(Request) /\ Len(commits') = Len(commits)
         /\ \A i \in 1 .. Len(commits) : /\ commits'[i].p = commits[i].p
                                         /\ commits'[i].offset = commits[i].offset
                                         /\ commits'[i].awaited = FALSE
         /\ req' \in Request \cup {NoRequest} /\ req'.awaited = FALSE
PROOF
  <1>1. Len(commits) \in Nat /\ \A i \in 1 .. Len(commits) : commits[i] \in Request
    BY Zenon, Numbers
  <1>2. commits' = [i \in 1 .. Len(commits) |-> [commits[i] EXCEPT !.awaited = FALSE]]
    BY Zenon DEF CommitCancelled
  <1>3. \A i \in 1 .. Len(commits) : [commits[i] EXCEPT !.awaited = FALSE] \in Request
    BY Zenon, <1>1 DEF Request
  <1>4. commits' \in Seq(Request)
    BY <1>1, <1>2, <1>3
  <1>5. Len(commits') = Len(commits)
    BY <1>1, <1>2
  <1>6. \A i \in 1 .. Len(commits) : /\ commits'[i].p = commits[i].p
                                     /\ commits'[i].offset = commits[i].offset
                                     /\ commits'[i].awaited = FALSE
    BY Zenon, <1>1, <1>2 DEF Request
  <1>7. req' \in Request \cup {NoRequest} /\ req'.awaited = FALSE
    <2>1. req' = [req EXCEPT !.awaited = FALSE] /\ req \in Request \cup {NoRequest}
      BY Zenon DEF CommitCancelled, TypeOK
    <2>2. CASE req \in Request
      BY Zenon, <2>1, <2>2 DEF Request
    <2>3. CASE req = NoRequest
      <3>1. req' = [p |-> Off, offset |-> 0, awaited |-> FALSE]
        BY Zenon, <2>1, <2>3 DEF NoRequest
      <3> QED BY Zenon, <3>1 DEF NoRequest
    <2> QED BY Zenon, <2>1, <2>2, <2>3
  <1> QED BY Zenon, <1>4, <1>5, <1>6, <1>7

\* The program and the reader goroutines keep the types.
LEMMA ProgramType ==
  ASSUME IInv, program \/ (\E p \in Partitions : ReaderSend(p) \/ ReaderExit(p) \/ ReaderSpins(p))
  PROVE  TypeOK'
PROOF
  <1> USE DEF loopVars, commitVars, programVars
  <1>1. TypeOK /\ Backed
    BY Zenon DEF IInv
  <1>2. 0 \in Nat /\ NoMessage \in Held \cup {NoMessage}
    BY Zenon
  <1>3. CASE FetchMessage
    BY Zenon, <1>1, <1>3, TakesType DEF FetchMessage, TypeOK
  <1>4. CASE FetchReceive
    <2>1. /\ msgs' \in Seq(Message) /\ Len(msgs') <= QueueCapacity
          /\ Head(msgs) \in Message
      BY Zenon, <1>1, <1>4, ReceiveType DEF FetchReceive
    <2>2. Head(msgs).p \in Partitions /\ Head(msgs).offset \in 0 .. MaxOffset - 1
      BY Zenon, <2>1 DEF Message
    <2>3. held' \in Held \cup {NoMessage}
      BY Zenon, <1>4, <2>2 DEF FetchReceive, Held
    <2>4. delivered' \in [Partitions -> SUBSET (0 .. MaxOffset - 1)]
      BY Zenon, <1>1, <1>4, <2>2 DEF FetchReceive, TypeOK
    <2> QED BY Zenon, <1>1, <1>4, <2>1, <2>3, <2>4, TakesType DEF FetchReceive, TypeOK
  <1>5. CASE FetchDrop
    <2>1. msgs' \in Seq(Message) /\ Len(msgs') <= QueueCapacity
      BY Zenon, <1>1, <1>5, ReceiveType DEF FetchDrop
    <2> QED BY Zenon, <1>1, <1>5, <2>1, TakesType DEF FetchDrop, TypeOK
  <1>6. CASE FetchOver \/ CommitAnswered
    BY ZenonT(60), <1>1, <1>2, <1>6, TakesType DEF FetchOver, CommitAnswered, Idle, TypeOK
  <1>7. CASE CommitMessages
    <2>1. /\ commits' \in Seq(Request) /\ Len(commits') <= QueueCapacity
          /\ requested' \in [Partitions -> 0 .. MaxOffset]
      BY Zenon, <1>1, <1>7, CommitMessagesType
    <2>2. /\ ppc' \in {"idle", "select", "have", "await"} /\ seen' \in Nat
          /\ held' \in Held \cup {NoMessage} /\ errch' \in {"empty", "nil", "error"}
      <3>1. CASE sync
        BY Zenon, <1>1, <1>7, <3>1 DEF CommitMessages, TypeOK
      <3>2. CASE ~sync
        BY Zenon, <1>2, <1>7, <3>2 DEF CommitMessages, Idle
      <3> QED BY Zenon, <3>1, <3>2
    <2> QED BY ZenonT(60), <1>1, <1>7, <2>1, <2>2, TakesType DEF CommitMessages, TypeOK
  <1>8. CASE CommitCancelled
    <2>1. /\ commits' \in Seq(Request) /\ Len(commits') <= QueueCapacity
          /\ req' \in Request \cup {NoRequest}
      BY Zenon, <1>1, <1>8, CommitCancelledType DEF TypeOK
    <2> QED BY Zenon, <1>1, <1>2, <1>8, <2>1, TakesType DEF CommitCancelled, Idle, TypeOK
  <1>9. ASSUME NEW p \in Partitions, ReaderSend(p)
        PROVE  TypeOK'
    <2>1. /\ msgs' \in Seq(Message) /\ Len(msgs') <= QueueCapacity
          /\ at' \in [Partitions -> Stuck .. MaxOffset]
      BY Zenon, <1>1, <1>9, SendType
    <2> QED BY Zenon, <1>1, <1>9, <2>1, TakesType DEF ReaderSend, TypeOK
  <1>10. ASSUME NEW p \in Partitions, ReaderExit(p) \/ ReaderSpins(p)
         PROVE  TypeOK'
    <2>1. Off \in Stuck .. MaxOffset /\ Stuck \in Stuck .. MaxOffset
      BY GroupMemberAssumption DEF Off, Stuck
    <2>2. at' \in [Partitions -> Stuck .. MaxOffset]
      BY ZenonT(60), <1>1, <1>10, <2>1 DEF ReaderExit, ReaderSpins, TypeOK
    <2>3. Beside /\ disruptions' \in 0 .. MaxDisruptions
      <3>1. disruptions < MaxDisruptions => disruptions + 1 \in 0 .. MaxDisruptions
        BY <1>1, GroupMemberAssumption DEF TypeOK
      <3> QED BY Zenon, <1>1, <1>10, <3>1 DEF ReaderExit, ReaderSpins, NotProgram, Disrupt, TypeOK
    <2> QED BY ZenonT(60), <1>1, <1>10, <2>2, <2>3, BesideType DEF ReaderExit, ReaderSpins, TypeOK
  <1> QED BY Zenon, <1>3, <1>4, <1>5, <1>6, <1>7, <1>8, <1>9, <1>10 DEF program

\* What happens outside of the Reader.
Outside == ConnBreaks \/ GroupChange \/ Expel \/ \E p \in Partitions : OtherCommits(p)

\* A reader goroutine takes a step.
Reading == \E p \in Partitions : ReaderSend(p) \/ ReaderExit(p) \/ ReaderSpins(p)

\* The steps, by kind.
LEMMA Kinds ==
  ASSUME [Next]_vars
  PROVE  \/ handshake \/ runGroup \/ program \/ Reading \/ (CloseLocked \/ Close)
         \/ Outside \/ UNCHANGED vars
PROOF
  BY Zenon DEF Next, Reading, Outside

\* All the steps keep the types.
LEMMA TypeStep ==
  ASSUME IInv, [Next]_vars
  PROVE  TypeOK'
PROOF
  <1>1. TypeOK
    BY Zenon DEF IInv
  <1>2. CASE CloseLocked \/ Close
    <2>1. NotClose /\ kpc' \in {"idle", "cancel", "stop", "join", "done", "returned"}
      BY Zenon, <1>2 DEF CloseLocked, Close, CloseCancel, CloseStop, CloseJoin, CloseReturn
    <2>2. closed' \in BOOLEAN /\ stopped' \in BOOLEAN /\ cancelled' \in BOOLEAN
      BY Zenon, <1>1, <1>2 DEF CloseLocked, Close, CloseCancel, CloseStop, CloseJoin, CloseReturn, TypeOK
    <2> QED BY <1>1, <2>1, <2>2 DEF NotClose, shakeVars, loopVars, commitVars, programVars,
                                    groupVars, membership, histVars, Loops, TypeOK
  <1>3. ASSUME Disrupt
        PROVE  disruptions' \in 0 .. MaxDisruptions
    BY <1>1, <1>3, GroupMemberAssumption DEF Disrupt, TypeOK
  <1>4. ASSUME NotGroup, conn' \in {"nil", "open", "broken"},
               member' \in BOOLEAN, current' \in BOOLEAN, rebalancing' \in BOOLEAN,
               assigned' \in SUBSET Partitions, committed' \in [Partitions -> 0 .. MaxOffset],
               delivered' \in [Partitions -> SUBSET (0 .. MaxOffset - 1)],
               disruptions' \in 0 .. MaxDisruptions
        PROVE  TypeOK'
    BY <1>1, <1>4 DEF NotGroup, readerVars, loopVars, commitVars, programVars, Loops, TypeOK
  <1>5. CASE ConnBreaks
    BY Zenon, <1>1, <1>3, <1>4, <1>5 DEF ConnBreaks, groupVars, membership, TypeOK
  <1>6. CASE GroupChange
    BY Zenon, <1>1, <1>3, <1>4, <1>6 DEF GroupChange, TypeOK
  <1>7. CASE Expel
    BY ZenonT(60), <1>1, <1>3, <1>4, <1>7 DEF Expel, Gone, TypeOK
  <1>8. ASSUME NEW p \in Partitions, OtherCommits(p)
        PROVE  TypeOK'
    <2>1. committed[p] \in 0 .. MaxOffset - 1 /\ committed[p] + 1 \in 0 .. MaxOffset
      BY SMTT(40), <1>1, <1>8, GroupMemberAssumption DEF OtherCommits, TypeOK
    <2>2. committed' \in [Partitions -> 0 .. MaxOffset]
      BY Zenon, <1>1, <1>8, <2>1 DEF OtherCommits, TypeOK
    <2>3. delivered' \in [Partitions -> SUBSET (0 .. MaxOffset - 1)]
      BY ZenonT(60), <1>1, <1>8, <2>1 DEF OtherCommits, TypeOK
    <2> QED BY ZenonT(60), <1>1, <1>4, <1>8, <2>2, <2>3 DEF OtherCommits, TypeOK
  <1>9. CASE UNCHANGED vars
    BY <1>1, <1>9 DEF vars, readerVars, shakeVars, loopVars, commitVars, programVars, groupVars,
         membership, histVars, Loops, TypeOK
  <1> QED BY Zenon, <1>1, <1>2, <1>5, <1>6, <1>7, <1>8, <1>9, Kinds, HandshakeType, RunGroupType, ProgramType
          DEF Outside, Reading

-----------------------------------------------------------------------------
(* The handshake. *)

\* What the steps of handshake change.
LEMMA HandshakeFrame ==
  ASSUME handshake
  PROVE  /\ Apart /\ UNCHANGED <<config, closed, msgs, clpc, req>>
         /\ start \/ UNCHANGED <<version, at>>
         /\ start \/ FetchOffsets \/ UNCHANGED offsets
PROOF
  <1> USE DEF readerVars, loopVars, Move
  <1>1. CASE Unsubscribe \/ UnsubscribeWait \/ DialCoordinator \/ DialFails
    BY Zenon, <1>1 DEF Unsubscribe, UnsubscribeWait, DialCoordinator, DialFails
  <1>2. CASE JoinGroup \/ JoinGroupUnknown \/ JoinGroupFails \/ AssignFails
    BY Zenon, <1>2 DEF JoinGroup, JoinGroupUnknown, JoinGroupFails, AssignFails
  <1>3. CASE (\E ps \in SUBSET Partitions : SyncGroup(ps))
             \/ SyncGroupRebalance \/ SyncGroupUnknown \/ SyncGroupFails
    BY Zenon, <1>3 DEF SyncGroup, SyncGroupRebalance, SyncGroupUnknown, SyncGroupFails
  <1>4. CASE FetchOffsets \/ SubscribeFails \/ start
    BY Zenon, <1>4 DEF FetchOffsets, SubscribeFails, start
  <1>5. CASE Wait \/ Teardown \/ Loop
    BY Zenon, <1>5 DEF Wait, Teardown, Loop
  <1> QED BY Zenon, <1>1, <1>2, <1>3, <1>4, <1>5 DEF handshake

\* A commit ends at most its own goroutine.
LEMMA CommitLoopFrame ==
  ASSUME commitLoop
  PROVE  /\ NotCommit /\ running' \subseteq running
         /\ \/ CommitReceive
            \/ UNCHANGED commits
PROOF
  <1> USE DEF CommitDone, CommitAgain, Ends
  <1>1. CASE CommitReceive \/ CommitTick \/ CommitStop
    BY Zenon, <1>1 DEF CommitReceive, CommitTick, CommitStop
  <1>2. CASE CommitOffsets \/ CommitRefused \/ CommitAborted
    BY Zenon, <1>2 DEF CommitOffsets, CommitRefused, CommitAborted
  <1>3. CASE \E ps \in SUBSET Stashed : CommitPartly(ps)
    BY Zenon, <1>3 DEF CommitPartly
  <1> QED BY Zenon, <1>1, <1>2, <1>3 DEF commitLoop

\* What the other steps leave of the handshake.
LEMMA OthersFrame ==
  ASSUME TypeOK, [Next]_vars, ~handshake
  PROVE  /\ UNCHANGED <<hpc, subs, offsets>>
         /\ conn' = "nil" => conn = "nil"
         /\ running' \subseteq running
         /\ member' /\ current' => member /\ current /\ assigned' = assigned
         /\ \A p \in Partitions : at'[p] # Off => at[p] # Off
PROOF
  <1> USE DEF readerVars, shakeVars, loopVars, groupVars, membership
  <1>1. CASE HeartbeatLoop \/ PartitionWatcher
    BY <1>1 DEF HeartbeatLoop, PartitionWatcher, Ends
  <1>2. CASE commitLoop
    BY <1>2, CommitLoopFrame DEF NotCommit
  <1>3. CASE program
    <2>1. NotProgram /\ UNCHANGED <<at, running>>
      BY Zenon, <1>3 DEF program, FetchMessage, FetchReceive, FetchDrop, FetchOver, CommitMessages,
                  CommitAnswered, CommitCancelled
    <2> QED BY Zenon, <2>1 DEF NotProgram, Beside
  <1>4. CASE Reading
    <2>1. PICK p \in Partitions : ReaderSend(p) \/ ReaderExit(p) \/ ReaderSpins(p)
      BY Zenon, <1>4 DEF Reading
    <2>2. Beside /\ UNCHANGED running
      BY Zenon, <2>1 DEF ReaderSend, ReaderExit, ReaderSpins, NotProgram
    <2>3. at[p] # Off
      <3>1. Off \notin 0 .. MaxOffset - 1
        BY GroupMemberAssumption DEF Off
      <3> QED BY Zenon, <2>1, <3>1 DEF ReaderSend, ReaderExit, ReaderSpins, Live
    <2>4. \A q \in Partitions : at'[q] # Off => at[q] # Off
      BY ZenonT(60), <2>1, <2>3 DEF ReaderSend, ReaderExit, ReaderSpins, TypeOK
    <2> QED BY Zenon, <2>2, <2>4 DEF Beside
  <1>5. CASE CloseLocked \/ Close
    BY <1>5 DEF CloseLocked, Close, CloseCancel, CloseStop, CloseJoin, CloseReturn, NotClose
  <1>6. CASE Outside
    BY <1>6 DEF Outside, ConnBreaks, GroupChange, Expel, Gone, OtherCommits, NotGroup
  <1>7. CASE UNCHANGED vars
    BY Zenon, <1>7 DEF vars
  <1> QED BY Zenon, <1>1, <1>2, <1>3, <1>4, <1>5, <1>6, <1>7, Kinds DEF runGroup

\* The handshake joins when the reader goroutines have ended; the runGroup has
\* ended before its connection is closed; what is read is what is assigned.
LEMMA HandshakeStep ==
  ASSUME IInv, [Next]_vars
  PROVE  Joining' /\ Subscribing' /\ OwnedReads' /\ ConnOutlivesGroup'
PROOF
  <1>1. TypeOK /\ Joining /\ Subscribing /\ OwnedReads /\ ConnOutlivesGroup
    BY Zenon DEF IInv
  <1>2. CASE ~handshake
    <2>1. Joined => Joined'
      BY Zenon, <1>1, <1>2, OthersFrame DEF Joined
    <2> QED BY Zenon, <1>1, <1>2, <2>1, OthersFrame DEF Joining, Subscribing, OwnedReads, ConnOutlivesGroup
  <1> USE DEF readerVars, loopVars, membership, Goto, Gone
  <1>3. CASE Unsubscribe \/ UnsubscribeWait
    BY <1>1, <1>3 DEF Unsubscribe, UnsubscribeWait, Move, Joining, Subscribing, OwnedReads,
         ConnOutlivesGroup, Joined
  <1>4. CASE DialCoordinator
    BY ZenonT(60), <1>1, <1>4 DEF DialCoordinator, Joining, Subscribing, OwnedReads, ConnOutlivesGroup, Joined
  <1>5. CASE DialFails \/ JoinGroupFails \/ SyncGroupRebalance \/ Wait \/ Loop
    BY <1>1, <1>5 DEF DialFails, JoinGroupFails, SyncGroupRebalance, Wait, Loop, Move,
         Joining, Subscribing, OwnedReads, ConnOutlivesGroup
  <1>6. CASE JoinGroup
    BY Zenon, <1>1, <1>6 DEF JoinGroup, Joining, Subscribing, OwnedReads, ConnOutlivesGroup, Joined
  <1>7. CASE JoinGroupUnknown \/ SyncGroupUnknown \/ AssignFails
    BY <1>1, <1>7 DEF JoinGroupUnknown, SyncGroupUnknown, AssignFails, Joining, Subscribing,
         OwnedReads, ConnOutlivesGroup
  <1>8. ASSUME NEW ps \in SUBSET Partitions, SyncGroup(ps)
        PROVE  Joining' /\ Subscribing' /\ OwnedReads' /\ ConnOutlivesGroup'
    BY Zenon, <1>1, <1>8 DEF SyncGroup, Joining, Subscribing, OwnedReads, ConnOutlivesGroup, Joined
  <1>9. CASE SyncGroupFails \/ Teardown
    BY Zenon, <1>1, <1>9 DEF SyncGroupFails, Teardown, leaveGroup, Joining, Subscribing, OwnedReads,
         ConnOutlivesGroup
  <1>10. CASE FetchOffsets
    BY Zenon, <1>1, <1>10 DEF FetchOffsets, Joining, Subscribing, OwnedReads, ConnOutlivesGroup, Joined
  <1>11. CASE SubscribeFails
    BY Zenon, <1>1, <1>11 DEF SubscribeFails, Joining, Subscribing, OwnedReads, ConnOutlivesGroup
  <1>12. CASE start
    <2>1. \A p \in Partitions : at'[p] # Off => p \in subs
      BY Zenon, <1>1, <1>12 DEF start, Joining, Joined
    <2> QED BY Zenon, <1>1, <1>12, <2>1 DEF start, Joining, Subscribing, OwnedReads, ConnOutlivesGroup
  <1> QED BY Zenon, <1>2, <1>3, <1>4, <1>5, <1>6, <1>7, <1>8, <1>9, <1>10, <1>11, <1>12 DEF handshake

-----------------------------------------------------------------------------
(* Delivery. *)

\* The steps that touch neither messages nor offsets.
LEMMA Quiet ==
  ASSUME [Next]_vars, ~start, ~FetchOffsets, ~commitLoop, ~program, ~Reading,
         ~\E p \in Partitions : OtherCommits(p)
  PROVE  /\ UNCHANGED <<config, version, msgs, at, seen, ppc, held, errch, delivered>>
         /\ UNCHANGED <<committed, stash, offsets, commits, req, clpc, accepted, requested>>
PROOF
  <1> USE DEF readerVars, shakeVars, loopVars, commitVars, programVars, groupVars, histVars, Apart
  <1>1. CASE handshake
    BY Zenon, <1>1, HandshakeFrame
  <1>2. CASE HeartbeatLoop \/ PartitionWatcher
    BY Zenon, <1>2 DEF HeartbeatLoop, PartitionWatcher
  <1>3. CASE CloseLocked \/ Close
    BY Zenon, <1>3 DEF CloseLocked, Close, CloseCancel, CloseStop, CloseJoin, CloseReturn, NotClose
  <1>4. CASE ConnBreaks \/ GroupChange \/ Expel
    BY Zenon, <1>4 DEF ConnBreaks, GroupChange, Expel, NotGroup
  <1>5. CASE UNCHANGED vars
    BY Zenon, <1>5 DEF vars
  <1> QED BY Zenon, <1>1, <1>2, <1>3, <1>4, <1>5, Kinds DEF runGroup, Outside

\* What has been delivered stays so.
LEMMA DeliveredGrows ==
  ASSUME IInv, [Next]_vars, NEW p \in Partitions
  PROVE  delivered[p] \subseteq delivered'[p]
PROOF
  <1>1. TypeOK
    BY Zenon DEF IInv
  <1>2. CASE start \/ FetchOffsets
    BY Zenon, <1>2 DEF start, FetchOffsets, Apart
  <1>3. CASE commitLoop
    BY Zenon, <1>3, CommitLoopFrame DEF NotCommit
  <1>4. CASE program
    BY ZenonT(120), <1>1, <1>4 DEF program, FetchMessage, FetchReceive, FetchDrop, FetchOver, CommitMessages,
         CommitAnswered, CommitCancelled, TypeOK
  <1>5. CASE Reading
    BY Zenon, <1>5 DEF Reading, ReaderSend, ReaderExit, ReaderSpins
  <1>6. CASE \E q \in Partitions : OtherCommits(q)
    BY <1>1, <1>6 DEF OtherCommits, TypeOK
  <1> QED BY Zenon, <1>2, <1>3, <1>4, <1>5, <1>6, Quiet

\* Covered after the step; n, v and k are not primed.
CoveredNext(p, n, v, k) ==
  \A o \in 0 .. n - 1 :
    \/ o \in delivered'[p]
    \/ \E j \in 1 .. k : msgs'[j].p = p /\ msgs'[j].version = v /\ msgs'[j].offset = o

\* The first message leaves the channel, delivered or of another version.
LEMMA CoveredReceive ==
  ASSUME TypeOK, msgs # <<>>, msgs' = Tail(msgs), NEW p \in Partitions, NEW n \in Nat, NEW v \in Nat,
         NEW k \in 1 .. Len(msgs), Covered(p, n, v, k), delivered[p] \subseteq delivered'[p],
         msgs[1].p = p /\ msgs[1].version = v => msgs[1].offset \in delivered'[p]
  PROVE  CoveredNext(p, n, v, k - 1)
PROOF
  <1>1. Len(msgs) \in Nat /\ Len(msgs') = Len(msgs) - 1 /\ \A i \in 1 .. Len(msgs') : msgs'[i] = msgs[i + 1]
    BY Zenon, ReceiveType
  <1>2. ASSUME NEW o \in 0 .. n - 1, NEW j \in 1 .. k, j # 1,
               msgs[j].p = p /\ msgs[j].version = v /\ msgs[j].offset = o
        PROVE  \E i \in 1 .. k - 1 : msgs'[i].p = p /\ msgs'[i].version = v /\ msgs'[i].offset = o
    <2>1. j - 1 \in 1 .. k - 1 /\ j - 1 \in 1 .. Len(msgs') /\ (j - 1) + 1 = j
      BY Zenon, <1>1, <1>2, PositionBefore
    <2>2. msgs'[j - 1] = msgs[j]
      BY Zenon, <1>1, <2>1
    <2> QED BY Zenon, <1>2, <2>1, <2>2
  <1>3. ASSUME NEW o \in 0 .. n - 1, o \notin delivered'[p]
        PROVE  \E i \in 1 .. k - 1 : msgs'[i].p = p /\ msgs'[i].version = v /\ msgs'[i].offset = o
    <2>1. PICK j \in 1 .. k : msgs[j].p = p /\ msgs[j].version = v /\ msgs[j].offset = o
      BY Zenon, <1>3 DEF Covered
    <2>2. j # 1
      BY Zenon, <1>3, <2>1
    <2> QED BY Zenon, <1>2, <2>1, <2>2
  <1> QED BY Zenon, <1>3 DEF CoveredNext

\* Nothing leaves the channel.
LEMMA CoveredKept ==
  ASSUME NEW p \in Partitions, NEW n \in Nat, NEW v \in Nat, NEW k \in Nat, NEW m \in Nat, k <= m,
         \A i \in 1 .. k : msgs'[i] = msgs[i], Covered(p, n, v, k),
         delivered[p] \subseteq delivered'[p]
  PROVE  CoveredNext(p, n, v, m)
PROOF
  <1>1. \A i \in 1 .. k : i \in 1 .. m
    OBVIOUS
  <1> QED BY ZenonT(60), <1>1 DEF Covered, CoveredNext

\* What Queued and Sending ask for after the step.
LEMMA QueuedNext ==
  ASSUME \A i \in 1 .. Len(msgs') :
           msgs'[i].version >= Floor' => CoveredNext(msgs'[i].p, msgs'[i].offset, msgs'[i].version, i - 1)
  PROVE  Queued'
PROOF
  BY Zenon DEF Queued, Covered, CoveredNext

\* The same for Sending.
LEMMA SendingNext ==
  ASSUME \A p \in Partitions : Live(p)' => CoveredNext(p, at'[p], version', Len(msgs'))
  PROVE  Sending'
PROOF
  BY Zenon DEF Sending, Covered, CoveredNext

\* What the invariants say of the channel, as numbers.
LEMMA ChannelNumbers ==
  ASSUME IInv
  PROVE  /\ Len(msgs) \in Nat /\ version \in Nat /\ seen \in Nat /\ seen <= version
         /\ Floor \in Nat /\ Floor <= version /\ (ppc = "select" => Floor = seen)
         /\ \A i \in 1 .. Len(msgs) :
              /\ msgs[i].p \in Partitions /\ msgs[i].offset \in Nat /\ msgs[i].version \in Nat
              /\ msgs[i].version <= version /\ i - 1 \in Nat
              /\ msgs[i].version >= Floor => Covered(msgs[i].p, msgs[i].offset, msgs[i].version, i - 1)
         /\ \A p \in Partitions :
              Live(p) => at[p] \in Nat /\ Covered(p, at[p], version, Len(msgs))
PROOF
  <1>1. TypeOK /\ Numbered /\ Queued /\ Sending
    BY Zenon DEF IInv
  <1>2. Len(msgs) \in Nat /\ version \in Nat /\ seen \in Nat /\ seen <= version
    BY Zenon, <1>1, Numbers DEF Numbered
  <1>3. Floor \in Nat /\ Floor <= version /\ (ppc = "select" => Floor = seen)
    BY <1>2 DEF Floor
  <1>4. \A i \in 1 .. Len(msgs) :
          msgs[i].p \in Partitions /\ msgs[i].offset \in Nat /\ msgs[i].version \in Nat
    BY SMTT(40), <1>1, Numbers DEF Message
  <1>5. \A p \in Partitions : Live(p) => at[p] \in Nat
    BY SMTT(40), <1>1, GroupMemberAssumption DEF TypeOK, Live, Off, Stuck
  <1>6. \A i \in 1 .. Len(msgs) : msgs[i].version <= version /\ i - 1 \in Nat
    BY <1>1, <1>2 DEF Numbered
  <1> QED BY Zenon, <1>1, <1>2, <1>3, <1>4, <1>5, <1>6 DEF Queued, Sending

\* A step that leaves the channel alone.
LEMMA ChannelKept ==
  ASSUME IInv, [Next]_vars, UNCHANGED <<msgs, version>>, seen' \in Nat, seen' <= version,
         ppc' = "select" => seen' >= Floor,
         \A p \in Partitions : Live(p)' => at'[p] = at[p]
  PROVE  Numbered' /\ Queued' /\ Sending'
PROOF
  <1>1. Numbered'
    BY Zenon DEF IInv, Numbered
  <1>2. Queued'
    <2>1. ASSUME NEW i \in 1 .. Len(msgs), msgs[i].version >= Floor'
          PROVE  CoveredNext(msgs[i].p, msgs[i].offset, msgs[i].version, i - 1)
      <3>1. msgs[i].version >= Floor
        <4>1. Floor' = IF ppc' = "select" THEN seen' ELSE version
          BY Zenon DEF Floor
        <4> QED BY SMTT(40), <2>1, <4>1, ChannelNumbers
      <3>2. /\ msgs[i].p \in Partitions /\ msgs[i].offset \in Nat /\ msgs[i].version \in Nat /\ i - 1 \in Nat
            /\ Covered(msgs[i].p, msgs[i].offset, msgs[i].version, i - 1)
        BY Zenon, <3>1, ChannelNumbers
      <3>3. delivered[msgs[i].p] \subseteq delivered'[msgs[i].p]
        BY Zenon, <3>2, DeliveredGrows
      <3>4. (\A j \in 1 .. i - 1 : msgs'[j] = msgs[j]) /\ i - 1 <= i - 1
        BY <3>2
      <3> QED BY ONLY Zenon, <3>2, <3>3, <3>4, CoveredKept
    <2> QED BY Zenon, <2>1, QueuedNext
  <1>3. Sending'
    <2>1. ASSUME NEW p \in Partitions, Live(p)'
          PROVE  CoveredNext(p, at[p], version, Len(msgs))
      <3>1. Live(p)
        BY Zenon, <2>1 DEF Live
      <3> QED BY <3>1, ChannelNumbers, DeliveredGrows, CoveredKept
    <2> QED BY ZenonT(60), <2>1, SendingNext
  <1> QED BY Zenon, <1>1, <1>2, <1>3

=============================================================================
