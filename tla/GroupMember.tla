----------------------------- MODULE GroupMember -----------------------------
(***************************************************************************)
(* A Reader in a consumer group (reader.go, rungroup.go, commit.go).       *)
(*                                                                         *)
(* The goroutine run performs one handshake after the other.  A handshake  *)
(* stops the reader goroutines of the generation before, joins the group,  *)
(* starts the goroutines of a runGroup (heartbeat, commit and partition    *)
(* watcher), subscribes, and waits for the runGroup to end.  The program   *)
(* fetches messages and commits them, synchronously or through the stash   *)
(* of the interval commit loop, and may close the Reader at any time.      *)
(*                                                                         *)
(* The group coordinator, the other members and the network are external.  *)
(* A generation id matters only as far as it is the one of the group:      *)
(* current.  A reader goroutine is the offset it sends next; the module    *)
(* Reader has the details.                                                 *)
(***************************************************************************)
EXTENDS Integers, Sequences

CONSTANTS
  Partitions,      \* the partitions of the topic
  MaxOffset,       \* bound: a partition holds the offsets below MaxOffset
  QueueCapacity,   \* ReaderConfig.QueueCapacity, of the channels msgs and commits
  Retries,         \* defaultCommitRetries
  Configs,         \* what the ReaderConfig may be
  MaxDisruptions   \* bound: how often the network, a broker or the group fail

ASSUME GroupMemberAssumption ==
  /\ MaxOffset \in Nat
  /\ QueueCapacity \in Nat \ {0}
  /\ Retries \in Nat \ {0}
  /\ Configs \subseteq [sync : BOOLEAN, watch : BOOLEAN]
  /\ MaxDisruptions \in Nat

VARIABLES
  \* the Reader: its config, version, closed, whether stctx and the context
  \* of the reader goroutines are cancelled, the next offset of each of them
  \* (Off: no goroutine, Stuck: it spins), the channel msgs
  config, version, closed, stopped, cancelled, at, msgs,
  \* run and handshake: where it is, the connection to the coordinator,
  \* whether r.memberID is set, the assignment and the offsets fetched for it
  hpc, conn, memberID, subs, offsets,
  \* the runGroup: the goroutines that run, whether its context is cancelled
  running, rgStop,
  \* the commit loop: where it is, its attempt, whether the commit is the one
  \* made when the loop stops, the request it serves; commits and the stash
  clpc, attempt, last, req, commits, stash,
  \* the program: where it is, the version FetchMessage saw, the message it has,
  \* the channel errch
  ppc, seen, held, errch,
  \* Close
  kpc,
  \* the coordinator: whether it knows the member, whether the member has the
  \* generation of the group, whether the group is to rebalance, the partitions
  \* of the member, the committed offsets
  member, current, rebalancing, assigned, committed,
  \* history: the offsets that some member of the group has delivered, the
  \* highest offset that an asynchronous CommitMessages took, the highest accepted
  delivered, requested, accepted, disruptions

readerVars  == <<config, version, closed, stopped, cancelled, at, msgs>>
shakeVars   == <<hpc, conn, memberID, subs, offsets>>
loopVars    == <<running, rgStop, clpc, attempt, last, req>>
commitVars  == <<commits, stash>>
programVars == <<ppc, seen, held, errch>>
membership  == <<member, current, rebalancing, assigned>>
groupVars   == <<membership, committed>>
histVars    == <<delivered, requested, accepted, disruptions>>

vars == <<readerVars, shakeVars, loopVars, commitVars, programVars, kpc, groupVars, histVars>>

Off   == -1
Stuck == -2

Message == [version : Nat, p : Partitions, offset : 0 .. MaxOffset - 1]

\* The message that the program has: its version does not matter any more.
Held == [p : Partitions, offset : 0 .. MaxOffset - 1]
NoMessage == [p |-> Off, offset |-> 0]

\* A commitRequest: one commit, and whether somebody waits for its errch.
Request == [p : Partitions, offset : 1 .. MaxOffset, awaited : BOOLEAN]
NoRequest == [p |-> Off, offset |-> 0, awaited |-> FALSE]

\* useSyncCommits: CommitInterval is zero.
sync == config.sync

\* The goroutines that handshake starts with rg.Go; the watcher is there when
\* WatchPartitionChanges is set.
Loops == {"heartbeat", "commit"} \cup (IF config.watch THEN {"watcher"} ELSE {})

\* No offsets, for every partition.
Zero == [p \in Partitions |-> 0]

\* The variables keep to their types, and the channels to their capacities.
TypeOK ==
  /\ config \in Configs
  /\ version \in Nat
  /\ closed \in BOOLEAN /\ stopped \in BOOLEAN /\ cancelled \in BOOLEAN
  /\ at \in [Partitions -> Stuck .. MaxOffset]
  /\ msgs \in Seq(Message) /\ Len(msgs) <= QueueCapacity
  /\ hpc \in {"unsubscribe", "join", "dial", "joinGroup", "syncGroup",
              "subscribe", "start", "wait", "teardown", "loop", "exited"}
  /\ conn \in {"nil", "open", "broken"}
  /\ memberID \in BOOLEAN
  /\ subs \in SUBSET Partitions
  /\ offsets \in [Partitions -> 0 .. MaxOffset]
  /\ running \in SUBSET Loops /\ rgStop \in BOOLEAN
  /\ clpc \in {"select", "commit"}
  /\ attempt \in 0 .. Retries - 1
  /\ last \in BOOLEAN
  /\ req \in Request \cup {NoRequest}
  /\ commits \in Seq(Request) /\ Len(commits) <= QueueCapacity
  /\ stash \in [Partitions -> 0 .. MaxOffset]
  /\ ppc \in {"idle", "select", "have", "await"}
  /\ seen \in Nat
  /\ held \in Held \cup {NoMessage}
  /\ errch \in {"empty", "nil", "error"}
  /\ kpc \in {"idle", "cancel", "stop", "join", "done", "returned"}
  /\ member \in BOOLEAN /\ current \in BOOLEAN /\ rebalancing \in BOOLEAN
  /\ assigned \in SUBSET Partitions
  /\ committed \in [Partitions -> 0 .. MaxOffset]
  /\ delivered \in [Partitions -> SUBSET (0 .. MaxOffset - 1)]
  /\ requested \in [Partitions -> 0 .. MaxOffset]
  /\ accepted \in [Partitions -> 0 .. MaxOffset]
  /\ disruptions \in 0 .. MaxDisruptions

\* NewReader with a GroupID: the version starts at 1, so that only subscribe
\* starts reader goroutines.
Init ==
  /\ config \in Configs
  /\ version = 1 /\ closed = FALSE /\ stopped = FALSE /\ cancelled = FALSE
  /\ at = [p \in Partitions |-> Off] /\ msgs = <<>>
  /\ hpc = "unsubscribe" /\ conn = "nil" /\ memberID = FALSE
  /\ subs = {} /\ offsets = Zero
  /\ running = {} /\ rgStop = FALSE
  /\ clpc = "select" /\ attempt = 0 /\ last = FALSE /\ req = NoRequest
  /\ commits = <<>> /\ stash = Zero
  /\ ppc = "idle" /\ seen = 0 /\ held = NoMessage /\ errch = "empty"
  /\ kpc = "idle"
  /\ member = FALSE /\ current = FALSE /\ rebalancing = FALSE /\ assigned = {}
  /\ committed = Zero
  /\ delivered = [p \in Partitions |-> {}]
  /\ requested = Zero /\ accepted = Zero /\ disruptions = 0

\* Something goes wrong outside of the Reader.
Disrupt ==
  /\ disruptions < MaxDisruptions
  /\ disruptions' = disruptions + 1

-----------------------------------------------------------------------------
(* run and handshake. *)

\* What the steps of handshake leave alone.
Apart == UNCHANGED <<commitVars, programVars, kpc, delivered, requested, accepted, committed>>

Goto(label) == hpc' = label

\* On to label, and nothing else.
Move(label) ==
  /\ Goto(label)
  /\ UNCHANGED <<readerVars, conn, memberID, subs, offsets, loopVars, membership>> /\ Apart

\* unsubscribe: r.cancel().
Unsubscribe ==
  /\ hpc = "unsubscribe"
  /\ cancelled' = TRUE
  /\ Goto("join")
  /\ UNCHANGED <<config, version, closed, stopped, at, msgs, conn, memberID, subs, offsets>>
  /\ UNCHANGED <<loopVars, membership, disruptions>> /\ Apart

\* Mutant of Joined: the reader goroutines are not waited for.
JoinedAlways == TRUE

\* r.join.Wait() returns.
Joined == \A p \in Partitions : at[p] = Off

UnsubscribeWait ==
  /\ hpc = "join" /\ Joined
  /\ Move("dial") /\ UNCHANGED disruptions

\* coordinator: refreshCoordinator finds it, at some attempt, and DialContext
\* with stctx succeeds.
DialCoordinator ==
  /\ hpc = "dial" /\ ~stopped
  /\ conn' = "open"
  /\ Goto("joinGroup")
  /\ UNCHANGED <<readerVars, memberID, subs, offsets, loopVars, membership, disruptions>> /\ Apart

\* DialContext fails, or a lookup does and the Reader is closed before the next.
DialFails ==
  /\ hpc = "dial"
  /\ (stopped /\ UNCHANGED disruptions) \/ Disrupt
  /\ Move("loop")

\* The coordinator has the member no longer.
Gone ==
  /\ member' = FALSE /\ current' = FALSE /\ rebalancing' = FALSE
  /\ assigned' = {}

\* leaveGroup, whose error is ignored: the connection or the member id may be bad.
leaveGroup ==
  IF conn = "open" /\ memberID THEN Gone
  ELSE UNCHANGED membership

\* joinGroup: the member is in the new generation.
JoinGroup ==
  /\ hpc = "joinGroup" /\ conn = "open" /\ (memberID => member)
  /\ memberID' = TRUE
  /\ member' = TRUE /\ current' = TRUE /\ rebalancing' = FALSE /\ assigned' = {}
  /\ Goto("syncGroup")
  /\ UNCHANGED <<readerVars, conn, subs, offsets, loopVars, disruptions>> /\ Apart

\* Mutant of JoinGroupUnknown: the member id is kept.
JoinGroupUnknownKept ==
  /\ hpc = "joinGroup" /\ conn = "open" /\ memberID /\ ~member
  /\ Move("teardown") /\ UNCHANGED disruptions

\* joinGroup, case UnknownMemberId: the next attempt is that of a new member.
JoinGroupUnknown ==
  /\ hpc = "joinGroup" /\ conn = "open" /\ memberID /\ ~member
  /\ memberID' = FALSE
  /\ Goto("teardown")
  /\ UNCHANGED <<readerVars, conn, subs, offsets, loopVars, membership, disruptions>> /\ Apart

\* joinGroup, case default: another error code, or the connection.
JoinGroupFails ==
  /\ hpc = "joinGroup"
  /\ (conn = "broken" /\ UNCHANGED disruptions) \/ (conn = "open" /\ Disrupt)
  /\ Move("teardown")

\* joinGroup as the leader, which cannot make the assignments, and leaves.
AssignFails ==
  /\ hpc = "joinGroup" /\ conn = "open" /\ (memberID => member)
  /\ Disrupt
  /\ memberID' = TRUE
  /\ Gone
  /\ Goto("teardown")
  /\ UNCHANGED <<readerVars, conn, subs, offsets, loopVars>> /\ Apart

\* syncGroup gives the member its partitions, none perhaps; rg.Go starts the
\* goroutines of the runGroup.
SyncGroup(ps) ==
  /\ hpc = "syncGroup" /\ conn = "open" /\ member /\ current /\ ~rebalancing
  /\ assigned' = ps
  /\ subs' = ps
  /\ running' = Loops /\ rgStop' = FALSE
  /\ Goto("subscribe")
  /\ UNCHANGED <<readerVars, conn, memberID, offsets, clpc, attempt, last, req>>
  /\ UNCHANGED <<member, current, rebalancing, disruptions>> /\ Apart

\* syncGroup, case RebalanceInProgress: the member stays in the group.
SyncGroupRebalance ==
  /\ hpc = "syncGroup" /\ conn = "open" /\ member /\ rebalancing
  /\ Move("teardown") /\ UNCHANGED disruptions

\* syncGroup, case UnknownMemberId: leaveGroup has no member id to send.
SyncGroupUnknown ==
  /\ hpc = "syncGroup" /\ conn = "open" /\ ~member
  /\ memberID' = FALSE
  /\ Goto("teardown")
  /\ UNCHANGED <<readerVars, conn, subs, offsets, loopVars, membership, disruptions>> /\ Apart

\* syncGroup, case default: another error code, or the connection.
SyncGroupFails ==
  /\ hpc = "syncGroup"
  /\ (conn = "broken" /\ UNCHANGED disruptions) \/ (conn = "open" /\ Disrupt)
  /\ leaveGroup
  /\ Goto("teardown")
  /\ UNCHANGED <<readerVars, conn, memberID, subs, offsets, loopVars>> /\ Apart

\* subscribe: the offsets to start from; nothing to do without partitions.
FetchOffsets ==
  /\ hpc = "subscribe"
  /\ subs # {} => conn = "open"
  /\ offsets' = [p \in Partitions |-> IF p \in subs THEN committed[p] ELSE 0]
  /\ Goto(IF subs = {} THEN "wait" ELSE "start")
  /\ UNCHANGED <<readerVars, conn, memberID, subs, loopVars, membership, disruptions>> /\ Apart

\* Mutant of SubscribeFails: handshake returns without rg.Stop.
SubscribeFailsNoStop ==
  /\ hpc = "subscribe" /\ subs # {}
  /\ (conn = "broken" /\ UNCHANGED disruptions) \/ (conn = "open" /\ Disrupt)
  /\ subs' = {}
  /\ Goto("teardown")
  /\ UNCHANGED <<readerVars, conn, memberID, offsets, loopVars, membership>> /\ Apart

\* subscribe fails: rg.Stop() cancels and waits.
SubscribeFails ==
  /\ hpc = "subscribe" /\ subs # {}
  /\ (conn = "broken" /\ UNCHANGED disruptions) \/ (conn = "open" /\ Disrupt)
  /\ subs' = {}
  /\ rgStop' = TRUE
  /\ Goto("wait")
  /\ UNCHANGED <<readerVars, conn, memberID, offsets, running, clpc, attempt, last, req>>
  /\ UNCHANGED membership /\ Apart

\* Mutant of start: the goroutines are started on a closed Reader too.
startAlways ==
  /\ hpc = "start"
  /\ version' = version + 1
  /\ cancelled' = FALSE
  /\ at' = [p \in Partitions |-> IF p \in subs THEN offsets[p] ELSE at[p]]
  /\ subs' = {} /\ offsets' = Zero
  /\ Goto("wait")
  /\ UNCHANGED <<config, closed, stopped, msgs, conn, memberID, loopVars>>
  /\ UNCHANGED <<membership, disruptions>> /\ Apart

\* start: one goroutine for each partition, unless the Reader is closed.
start ==
  /\ hpc = "start"
  /\ IF closed
       THEN UNCHANGED <<version, cancelled, at>>
       ELSE /\ version' = version + 1
            /\ cancelled' = FALSE
            /\ at' = [p \in Partitions |-> IF p \in subs THEN offsets[p] ELSE at[p]]
  /\ subs' = {} /\ offsets' = Zero
  /\ Goto("wait")
  /\ UNCHANGED <<config, closed, stopped, msgs, conn, memberID, loopVars>>
  /\ UNCHANGED <<membership, disruptions>> /\ Apart

\* rg.Wait() returns.
Wait ==
  /\ hpc = "wait" /\ running = {}
  /\ Move("teardown") /\ UNCHANGED disruptions

\* The deferred function: a Reader that is closing leaves the group.
Teardown ==
  /\ hpc = "teardown"
  /\ IF stopped THEN leaveGroup ELSE UNCHANGED membership
  /\ conn' = "nil"
  /\ Goto("loop")
  /\ UNCHANGED <<readerVars, memberID, subs, offsets, loopVars, disruptions>> /\ Apart

\* run: the next handshake, or close(r.done).
Loop ==
  /\ hpc = "loop"
  /\ Move(IF stopped THEN "exited" ELSE "unsubscribe") /\ UNCHANGED disruptions

handshake ==
  \/ Unsubscribe \/ UnsubscribeWait \/ DialCoordinator \/ DialFails
  \/ JoinGroup \/ JoinGroupUnknown \/ JoinGroupFails \/ AssignFails
  \/ (\E ps \in SUBSET Partitions : SyncGroup(ps))
  \/ SyncGroupRebalance \/ SyncGroupUnknown \/ SyncGroupFails
  \/ FetchOffsets \/ SubscribeFails \/ start
  \/ Wait \/ Teardown \/ Loop

-----------------------------------------------------------------------------
(* The goroutines of the runGroup.  One that returns cancels the context of
   all.                                                                    *)

\* The channel stop of the goroutines is closed: rg was cancelled, or stctx.
Stopping == rgStop \/ stopped

\* Mutant of Ends: the context is not cancelled.
EndsAlone(l) == running' = running \ {l} /\ UNCHANGED rgStop

\* defer r.wg.Done(); defer r.cancel()
Ends(l) == running' = running \ {l} /\ rgStop' = TRUE

\* A heartbeat or a metadata request fails, or the number of partitions has
\* changed; or stop is closed.
Refused == conn = "broken" \/ ~member \/ ~current \/ rebalancing

HeartbeatLoop ==
  /\ "heartbeat" \in running
  /\ Refused \/ Stopping
  /\ Ends("heartbeat")
  /\ UNCHANGED <<readerVars, shakeVars, clpc, attempt, last, req, groupVars, disruptions>> /\ Apart

PartitionWatcher ==
  /\ "watcher" \in running
  /\ ((conn = "broken" \/ Stopping) /\ UNCHANGED disruptions) \/ Disrupt
  /\ Ends("watcher")
  /\ UNCHANGED <<readerVars, shakeVars, clpc, attempt, last, req, groupVars>> /\ Apart

-----------------------------------------------------------------------------
(* commitLoopImmediate and commitLoopInterval. *)

\* offsetStash.merge
merge(r) == [stash EXCEPT ![r.p] = IF r.offset > @ THEN r.offset ELSE @]

\* What the commit loop leaves alone.
NotCommit == UNCHANGED <<readerVars, shakeVars, kpc, ppc, seen, held, member, current, rebalancing,
                         assigned, delivered, requested>>

\* case req := <-r.commits: one loop merges it and commits, the other merges it.
CommitReceive ==
  /\ "commit" \in running /\ clpc = "select" /\ commits # <<>>
  /\ commits' = Tail(commits)
  /\ stash' = merge(Head(commits))
  /\ clpc' = IF sync THEN "commit" ELSE "select"
  /\ req' = IF sync THEN Head(commits) ELSE NoRequest
  /\ UNCHANGED <<running, rgStop, attempt, last, errch, committed, accepted, disruptions>>
  /\ NotCommit

\* case <-ticker.C of the interval loop.
CommitTick ==
  /\ "commit" \in running /\ clpc = "select" /\ ~sync /\ stash # Zero
  /\ clpc' = "commit"
  /\ UNCHANGED <<running, rgStop, attempt, last, req, commits, stash, errch, committed, accepted,
                 disruptions>> /\ NotCommit

\* case <-stop: the interval loop commits once more.
CommitStop ==
  /\ "commit" \in running /\ clpc = "select" /\ Stopping
  /\ IF sync \/ stash = Zero
       THEN Ends("commit") /\ UNCHANGED <<clpc, last>>
       ELSE clpc' = "commit" /\ last' = TRUE /\ UNCHANGED <<running, rgStop>>
  /\ UNCHANGED <<attempt, req, commits, stash, errch, committed, accepted, disruptions>>
  /\ NotCommit

\* Mutant of CommitDone: the stash is cleared whatever the result.
CommitDoneResets(ok) ==
  /\ attempt' = 0 /\ last' = FALSE /\ clpc' = "select" /\ req' = NoRequest
  /\ stash' = Zero
  /\ errch' = IF req.awaited THEN (IF ok THEN "nil" ELSE "error") ELSE errch
  /\ IF last THEN Ends("commit") ELSE UNCHANGED <<running, rgStop>>

\* commitOffsetsWithRetry returns: the immediate loop answers its request and
\* clears its own stash, the interval loop clears r.offsetStash on success.
CommitDone(ok) ==
  /\ attempt' = 0 /\ last' = FALSE /\ clpc' = "select" /\ req' = NoRequest
  /\ stash' = IF sync \/ ok THEN Zero ELSE stash
  /\ errch' = IF req.awaited THEN (IF ok THEN "nil" ELSE "error") ELSE errch
  /\ IF last THEN Ends("commit") ELSE UNCHANGED <<running, rgStop>>

\* The coordinator stores the offsets of the stash for the partitions ps.
Store(ps) ==
  /\ committed' = [p \in Partitions |-> IF p \in ps THEN stash[p] ELSE committed[p]]
  /\ accepted' = [p \in Partitions |-> IF p \in ps /\ stash[p] > accepted[p] THEN stash[p]
                                       ELSE accepted[p]]

Stashed == {p \in Partitions : stash[p] > 0}

\* commitOffsets succeeds.
CommitOffsets ==
  /\ clpc = "commit" /\ conn = "open" /\ member /\ current
  /\ Store(Stashed)
  /\ CommitDone(TRUE)
  /\ UNCHANGED <<commits, disruptions>> /\ NotCommit

\* Mutant of CommitAgain: the error of the last attempt is forgotten.
CommitAgainSwallows ==
  IF attempt + 1 < Retries
    THEN /\ attempt' = attempt + 1
         /\ UNCHANGED <<clpc, last, req, stash, errch, running, rgStop>>
    ELSE CommitDone(TRUE)

\* The attempt failed: another one, or the error is returned.
CommitAgain ==
  IF attempt + 1 < Retries
    THEN /\ attempt' = attempt + 1
         /\ UNCHANGED <<clpc, last, req, stash, errch, running, rgStop>>
    ELSE CommitDone(FALSE)

\* commitOffsets fails: nothing is stored.
CommitRefused ==
  /\ clpc = "commit"
  /\ conn = "broken" \/ ~member \/ ~current
  /\ CommitAgain
  /\ UNCHANGED <<commits, committed, accepted, disruptions>> /\ NotCommit

\* commitOffsets fails, with an error code for some of the partitions, or
\* because the response is lost: what the coordinator stored stays.
CommitPartly(ps) ==
  /\ clpc = "commit" /\ conn = "open" /\ member /\ current
  /\ Disrupt
  /\ Store(ps)
  /\ CommitAgain
  /\ UNCHANGED commits /\ NotCommit

\* sleep(r.stctx) before another attempt is cut short: the error is returned.
CommitAborted ==
  /\ clpc = "commit" /\ attempt > 0 /\ stopped
  /\ CommitDone(FALSE)
  /\ UNCHANGED <<commits, committed, accepted, disruptions>> /\ NotCommit

commitLoop ==
  \/ CommitReceive \/ CommitTick \/ CommitStop
  \/ CommitOffsets \/ CommitRefused \/ CommitAborted
  \/ \E ps \in SUBSET Stashed : CommitPartly(ps)

-----------------------------------------------------------------------------
(* The reader goroutines, and the program. *)

\* What the program and the reader goroutines leave alone.
Beside == UNCHANGED <<config, version, closed, stopped, cancelled, shakeVars, kpc, groupVars, accepted>>

NotProgram == Beside /\ UNCHANGED disruptions

\* sendMessage
ReaderSend(p) ==
  /\ at[p] \in 0 .. MaxOffset - 1 /\ Len(msgs) < QueueCapacity
  /\ msgs' = Append(msgs, [version |-> version, p |-> p, offset |-> at[p]])
  /\ at' = [at EXCEPT ![p] = @ + 1]
  /\ UNCHANGED <<loopVars, commitVars, programVars, delivered, requested>> /\ NotProgram

\* The goroutine of the partition runs, and does not spin.
Live(p) == at[p] \notin {Off, Stuck}

\* The context is done.
ReaderExit(p) ==
  /\ Live(p) /\ cancelled
  /\ at' = [at EXCEPT ![p] = Off]
  /\ UNCHANGED <<msgs, loopVars, commitVars, programVars, delivered, requested>> /\ NotProgram

\* A fetch response of version 5 has an error code, which leaves bytes of it
\* unread: the next request on the connection waits for its response and looks
\* neither at a deadline nor at the context.
ReaderSpins(p) ==
  /\ Live(p)
  /\ Disrupt
  /\ at' = [at EXCEPT ![p] = Stuck]
  /\ UNCHANGED <<msgs, loopVars, commitVars, programVars, delivered, requested>> /\ Beside

\* FetchMessage up to the select.
FetchMessage ==
  /\ ppc = "idle"
  /\ ppc' = "select"
  /\ seen' = version
  /\ UNCHANGED <<at, msgs, loopVars, commitVars, held, errch, delivered, requested>> /\ NotProgram

\* A message of the version seen, or of a newer one, is returned.
FetchReceive ==
  /\ ppc = "select" /\ msgs # <<>> /\ Head(msgs).version >= seen
  /\ msgs' = Tail(msgs)
  /\ held' = [p |-> Head(msgs).p, offset |-> Head(msgs).offset]
  /\ delivered' = [delivered EXCEPT ![Head(msgs).p] = @ \cup {Head(msgs).offset}]
  /\ ppc' = "have" /\ seen' = 0
  /\ UNCHANGED <<at, loopVars, commitVars, errch, requested>> /\ NotProgram

\* A message of an older version is dropped.
FetchDrop ==
  /\ ppc = "select" /\ msgs # <<>> /\ Head(msgs).version < seen
  /\ msgs' = Tail(msgs)
  /\ seen' = version
  /\ UNCHANGED <<at, loopVars, commitVars, ppc, held, errch, delivered, requested>> /\ NotProgram

\* The program is done with the message, and with its call.
Idle == ppc' = "idle" /\ seen' = 0 /\ held' = NoMessage /\ errch' = "empty"

\* The context of FetchMessage is cancelled, or the channel is closed; or the
\* program does not commit the message, or CommitMessages fails in its first
\* select: stctx or the context of the call is done.
FetchOver ==
  /\ ppc \in {"select", "have"}
  /\ Idle
  /\ UNCHANGED <<at, msgs, loopVars, commitVars, delivered, requested>> /\ NotProgram

\* Mutant of makeCommit: the message after this one is committed too.
makeCommitSkips == held.offset + 2

\* makeCommit: the offset to commit is that of the next message.
makeCommit == held.offset + 1

\* CommitMessages, case r.commits <- creq: an asynchronous call is over.
CommitMessages ==
  /\ ppc = "have" /\ Len(commits) < QueueCapacity
  /\ commits' = Append(commits, [p |-> held.p, offset |-> makeCommit, awaited |-> sync])
  /\ requested' = [requested EXCEPT ![held.p] = IF ~sync /\ makeCommit > @ THEN makeCommit ELSE @]
  /\ IF sync THEN ppc' = "await" /\ UNCHANGED <<seen, held, errch>> ELSE Idle
  /\ UNCHANGED <<at, msgs, loopVars, stash, delivered>> /\ NotProgram

\* case err := <-errch
CommitAnswered ==
  /\ ppc = "await" /\ errch # "empty"
  /\ Idle
  /\ UNCHANGED <<at, msgs, loopVars, commitVars, delivered, requested>> /\ NotProgram

\* case <-ctx.Done(): nobody waits for the answer any more.
CommitCancelled ==
  /\ ppc = "await"
  /\ Idle
  /\ commits' = [i \in 1 .. Len(commits) |-> [commits[i] EXCEPT !.awaited = FALSE]]
  /\ req' = [req EXCEPT !.awaited = FALSE]
  /\ UNCHANGED <<at, msgs, running, rgStop, clpc, attempt, last, stash, delivered, requested>>
  /\ NotProgram

program ==
  \/ FetchMessage \/ FetchReceive \/ FetchDrop \/ FetchOver
  \/ CommitMessages \/ CommitAnswered \/ CommitCancelled

-----------------------------------------------------------------------------
(* Close. *)

NotClose == UNCHANGED <<config, version, at, msgs, shakeVars, loopVars, commitVars, programVars,
                        groupVars, histVars>>

CloseLocked ==
  /\ kpc = "idle"
  /\ closed' = TRUE
  /\ kpc' = "cancel"
  /\ UNCHANGED <<stopped, cancelled>> /\ NotClose

\* r.cancel()
CloseCancel ==
  /\ kpc = "cancel"
  /\ cancelled' = TRUE
  /\ kpc' = "stop"
  /\ UNCHANGED <<closed, stopped>> /\ NotClose

\* r.stop()
CloseStop ==
  /\ kpc = "stop"
  /\ stopped' = TRUE
  /\ kpc' = "join"
  /\ UNCHANGED <<closed, cancelled>> /\ NotClose

\* r.join.Wait() returns.
CloseJoin ==
  /\ kpc = "join" /\ Joined
  /\ kpc' = "done"
  /\ UNCHANGED <<closed, stopped, cancelled>> /\ NotClose

\* <-r.done; close(r.msgs)
CloseReturn ==
  /\ kpc = "done" /\ hpc = "exited"
  /\ kpc' = "returned"
  /\ UNCHANGED <<closed, stopped, cancelled>> /\ NotClose

-----------------------------------------------------------------------------
(* The network, the coordinator and the other members: external. *)

NotGroup == UNCHANGED <<readerVars, hpc, memberID, subs, offsets, loopVars, commitVars, programVars,
                        kpc, requested, accepted>>

ConnBreaks ==
  /\ conn = "open"
  /\ Disrupt
  /\ conn' = "broken"
  /\ UNCHANGED <<groupVars, delivered>> /\ NotGroup

\* Another member joins or leaves: the coordinator wants everybody to join again.
GroupChange ==
  /\ member /\ ~rebalancing
  /\ Disrupt
  /\ rebalancing' = TRUE
  /\ UNCHANGED <<conn, member, current, assigned, committed, delivered>> /\ NotGroup

\* The session, or the rebalance, times out without this member.
Expel ==
  /\ member
  /\ Disrupt
  /\ Gone
  /\ UNCHANGED <<conn, committed, delivered>> /\ NotGroup

\* Another member delivers and commits a message of a partition of its own.
OtherCommits(p) ==
  /\ p \notin assigned /\ ~rebalancing /\ committed[p] < MaxOffset
  /\ delivered' = [delivered EXCEPT ![p] = @ \cup {committed[p]}]
  /\ committed' = [committed EXCEPT ![p] = @ + 1]
  /\ UNCHANGED <<conn, member, current, rebalancing, assigned, disruptions>> /\ NotGroup

-----------------------------------------------------------------------------
runGroup == HeartbeatLoop \/ PartitionWatcher \/ commitLoop

Close == CloseCancel \/ CloseStop \/ CloseJoin \/ CloseReturn

Next ==
  \/ handshake \/ runGroup \/ program
  \/ \E p \in Partitions : ReaderSend(p) \/ ReaderExit(p) \/ ReaderSpins(p)
  \/ CloseLocked \/ Close
  \/ ConnBreaks \/ GroupChange \/ Expel
  \/ \E p \in Partitions : OtherCommits(p)

Spec == Init /\ [][Next]_vars

\* Goroutines run.  A select that has stop and another case ready takes stop in
\* the end, as a select chooses at random.  The program need not do anything.
FairSpec ==
  /\ Spec
  /\ WF_vars(handshake) /\ WF_vars(HeartbeatLoop)
  /\ WF_vars(PartitionWatcher /\ UNCHANGED disruptions)
  /\ WF_vars(commitLoop) /\ SF_vars(CommitStop)
  /\ \A p \in Partitions : WF_vars(ReaderExit(p))
  /\ WF_vars(Close)

-----------------------------------------------------------------------------
(* Properties. *)

(***************************************************************************)
(* At least once: every offset below the committed one has been delivered, *)
(* by this member or by another, whatever the generations, the messages    *)
(* dropped with their version, the commits sent late and those whose       *)
(* response was lost.                                                      *)
(***************************************************************************)
NothingSkipped ==
  \A p \in Partitions : \A o \in 0 .. committed[p] - 1 : o \in delivered[p]

(***************************************************************************)
(* A synchronous CommitMessages that returns nil has had its offset stored *)
(* by the coordinator, or a higher one.                                    *)
(***************************************************************************)
NilMeansCommitted ==
  ppc = "await" /\ errch = "nil" => accepted[held.p] >= held.offset + 1

(***************************************************************************)
(* What an asynchronous CommitMessages took is queued, stashed or stored:  *)
(* the stash outlives a failed commit and the generation it was made in.   *)
(***************************************************************************)
NothingForgotten ==
  ~sync =>
    \A p \in Partitions :
      \/ requested[p] <= stash[p] \/ requested[p] <= accepted[p]
      \/ \E i \in 1 .. Len(commits) : commits[i].p = p /\ requested[p] <= commits[i].offset

(***************************************************************************)
(* The goroutines of a runGroup never outlive the handshake whose          *)
(* connection they share ("this connection will be shared by all of the    *)
(* consumer group go routines", reader.go).                                *)
(***************************************************************************)
ConnOutlivesGroup == running # {} => conn # "nil" /\ hpc \in {"subscribe", "start", "wait"}

(***************************************************************************)
(* As long as the coordinator counts on this member in the generation that *)
(* it knows, the member reads no partition that is not assigned to it:     *)
(* the reader goroutines of a generation have ended before the member      *)
(* joins the next one.                                                     *)
(***************************************************************************)
OwnedReads == member /\ current => {p \in Partitions : at[p] # Off} \subseteq assigned

\* A reader goroutine spins (read, fetch version 5): nothing ends it, and both
\* unsubscribe and Close wait for it.
Spinning == \E p \in Partitions : at[p] = Stuck

(***************************************************************************)
(* The group does not wait for this member for ever: the heartbeat ends,   *)
(* with it every goroutine of the runGroup, the reader goroutines end even *)
(* when the program does not fetch, and the member joins again or is gone, *)
(* unless the Reader is closed or one of its goroutines spins.             *)
(***************************************************************************)
RebalanceJoined == []<>(~rebalancing \/ stopped \/ Spinning)

\* A member that the coordinator has dropped joins the group again, unless the
\* Reader is closed or one of its goroutines spins (run calls handshake
\* "whenever the group is disrupted").
Rejoins == []<>(member \/ stopped \/ Spinning)

(***************************************************************************)
(* A synchronous CommitMessages gets its answer, in this generation or in  *)
(* a later one, unless the Reader is closed; and Close returns, whatever   *)
(* the handshake, the commits and the program do.  Neither is so when a    *)
(* reader goroutine spins.                                                 *)
(***************************************************************************)
CallsReturn ==
  /\ []<>(ppc # "await" \/ errch # "empty" \/ stopped \/ Spinning)
  /\ []<>(kpc \in {"idle", "returned"} \/ Spinning)
=============================================================================
