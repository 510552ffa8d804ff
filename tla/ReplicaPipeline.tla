-------------------------- MODULE ReplicaPipeline --------------------------
(***************************************************************************)
(* The life of a command in one replica of a shard (raftstore/peer_*.go).  *)
(*                                                                         *)
(* Two threads share a peerReplica.  The event worker runs handleEvent: it *)
(* caches the raft status, steps raft, handles apply results, proposes the *)
(* queued requests and handles the Ready.  The apply worker executes, in   *)
(* order, the jobs the event worker queues: register the delegate, file    *)
(* the callback of a proposal, apply committed entries, apply a snapshot,  *)
(* destroy.  A callback is invoked by whichever of the two decides the     *)
(* command's fate, and clients retry on what it is told.                   *)
(***************************************************************************)
EXTENDS RaftGroup

CONSTANTS
    MaxGC,        \* bound on the messages that tell this replica to destroy itself
    MaxSnapFails  \* bound on the snapshots whose data fails to apply

ASSUME BoundsAssumption == MaxGC \in Nat /\ MaxSnapFails \in Nat

VARIABLES
    pc,           \* where handleEvent is
    cachedLead,   \* peerReplica.leaderID, "self" when it is this peer
    cachedTerm,   \* peerReplica.currentTerm
    requests,     \* peerReplica.requests
    batch,        \* peerReplica.batch
    psCommit,     \* peerStorage.raftLocalState.HardState.Commit
    psApplied,    \* peerStorage.raftApplyState.AppliedIndex
    psEpoch,      \* peerStorage.shard.Epoch
    lastReady,    \* peerStorage.lastReadyIndex
    stopRaftTick, \* peerReplica.stopRaftTick
    jobs,         \* the queue of the apply worker
    results,      \* peerReplica.applyResults
    registered,   \* store.delegates holds the delegate
    pending,      \* applyDelegate.pendingCMDs
    dApplied,     \* applyDelegate.applyState.AppliedIndex
    dEpoch,       \* applyDelegate.shard.Epoch
    data,         \* the writes executed on the data storage
    live,         \* store.replicas holds the replica
    disposed,     \* peerReplica.events is disposed
    stopped,      \* the stopOnce of handleEvent ran
    destroying,   \* mustDestroy in progress: by whom, or waiting for its timer
    submitted,    \* the commands clients sent
    replies,      \* what each callback was told, in order
    gcs,          \* destroy messages received
    snapFails,    \* snapshots that failed to apply
    fatal         \* a logger.Fatalf was reached

loopVars == <<pc, cachedLead, cachedTerm, requests, batch>>
psVars == <<psCommit, psApplied, psEpoch, lastReady, stopRaftTick>>
delegateVars == <<registered, pending, dApplied, dEpoch, data>>
lifeVars == <<live, disposed, stopped, destroying, gcs>>
clientVars == <<submitted, replies>>
vars == <<raftVars, loopVars, psVars, jobs, results, delegateVars, lifeVars,
          clientVars, snapFails, fatal>>

\* The answers a callback can get.
Answers == {"ok", "epoch", "notLeader", "rejected", "stale", "shardNotFound",
            "storeNotMatch"}

\* A command with the epoch its header was given, and one with the term its
\* callback is filed under.
Header == [cmd : Cmds, epoch : Nat]
Filed == [cmd : Cmds, term : Nat]

Job == [kind : {"register"}, applied : Nat, epoch : Nat]
       \cup [kind : {"propose"}, cmd : Cmds, term : Nat]
       \cup [kind : {"apply"}, first : Nat, entries : Seq(Entry) \ {<<>>}]
       \cup [kind : {"snapshot"}, shard : Shard]
       \cup [kind : {"destroy"}]

\* The type of every variable; no job without entries reaches the apply worker
\* (applyCommittedEntries).
TypeOK ==
    /\ RaftTypeOK
    /\ pc \in {"idle", "step", "request", "propose"}
    /\ cachedLead \in {"self", "other", "none"}
    /\ cachedTerm \in Nat
    /\ requests \in Seq(Cmds)
    /\ batch \in Seq(Header)
    /\ psCommit \in Nat /\ psApplied \in Nat /\ psEpoch \in Nat /\ lastReady \in Nat
    /\ stopRaftTick \in BOOLEAN
    /\ jobs \in Seq(Job)
    /\ results \in Seq([applied : Nat, epoch : Nat])
    /\ registered \in BOOLEAN
    /\ pending \in Seq(Filed)
    /\ dApplied \in Nat /\ dEpoch \in Nat
    /\ data \in Seq(Cmds \cup Others)
    /\ live \in BOOLEAN /\ disposed \in BOOLEAN /\ stopped \in BOOLEAN
    /\ destroying \in {"no", "retry", "worker", "timer"}
    /\ submitted \in SUBSET Cmds
    /\ replies \in [Cmds -> Seq(Answers)]
    /\ gcs \in Nat /\ snapFails \in Nat
    /\ fatal \in BOOLEAN

----------------------------------------------------------------------------
(* Callbacks.  A split is an admin request: onAdmin gives it no callback.  *)

hasCB(c) == c \notin Splits

resp(c, answer) ==
    [replies EXCEPT ![c] = IF hasCB(c) THEN Append(@, answer) ELSE @]

\* The same answer to a set of commands.
respAll(S, answer) ==
    [c \in Cmds |-> IF c \in S /\ hasCB(c) THEN Append(replies[c], answer)
                    ELSE replies[c]]

\* The same answer to a set of commands, and another answer to one more.
respAllAnd(S, answer, c, last) ==
    [d \in Cmds |-> CASE d = c /\ hasCB(d) -> Append(replies[d], last)
                      [] d # c /\ d \in S /\ hasCB(d) -> Append(replies[d], answer)
                      [] OTHER -> replies[d]]

cmdsOf(s) == {s[i].cmd : i \in DOMAIN s}

\* isApplyingSnapshot: the snapshot job is not complete.
isApplyingSnapshot ==
    \E i \in DOMAIN jobs : jobs[i].kind = "snapshot"

\* Mutants of isApplyComplete: not checked at all, and an off-by-one.
isApplyComplete_skipped == TRUE
isApplyComplete_strict == psCommit < psApplied

\* isApplyComplete: what was committed at the last Ready is applied.
isApplyComplete == psCommit = psApplied

\* Mutant of addApplyJob: the job is put in front of the queue.
addApplyJob_front(job) == jobs' = <<job>> \o jobs

\* addApplyJob: the job is put in the queue of the apply worker.
addApplyJob(job) == jobs' = Append(jobs, job)

\* Mutants of registrationJob: the delegate does not get the applied index,
\* or does not get the shard.
registrationJob_noIndex(applied, epoch) ==
    [kind |-> "register", applied |-> 0, epoch |-> epoch]
registrationJob_noShard(applied, epoch) ==
    [kind |-> "register", applied |-> applied, epoch |-> 0]

\* startRegistrationJob: the delegate to register has the applied index and
\* the shard the replica has when the job is queued.
registrationJob(applied, epoch) ==
    [kind |-> "register", applied |-> applied, epoch |-> epoch]

\* A replica just created: its registration job is queued.
Init ==
    /\ RaftInit
    /\ pc = "idle" /\ cachedLead = "none" /\ cachedTerm = 0
    /\ requests = <<>> /\ batch = <<>>
    /\ psCommit = 0 /\ psApplied = 0 /\ psEpoch = 0 /\ lastReady = 0
    /\ stopRaftTick = FALSE
    /\ jobs = <<registrationJob(0, 0)>>
    /\ results = <<>>
    /\ registered = FALSE /\ pending = <<>> /\ dApplied = 0 /\ dEpoch = 0
    /\ data = <<>>
    /\ live = TRUE /\ disposed = FALSE /\ stopped = FALSE /\ destroying = "no"
    /\ submitted = {} /\ replies = [c \in Cmds |-> <<>>]
    /\ gcs = 0 /\ snapFails = 0
    /\ fatal = FALSE

----------------------------------------------------------------------------
(* Clients.                                                                *)

\* onRequestWithCB: a request for a replica of this store is queued; one for
\* a replica that is gone, or whose queue is disposed, is refused at once.
Submit(c) ==
    /\ c \notin submitted
    /\ submitted' = submitted \cup {c}
    /\ IF live /\ ~stopped
       THEN requests' = Append(requests, c) /\ UNCHANGED replies
       ELSE replies' = resp(c, "storeNotMatch") /\ UNCHANGED requests
    /\ UNCHANGED <<raftVars, pc, cachedLead, cachedTerm, batch, psVars, jobs, results,
                   delegateVars, lifeVars, snapFails, fatal>>

----------------------------------------------------------------------------
(* The event worker: handleEvent.                                          *)

\* Mutant of cacheRaftStatus: the term is not refreshed.
cacheRaftStatus_oldTerm == cachedLead' = rlead /\ cachedTerm' = cachedTerm

cacheRaftStatus == cachedLead' = rlead /\ cachedTerm' = rterm

\* handleEvent starts, with cacheRaftStatus.
LoopStart ==
    /\ pc = "idle" /\ live /\ ~disposed
    /\ pc' = "step"
    /\ cacheRaftStatus
    /\ UNCHANGED <<raftVars, requests, batch, psVars, jobs, results, delegateVars,
                   lifeVars, clientVars, snapFails, fatal>>

\* The events queue is disposed: answer what is queued, once, and stop.
LoopStop ==
    /\ pc = "idle" /\ live /\ disposed /\ ~stopped
    /\ stopped' = TRUE
    /\ replies' = respAll(ToSet(requests) \cup cmdsOf(batch), "storeNotMatch")
    /\ requests' = <<>> /\ batch' = <<>> /\ results' = <<>>
    /\ UNCHANGED <<raftVars, pc, cachedLead, cachedTerm, psVars, jobs, delegateVars,
                   live, disposed, destroying, gcs, submitted, snapFails, fatal>>

\* handleStep and handleTick: any number of raft steps; a tick is dropped
\* while a snapshot stops the raft clock.
HandleStep ==
    /\ pc = "step"
    /\ \/ Campaign /\ ~stopRaftTick
       \/ Win
       \/ StepDown
       \/ FollowLeader
       \/ LearnCommit
       \/ RecvProp
       \/ RecvSnapshot
    /\ UNCHANGED <<loopVars, psVars, jobs, results, delegateVars, lifeVars,
                   clientVars, snapFails, fatal>>

\* handleApplyResult: take over the applied index and the shard of every
\* result (doPostApply, doApplySplit); none may be there while a snapshot is
\* being applied.
HandleApplyResult ==
    /\ pc = "step"
    /\ pc' = "request"
    /\ results' = <<>>
    /\ IF results = <<>>
       THEN UNCHANGED <<psApplied, psEpoch, fatal>>
       ELSE /\ psApplied' = results[Len(results)].applied
            /\ psEpoch' = results[Len(results)].epoch
            /\ fatal' = (fatal \/ isApplyingSnapshot)
    /\ UNCHANGED <<raftVars, cachedLead, cachedTerm, requests, batch, psCommit,
                   lastReady, stopRaftTick, jobs, delegateVars, lifeVars, clientVars,
                   snapFails>>

\* handleRequest, first loop: drain the queue into the batch; push gives each
\* command the epoch of the shard.
HandleRequest ==
    /\ pc = "request"
    /\ pc' = "propose"
    /\ batch' = batch \o [i \in DOMAIN requests |->
                             [cmd |-> requests[i], epoch |-> psEpoch]]
    /\ requests' = <<>>
    /\ UNCHANGED <<raftVars, cachedLead, cachedTerm, psVars, jobs, results,
                   delegateVars, lifeVars, clientVars, snapFails, fatal>>

\* handleRequest, second loop: propose() refuses the head of the batch.
\* Either the replica is gone, or it was not leader when the round started,
\* or the entry is too large or raft drops the proposal.
ProposeRefused ==
    /\ pc = "propose" /\ batch # <<>>
    /\ \/ ~live /\ replies' = resp(Head(batch).cmd, "shardNotFound")
       \/ live /\ cachedLead # "self"
          /\ replies' = resp(Head(batch).cmd, "notLeader")
       \/ live /\ cachedLead = "self"
          /\ replies' = resp(Head(batch).cmd, "rejected")
    /\ batch' = Tail(batch)
    /\ UNCHANGED <<raftVars, pc, cachedLead, cachedTerm, requests, psVars, jobs,
                   results, delegateVars, lifeVars, submitted, snapFails, fatal>>

\* propose(): the log did not grow because raft, follower since this round's
\* steps, forwarded the proposal to the leader it knows.
ProposeForwarded ==
    /\ pc = "propose" /\ batch # <<>>
    /\ live /\ cachedLead = "self" /\ rlead = "other"
    /\ net' = net \cup {Head(batch)}
    /\ replies' = resp(Head(batch).cmd, "notLeader")
    /\ batch' = Tail(batch)
    /\ UNCHANGED <<glog, gcommit, gterm, gself, gshards, nodeVars, pc, cachedLead, cachedTerm,
                   requests, psVars, jobs, results, delegateVars, lifeVars, submitted,
                   snapFails, fatal>>

\* propose(): the leader appends the command to its log and queues the job
\* that files its callback.
ProposeAppended ==
    /\ pc = "propose" /\ batch # <<>>
    /\ live /\ cachedLead = "self" /\ role = "leader"
    /\ rlog' = Append(rlog, [term |-> rterm, cmd |-> Head(batch).cmd,
                             epoch |-> Head(batch).epoch])
    /\ addApplyJob([kind |-> "propose", cmd |-> Head(batch).cmd, term |-> cachedTerm])
    /\ batch' = Tail(batch)
    /\ UNCHANGED <<groupVars, role, rterm, rlead, rcommit, asked, snapPend, snapFile,
                   pc, cachedLead, cachedTerm, requests, psVars, results, delegateVars,
                   lifeVars, clientVars, snapFails, fatal>>

\* Messages of the Ready reach the group: the leader's entries, and the vote
\* requests of a candidate.
sendMessages ==
    /\ glog' = IF role = "leader" /\ gself THEN rlog ELSE glog
    /\ asked' = (asked \/ role = "candidate")

\* handleReady skips the Ready: a snapshot is being applied, or one arrived
\* and the entries before it are not applied yet, or its file is not there.
SkipReady ==
    /\ pc = "propose" /\ batch = <<>>
    /\ \/ isApplyingSnapshot /\ UNCHANGED stopRaftTick
       \/ /\ ~isApplyingSnapshot /\ snapPend # 0 /\ ~isApplyComplete
          /\ UNCHANGED stopRaftTick
       \/ /\ ~isApplyingSnapshot /\ snapPend # 0 /\ isApplyComplete /\ ~snapFile
          /\ stopRaftTick' = TRUE
    /\ pc' = "idle"
    /\ UNCHANGED <<raftVars, cachedLead, cachedTerm, requests, batch, psCommit,
                   psApplied, psEpoch, lastReady, jobs, results, delegateVars, lifeVars,
                   clientVars, snapFails, fatal>>

\* handleReady with a snapshot: the replica's state becomes the snapshot's,
\* its data and a fresh registration are left to the apply worker.
SnapshotReady ==
    /\ pc = "propose" /\ batch = <<>>
    /\ ~isApplyingSnapshot /\ snapPend # 0 /\ isApplyComplete /\ snapFile
    /\ pc' = "idle"
    /\ sendMessages
    /\ psEpoch' = shardAt(snapPend).epoch
    /\ jobs' = jobs \o <<[kind |-> "snapshot", shard |-> shardAt(snapPend)],
                         registrationJob(snapPend, shardAt(snapPend).epoch)>>
    /\ psCommit' = rcommit /\ psApplied' = snapPend /\ lastReady' = snapPend
    /\ stopRaftTick' = TRUE
    /\ snapPend' = 0 /\ snapFile' = FALSE
    /\ UNCHANGED <<gcommit, gterm, gself, gshards, net, role, rterm, rlead, rlog, rcommit,
                   cachedLead, cachedTerm, requests, batch, results, delegateVars,
                   lifeVars, clientVars, snapFails, fatal>>

\* Mutant of hasCommitted: an empty list of entries becomes a job, too.
hasCommitted_unasked == registered

\* There are newly committed entries, and a delegate to apply them.
hasCommitted == registered /\ rcommit > lastReady

\* handleReady without one: the hard state is saved, and newly committed
\* entries become an apply job, once the delegate is registered.
HandleReady ==
    /\ pc = "propose" /\ batch = <<>>
    /\ ~isApplyingSnapshot /\ snapPend = 0
    /\ pc' = "idle"
    /\ sendMessages
    /\ psCommit' = rcommit
    /\ IF hasCommitted
       THEN /\ lastReady' = rcommit
            /\ addApplyJob([kind |-> "apply", first |-> lastReady + 1,
                            entries |-> SubSeq(rlog, lastReady + 1, rcommit)])
       ELSE UNCHANGED <<lastReady, jobs>>
    /\ UNCHANGED <<gcommit, gterm, gself, gshards, net, role, rterm, rlead, rlog, rcommit,
                   snapPend, snapFile, cachedLead, cachedTerm, requests, batch,
                   psApplied, psEpoch, stopRaftTick, results, delegateVars, lifeVars,
                   clientVars, snapFails, fatal>>

----------------------------------------------------------------------------
(* The apply worker: one job at a time, in the order they were queued.     *)

nextJob(kind) ==
    /\ destroying # "worker"
    /\ jobs # <<>> /\ Head(jobs).kind = kind

\* Mutant of answerPending: the list is not emptied.
answerPending_kept(answer) ==
    /\ replies' = respAll(cmdsOf(pending), answer)
    /\ UNCHANGED pending

\* clearAllCommandsAsStale, and applyDelegate.destroy: answer every callback
\* of the delegate and empty its list.
answerPending(answer) ==
    /\ replies' = respAll(cmdsOf(pending), answer)
    /\ pending' = <<>>

\* doRegistrationJob: store the delegate, or overwrite the one that is there
\* and answer its callbacks as stale.
DoRegistrationJob ==
    /\ nextJob("register")
    /\ registered' = TRUE
    /\ dApplied' = Head(jobs).applied /\ dEpoch' = Head(jobs).epoch
    /\ answerPending("stale")
    /\ jobs' = Tail(jobs)
    /\ UNCHANGED <<raftVars, loopVars, psVars, results, data, lifeVars, submitted,
                   snapFails, fatal>>

\* The cmd doPropose files, with the term propose gave it.
filed(job) == [cmd |-> job.cmd, term |-> job.term]

\* doPropose: file the callback with the delegate.
DoPropose ==
    /\ nextJob("propose")
    /\ IF registered
       THEN /\ pending' = Append(pending, filed(Head(jobs)))
            /\ UNCHANGED replies
       ELSE /\ replies' = resp(Head(jobs).cmd, "shardNotFound")
            /\ UNCHANGED pending
    /\ jobs' = Tail(jobs)
    /\ UNCHANGED <<raftVars, loopVars, psVars, results, registered, dApplied, dEpoch,
                   data, lifeVars, submitted, snapFails, fatal>>

\* popPendingCMD(t), until it fails, pops n callbacks: those at the head of
\* the list whose term is at most t.
popPendingCMD(t, n) ==
    /\ \A i \in 1 .. n : pending[i].term <= t
    /\ n < Len(pending) => pending[n + 1].term > t

\* Mutant of found: the UUIDs are not compared.
found_any(e, n) == n = 1 /\ pending[1].term <= e.term

\* The n-th callback is that of the entry, and findCB gets there.
found(e, n) ==
    /\ n >= 1
    /\ pending[n].cmd = e.cmd
    /\ \A i \in 1 .. n - 1 : pending[i].cmd # e.cmd
    /\ \A i \in 1 .. n : pending[i].term <= e.term

\* findCB pops n callbacks: up to that of the entry, or all it may.
findCB(e, n) ==
    \/ found(e, n)
    \/ popPendingCMD(e.term, n) /\ \A i \in 1 .. n : pending[i].cmd # e.cmd

\* Mutant of pops: an empty entry pops nothing.
pops_notByEmpty(e, n) == IF e.cmd = Empty THEN n = 0 ELSE findCB(e, n)

\* The entry pops n callbacks; an empty one, of a new leader, those of lower
\* terms.
pops(e, n) == IF e.cmd = Empty THEN popPendingCMD(e.term - 1, n) ELSE findCB(e, n)

\* Mutant of rest: the callback that is found stays in the list.
rest_kept(e, n) == SubSeq(pending, IF found(e, n) THEN n ELSE n + 1, Len(pending))

\* The callbacks that are left.
rest(e, n) == SubSeq(pending, n + 1, Len(pending))

\* applyEntry and doApplyRaftCMD on the next entry of a job: it pops n
\* callbacks, all of them stale but its own, is executed, and the result is
\* sent to the event worker.
applyEntry(e, n) ==
    LET shard == execEntry([epoch |-> dEpoch, data |-> data], e)
        answer == IF checkEpoch(dEpoch, e) THEN "ok" ELSE "epoch"
    IN /\ pops(e, n)
       /\ pending' = rest(e, n)
       /\ replies' = IF e.cmd # Empty /\ found(e, n)
                     THEN respAllAnd(cmdsOf(SubSeq(pending, 1, n - 1)), "stale",
                                     pending[n].cmd, answer)
                     ELSE respAll(cmdsOf(SubSeq(pending, 1, n)), "stale")
       /\ dEpoch' = shard.epoch /\ data' = shard.data
       /\ dApplied' = dApplied + 1
       /\ results' = IF live /\ ~stopped
                     THEN Append(results, [applied |-> dApplied + 1,
                                           epoch |-> shard.epoch])
                     ELSE results

\* doApplyCommittedEntries: apply the entries of the job one by one.  The
\* index of each must be the one after the last applied; the job fails if
\* the delegate is gone.
DoApplyCommittedEntries ==
    /\ nextJob("apply")
    /\ LET job == Head(jobs) IN
       IF ~registered
       THEN /\ jobs' = Tail(jobs)
            /\ UNCHANGED <<pending, dApplied, dEpoch, data, replies, results, fatal>>
       ELSE IF job.first # dApplied + 1
       THEN /\ fatal' = TRUE
            /\ jobs' = Tail(jobs)
            /\ UNCHANGED <<pending, dApplied, dEpoch, data, replies, results>>
       ELSE /\ \E n \in 0 .. Len(pending) : applyEntry(Head(job.entries), n)
            /\ jobs' = IF Len(job.entries) = 1
                       THEN Tail(jobs)
                       ELSE <<[kind |-> "apply", first |-> job.first + 1,
                               entries |-> Tail(job.entries)]>> \o Tail(jobs)
            /\ UNCHANGED fatal
    /\ UNCHANGED <<raftVars, loopVars, psVars, registered, lifeVars, submitted, snapFails>>

\* doApplyingSnapshotJob: replace the data by the snapshot's, and let raft
\* tick again.  When the data fails to apply the job ends as failed, which
\* counts as complete.
DoApplyingSnapshotJob ==
    /\ nextJob("snapshot")
    /\ \/ /\ data' = Head(jobs).shard.data
          /\ stopRaftTick' = FALSE
          /\ UNCHANGED snapFails
       \/ /\ snapFails < MaxSnapFails
          /\ snapFails' = snapFails + 1
          /\ data' = <<>>
          /\ UNCHANGED stopRaftTick
    /\ jobs' = Tail(jobs)
    /\ UNCHANGED <<raftVars, loopVars, psCommit, psApplied, psEpoch, lastReady, results,
                   registered, pending, dApplied, dEpoch, lifeVars, clientVars, fatal>>

----------------------------------------------------------------------------
(* Destroying the replica.                                                 *)

\* handleGCPeerMsg: a message of a newer epoch says this replica was removed.
HandleGCPeerMsg ==
    /\ gcs < MaxGC /\ live
    /\ gcs' = gcs + 1
    /\ addApplyJob([kind |-> "destroy"])
    /\ UNCHANGED <<raftVars, loopVars, psVars, results, delegateVars, live, disposed,
                   stopped, destroying, clientVars, snapFails, fatal>>

\* doDestroy: drop the delegate and answer its callbacks, then mustDestroy,
\* which disposes the events queue, or retries later if a snapshot job is not
\* complete.
DoDestroy ==
    /\ nextJob("destroy")
    /\ registered' = FALSE
    /\ answerPending("shardNotFound")
    /\ jobs' = Tail(jobs)
    /\ CASE ~live -> UNCHANGED <<disposed, destroying>>
         [] live /\ isApplyingSnapshot -> destroying' = "retry" /\ UNCHANGED disposed
         [] live /\ ~isApplyingSnapshot -> destroying' = "worker" /\ disposed' = TRUE
    /\ UNCHANGED <<raftVars, loopVars, psVars, results, dApplied, dEpoch, data, live,
                   stopped, gcs, submitted, snapFails, fatal>>

\* mustDestroy again, on the timer, once the snapshot job is complete.
RetryMustDestroy ==
    /\ destroying = "retry" /\ ~isApplyingSnapshot
    /\ destroying' = "timer" /\ disposed' = TRUE
    /\ UNCHANGED <<raftVars, loopVars, psVars, jobs, results, delegateVars, live,
                   stopped, gcs, clientVars, snapFails, fatal>>

\* The end of mustDestroy: removePR.
RemovePR ==
    /\ destroying \in {"worker", "timer"}
    /\ destroying' = "no" /\ live' = FALSE
    /\ UNCHANGED <<raftVars, loopVars, psVars, jobs, results, delegateVars, disposed,
                   stopped, gcs, clientVars, snapFails, fatal>>

----------------------------------------------------------------------------
Loop ==
    \/ LoopStart
    \/ LoopStop
    \/ HandleApplyResult
    \/ HandleRequest
    \/ ProposeRefused
    \/ ProposeForwarded
    \/ ProposeAppended
    \/ SkipReady
    \/ SnapshotReady
    \/ HandleReady

Worker ==
    \/ DoRegistrationJob
    \/ DoPropose
    \/ DoApplyCommittedEntries
    \/ DoApplyingSnapshotJob
    \/ DoDestroy
    \/ RetryMustDestroy
    \/ RemovePR

Group ==
    /\ GroupNext
    /\ UNCHANGED <<loopVars, psVars, jobs, results, delegateVars, lifeVars, clientVars,
                   snapFails, fatal>>

Next ==
    \/ \E c \in Cmds : Submit(c)
    \/ Loop
    \/ HandleStep
    \/ Worker
    \/ HandleGCPeerMsg
    \/ Group

Spec == Init /\ [][Next]_vars

----------------------------------------------------------------------------
(* Properties.                                                             *)

\* Where a command occurs among the writes the group has executed.
executed(c) == {i \in DOMAIN shardAt(gcommit).data : shardAt(gcommit).data[i] = c}

\* A callback is invoked at most once, whoever answers it: the event worker
\* (cmd.resp in propose, the stop branch of handleEvent), the delegate
\* (applyEntry, findCB, clearAllCommandsAsStale) or its destruction.
AtMostOneReply == \A c \in Cmds : Len(replies[c]) <= 1

\* The commands that the propose jobs of a queue carry.
proposed(s) == {s[i].cmd : i \in {k \in DOMAIN s : s[k].kind = "propose"}}

\* No command is twice in the queue, in the batch, in a job or in the list.
NoneTwice ==
    /\ \A i, j \in DOMAIN requests : requests[i] = requests[j] => i = j
    /\ \A i, j \in DOMAIN batch : batch[i].cmd = batch[j].cmd => i = j
    /\ \A i, j \in DOMAIN jobs :
          (jobs[i].kind = "propose" /\ jobs[j].kind = "propose"
           /\ jobs[i].cmd = jobs[j].cmd) => i = j
    /\ \A i, j \in DOMAIN pending : pending[i].cmd = pending[j].cmd => i = j

\* Nor in two of them.
NoneInTwo ==
    /\ ToSet(requests) \cap cmdsOf(batch) = {}
    /\ ToSet(requests) \cap proposed(jobs) = {}
    /\ ToSet(requests) \cap cmdsOf(pending) = {}
    /\ cmdsOf(batch) \cap proposed(jobs) = {}
    /\ cmdsOf(batch) \cap cmdsOf(pending) = {}
    /\ proposed(jobs) \cap cmdsOf(pending) = {}

\* The commands whose callback this replica still holds.
held == ToSet(requests) \cup cmdsOf(batch) \cup proposed(jobs) \cup cmdsOf(pending)

\* At every moment exactly one of the queue, the batch, the apply worker and
\* the delegate is responsible for a callback: it moves between them without
\* being copied, and whoever invokes it lets go of it.
OneHome ==
    /\ NoneTwice
    /\ NoneInTwo
    /\ held \subseteq submitted
    /\ \A c \in Cmds : (c \in held \/ c \notin submitted) => replies[c] = <<>>

\* A command answered with success is in the agreed log and executed exactly
\* once, in spite of leader changes, snapshots and re-registration.
OkMeansExecutedOnce ==
    \A c \in Cmds : "ok" \in ToSet(replies[c]) =>
        \E i \in DOMAIN shardAt(gcommit).data : executed(c) = {i}

\* A command that was definitely refused (stale epoch at apply, rejected by
\* raft, or never taken by the store) is never executed by any replica.
RefusedNeverExecuted ==
    \A c \in Cmds : ToSet(replies[c]) \cap {"epoch", "rejected", "storeNotMatch"} # {}
        => executed(c) = {}

\* No snapshot failed to apply, or one was applied since: the job that succeeds
\* lets raft tick again.
intact == snapFails = 0 \/ ~stopRaftTick

\* Between registrations the replica's data and epoch are those of the agreed
\* log up to the applied index of its delegate: no entry is skipped, applied
\* twice or out of order, across snapshots, unless the last one failed.
DataMatchesLog ==
    (/\ registered /\ intact
     /\ \A i \in DOMAIN jobs : jobs[i].kind # "register")
    => /\ dApplied <= gcommit
       /\ shardAt(dApplied) = [epoch |-> dEpoch, data |-> data]

\* Neither Fatalf of the pipeline is reached: applyCommittedEntries finds the
\* index it expects, and doPostApply runs with no snapshot being applied.
NoFatal == ~fatal

\* The callback of a proposal is filed before its entry can be applied: the
\* job that files it is never behind a job that executes the command.
FiledBeforeApplied ==
    \A i \in DOMAIN jobs : jobs[i].kind = "propose" =>
        /\ jobs[i].cmd \notin ToSet(data)
        /\ \A j \in 1 .. i - 1 :
              /\ jobs[j].kind = "apply" => jobs[i].cmd \notin cmdsOf(jobs[j].entries)
              /\ jobs[j].kind = "snapshot" => jobs[i].cmd \notin ToSet(jobs[j].shard.data)

\* A callback is filed under the term its entry was appended in, although
\* propose takes that term from the status cached when the round started.
FiledUnderItsTerm ==
    \A i \in DOMAIN rlog :
        /\ \A j \in DOMAIN pending :
              pending[j].cmd = rlog[i].cmd => pending[j].term = rlog[i].term
        /\ \A j \in DOMAIN jobs :
              (jobs[j].kind = "propose" /\ jobs[j].cmd = rlog[i].cmd) =>
                  jobs[j].term = rlog[i].term

\* The delegate never goes back: no step, a registration after a snapshot
\* included, makes it expect an entry it already applied.
AppliedNeverGoesBack == [][dApplied' >= dApplied]_dApplied

----------------------------------------------------------------------------
(* Fairness.  The event worker visits the replica again and again          *)
(* (runPRTask, on a ticker), the apply worker takes jobs as they come; raft *)
(* elects a leader when there is none, commits, and its messages arrive.   *)

NoLeader == gterm = 0 \/ (gself /\ role # "leader") \/ rterm > gterm

CatchUp ==
    /\ HandleStep
    /\ FollowLeader
    /\ rcommit' = gcommit /\ IsPrefix(glog, rlog')

Fairness ==
    /\ WF_vars(Loop)
    /\ WF_vars(Worker)
    /\ WF_vars(Group /\ NoLeader /\ OtherElected)
    /\ WF_vars(Group /\ GroupCommit)
    /\ WF_vars(Group /\ SnapshotFileArrives)
    /\ SF_vars(CatchUp)
    /\ SF_vars(HandleStep /\ LearnCommit)

FairSpec == Spec /\ Fairness

\* The one state handleReady never leaves: a snapshot waits for entries that
\* were saved as committed but never given to the apply worker, because the
\* delegate was not registered yet or an earlier snapshot came first.
SnapshotBlocked == snapPend # 0 /\ psCommit > lastReady

\* Every command that was submitted is answered: no request stays in a queue,
\* a batch or the pending list for ever, whatever happens to leadership.
EveryCommandAnswered ==
    \A c \in Cmds \ Splits :
        c \in submitted ~> (replies[c] # <<>> \/ SnapshotBlocked)

\* A snapshot that arrived is handled, unless it is blocked for good.
SnapshotHandled == snapPend # 0 ~> (snapPend = 0 \/ SnapshotBlocked)
=============================================================================
