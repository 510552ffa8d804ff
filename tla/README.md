# matrixcube in TLA+

This directory is a verification project for matrixcube, a Go library for building strongly
consistent multi-raft stores. It holds TLA+ modules translated from the Go source, TLC
configurations that check them on small instances, and TLAPS proofs of the results that matter
most. Paths are relative to the repository root, `src/`. `PROJECT.json` lists, for machines, what
this file explains: the components, the runs, the source lines behind every definition, the
hazards of the code and the theorems.

## 1. The system

A *store* holds replicas of *shards*; the replicas of one shard form a raft group. An embedded
scheduler, the *prophet*, runs on some of the stores, elects a leader through etcd leases and
tells shards where to have replicas, when to split, and hands out pre-created shards.

| component | state it keeps | operations | interacts by |
|---|---|---|---|
| replica event loop (`raftstore/peer_event_loop.go`, `peer_replica.go`) | queues of requests, raft messages, ticks, apply results; cached leader and term | `handleEvent`: cache status, step raft, take apply results, propose, handle Ready; stop branch | called by `runPRTask` of an event worker; queues filled by any thread |
| proposals (`peer_event_proposal.go`, `batch.go`, `cmd.go`) | the batch of commands with their callbacks | `handleRequest`, `propose`, `proposeNormal`, the conf-change and leader-transfer variants, read index | calls `RawNode.Propose`, queues jobs, invokes callbacks |
| raft Ready (`peer_event_raft_ready.go`) | `lastReadyIndex`, hard state, `stopRaftTick` | append, save, send, schedule committed entries, start a snapshot | queues jobs for the apply worker |
| apply worker (`peer_apply.go`, `peer_apply_exec.go`, `peer_job.go`) | one `applyDelegate` per shard: pending callbacks, applied index, shard | registration, filing callbacks, applying entries, applying a snapshot, destroying | results queue back to the event loop; invokes callbacks |
| post-apply (`peer_event_post_apply.go`) | the replica's copy of applied index and shard | `doPostApply`, splits, conf changes, log compaction | runs on the event worker |
| store (`store.go`, `store_handler.go`) | map of replicas, map of delegates, key ranges, workers | route requests and raft messages, create and destroy replicas, check shard state | timers and network threads |
| peer storage, snapshots (`peer_storage.go`, `snap.go`, `snapshot/`) | raft log, local and apply state, snapshot files | save, load, generate and receive snapshots | disk; transport |
| shards pool (`store_shards_pool.go`) | per-group pools of idle shards, kept in the prophet's storage | `Alloc`, `maybeCreate`, `gcAllocating` | a job of the prophet leader |
| router, prophet adapter (`router.go`, `prophet_adapter.go`) | shard routes, heartbeats | follow events, report, execute operators | prophet client |
| server and proxy (`server/`, `proxy/`) | in-flight requests, backends | dispatch, complete, time out, retry | callbacks of the store |
| prophet (`components/prophet/`) | leader lease, members, cluster metadata, operators, jobs | election loop, heartbeats, schedulers, job start and stop | etcd, client RPCs |
| raft library (`vendor/`) | term, vote, log, commit | `Step`, `Tick`, `Propose`, `Ready` | external to this project |

**What is hard about it.** A replica is shared by two threads that meet only through queues: the
event worker decides on leadership it cached at the start of the round, and the apply worker acts
on jobs queued some time ago. A command's callback and its log entry travel by different roads and
must meet. Leadership moves, logs are cut, a snapshot replaces everything at once, a delegate is
overwritten, a replica is destroyed while requests are queued. Section 7 says what each component
would have to satisfy, and the hazards in `PROJECT.json` name the lines where things can go wrong.

## 2. Modules

```
ApplyRules <- RaftGroup <- ReplicaPipeline <- MCReplicaPipeline            (TLC)
                                           <- ReplicaPipelineProofs <- PipelineLogProofs (TLAPS)
                                           <- ReplicaReads <- MCReplicaReads            (TLC)
ReplicaReads, PipelineLogProofs <- ReplicaReadsProofs                      (TLAPS)
LeaderKey  <= Leadership  <- MCLeadership                                  (TLC; <= is refinement)
                          <- LeadershipProofs                              (TLAPS)
           <- ShardsPool  <- MCShardsPool (TLC), ShardsPoolProofs (TLAPS)
IdAllocator <- MCIdAllocator (TLC), IdAllocatorProofs (TLAPS)
PeerStorage <- MCPeerStorage (TLC), PeerStorageProofs (TLAPS)
RequestPath <- MCRequestPath (TLC), RequestPathProofs (TLAPS)
```

**`ApplyRules`** is what applying a committed entry does to a shard: `checkEpoch`, and
`doApplyRaftCMD` with the two kinds of command the pipeline distinguishes, a write
(`execWriteRequest`) and a `BatchSplit` (`doExecSplit`), which moves the epoch's Version. A shard
is its Version and the sequence of writes executed on it; what a write handler computes from them
is the application's business.

**`RaftGroup`** stands for the external raft library and for the other replicas. This replica's
`RawNode` has a role, a term, the leader it knows, a log and a commit index, and perhaps an
unhandled snapshot. The others are summarised by the log of the newest leader, by how much of it is
agreed (`gcommit`), and by the shard after each agreed entry. The actions are what the
code can observe: campaigns, elections, stepping down, appends that may cut the log, late news of
commits, forwarded proposals, a snapshot whose file arrives before or after its message. Raft's own safety
is assumed: whoever is elected has every agreed entry. Messages are lost and delayed because
no action has to happen.

**`ReplicaPipeline`** is the replica itself. Its variables carry the names of the fields they
model. One round of `handleEvent` is split exactly where the other thread can get in between:

| action | code |
|---|---|
| `Submit` | `onRequestWithCB`, `addRequest` |
| `LoopStart`, `LoopStop` | entry of `handleEvent` with `cacheRaftStatus`; its stop branch |
| `HandleStep` | `handleStep`, `handleTick`: any number of raft steps |
| `HandleApplyResult` | `handleApplyResult`, `doPollApply`, `doPostApply`, the epoch part of `doApplySplit` |
| `HandleRequest` | first loop of `handleRequest`, `proposeBatch.push` |
| `ProposeRefused`, `ProposeForwarded`, `ProposeAppended` | the outcomes of `propose` and `proposeNormal` |
| `SkipReady`, `SnapshotReady`, `HandleReady` | the early returns and the two kinds of `handleReady` |
| `DoRegistrationJob`, `DoPropose`, `DoApplyCommittedEntries`, `DoApplyingSnapshotJob`, `DoDestroy` | the jobs of the apply worker, in queue order; entries one at a time |
| `HandleGCPeerMsg`, `RetryMustDestroy`, `RemovePR` | the way a replica is destroyed |

`findCB` and `popPendingCMD` are loops that pop callbacks; the model says how many (`n`) they pop
and what is left. `fatal` becomes true where the code calls `logger.Fatalf` for a condition the
model can decide. Callbacks are histories: `replies[c]` is everything the callback of `c` was told.

Abstractions, and why they lose nothing the properties can see. Requests that share a log entry
share its fate, so a batch entry is one command. Splits come as admin requests without a callback
(`onAdmin`). Log indexes are positions in the log; compaction only moves
the origin. Writing the log is part of the step that causes it: no crash happens here, and what a crash
leaves is the subject of `PeerStorage`.
`doApplyReads` also answers what is left in the batch when leadership was lost, but `handleRequest`
drains the batch before `handleReady` runs in the same round, so that branch has nothing to answer.
A destroyed replica's data is deleted later by a job of its own; nothing here reads it.

**`ReplicaReads`** composes the pipeline with reads. Every action of `ReplicaPipeline` is taken together
with what it does to the reads, and the read path adds its own state: the replica's queue
(`pendingReads`, `readyToRead`), the terms `readyToHandleRead` compares, the previous SoftState, and of
raft the `readOnly` queue, the ReadStates for the next Ready and the messages of the read index protocol.

| action | code |
|---|---|
| `SubmitRead`, `RequestWithReads` | `onReq`, `handleRequest` |
| `ReadRefused`, `ReadForwarded`, `ReadAccepted` | `propose` and the outcomes of `execReadIndex` |
| `ReadyWithReads`, `SnapshotReadyWithReads` | `handleRaftReadyApply` with `doApplyReads`: `ready`, `doReadLEAppliedIndex`, and the answers when leadership is lost |
| `ApplyResultWithReads`, `ApplyWithReads` | `doPostApply` with `maybeExecRead`; `applyEntry`, which moves `appliedIndexTerm` |
| `StopWithReads` | the stop branch, which leaves the pending reads alone |
| `SendReadAck`, `RecvReadAck`, `AnswerForwarded`, `RecvReadIndexResp`, `StepWithReads`, `GroupWithReads` | raft (external) |

`told` is how much of the log some client may know to be written: what this replica answered, and what
any other leader may have answered once it was agreed. A read notes it on entry (`toldAt`) and the data
it saw on execution (`readSeen`).

**`PeerStorage`** is what one replica has on disk. `metas` and `datas` are the versions of the
metadata and of the data storage that a crash may leave, the current one last; a synced write
drops the older ones. The event worker saves a Ready (`HandleReady`, `SnapshotReady`) and takes over
apply results (`PostApply`, with the division of `doApplyCompactRaftLog`); the apply worker registers
the delegate, applies an entry in two writes (`ApplyData`, `ApplyMeta`) or one (`ApplyEmpty`), deletes
the log (`CompactRaftLog`) and applies a snapshot in four steps (`SnapshotRemove`, `SnapshotInstall`,
`SnapshotClean`, `SnapshotDone`), or fails: without the file (`SnapshotMissing`), or with it (`SnapshotFails`:
`UnGZIP`, `ApplySnapshot` or the custom function return an error, some of the data is there, and the deferred
`CleanSnap` deletes the file). Files are received early, late or once more (`ReceiveFile`) and collected when
they are old (`GCFile`). `pendingSnap` is the snapshot raft has accepted and not handed out (`RecvSnapshot`): as
long as there is one, `handleReady` handles nothing but that snapshot, and only when everything committed is
applied. The Ready of a snapshot may carry entries, and a commit index, beyond it. `Crash` keeps, of each storage on its own,
some version; `Restart` is `startShards` with `newPeerStorage` and `raft.NewRawNode`. The log the group agrees on is chosen at the start; entries the
replica appends beyond it are lost later. `snapshotLost` is a history: the job of a snapshot failed, or a crash
took the unsynced data of one whose file was deleted, and no snapshot of the applied index was installed since.

**`RequestPath`** follows a library call: `AsyncExec` keeps the callback (`libaryCB`) and a timer, the
proxy sends copies of the request to the local store or through a backend connection, sends a refused one
again (`retryWithRaftError`, `DoRetry`), and the reply, an error or the timeout invokes the callback.
Looking a callback up and invoking it are two steps (`found`, `Respond`), because
`done`, `doneError` and `execTimeout` are not atomic. A store answers, refuses, refuses although the
command took effect, or forgets: what `ReplicaPipeline` shows it can do. `failing` are the calls whose request was
released to the pool before it was used for the last time.

**`Leadership`** is the prophet's election (`components/prophet/election`, `member`,
`prophet_leader.go`). Each node runs `ElectionLoop`, whose place is `pc`: read the leader key, then resign a leftover of its own,
watch another leader, or campaign (lease grant, transaction on the key, `becomeLeader`, the loop that
ends with the lease). The lease exists twice: in etcd (`lease`) and as the node's `expireTime`
(`mine`); both are counted in ticks left. `calls` are the lease requests under way, each with the
time left since it was sent, so an answer may be late, lost or out of order. `Serving` is what
`handleRPCRequest` asks: the cluster runs and `IsLeader` holds. `running` is the cluster and the
jobs, which `enableLeader` starts if they are not running and `disableLeader` stops only when another
leader was seen.
etcd is external: a transaction or a lease request is atomic, and the node may not hear of it.

| action | code |
|---|---|
| `ReadLeader`, `WatchEnds` | `ElectionLoop` with `CurrentLeader`, `becomeFollower`, `watch` |
| `Resign` | `resign`, with a lost answer |
| `Campaign`, `Grant`, `GrantFails` | `checkExpectLeader`, `campaign` up to `grant` |
| `PutKey`, `PutFails` | the transaction on the leader key; `Close` of the lease |
| `Enable`, `EnableFails` | `Member.enableLeader`, `defaultProphet.enableLeader` |
| `StepDown` | the end of `campaign`: expired lease, other etcd leader, closed context |
| `KeepAlive`, `Renew`, `Renewed`, `KeepAliveFails` | `keepAliveWorker`, etcd, `keepAlive` with `maxExpire` |
| `Restart`, `Tick`, `Expire` | a restart of the process, time, etcd |

**`LeaderKey`** is the promise: three variables, the owner of the key, who serves, who runs a
cluster. Only the owner serves; the key leaves an owner only when it does not serve; and it says
plainly that a former leader's work may go on. Code that runs on a leader is
specified over `LeaderKey` and not over leases and clocks.

**`ShardsPool`** is such code: the job of `store_shards_pool.go` on every node, the creation of
resources it asks the prophet for, and the heartbeat that registers one. `stored`, `disk` and `live`
are in etcd; `pool`, `job`, `started`, `call`, `waiting`, `cached`, `completing` and `saving` in the memory of each node.
`created` are the shards whose replicas may send heartbeats, whether or not their resource is still stored.

| action | code |
|---|---|
| `Win`, `BeginLeader`, `BeginFails` | a campaign won; `enableLeader` with `createRaftCluster` |
| `StartJob`, `StartAgain`, `StartFails` | `Start`, also when the job still runs |
| `FollowLeader`, `StopJob` | `disableLeader`; the goroutine of `stopJobs`, which a new `startJobs` waits for |
| `MaybeCreate`, `CreateSave` | `maybeCreate` before and after its blocking call |
| `CreateKnown`, `CreateCheck`, `CreatePut`, `CreateFails` | `HandleCreateResources` on whoever leads |
| `CreateRetry`, `CreateTimeout` | the prophet client |
| `HeartbeatNew`, `HeartbeatPut`, `HeartbeatSave` | `processResourceHeartbeat`, which takes a shard from one table, puts it in the other and removes from etcd what it replaces there, and saves it after the lock; each write may fail on its own |
| `AllocRecorded`, `Alloc`, `AllocMissing`, `GcAllocating` | `doAllocLocked` with its `Fatalf`, `gcAllocating` |

A save is executed only if the node owns the leader key (`DoIfLeader` semantics of `etcdKV.Save`), may fail,
and may be executed without the node hearing of it. `behind` and `clobbered` are histories: a node that
kept its pool while another one saved, or while another one loaded an allocation that this node has taken
back after a save that failed and was executed (`tookBack`); and the save of such a node. `evicted` are the
numbers whose shard a heartbeat removed from etcd, until one is saved again.

**`IdAllocator`** is `AllocID` of `storage/kv_etcd.go`: a node takes a range from a counter in etcd by a transaction
that compares the leader key and the value it read, and hands the range out from memory without asking
again, even after it lost leadership.

## 3. Runs

The first four use `MCReplicaPipeline`. Sizes are distinct states; each run ends within four minutes.

| run | instance | properties | states |
|---|---|---|---|
| `Pipeline` | two writes, one foreign command, two terms, symmetric writes | `TypeOK`, `AtMostOneReply`, `OneHome`, `OkMeansExecutedOnce`, `NoFatal`, `FiledBeforeApplied` | 1.9 M |
| `Reelect` | one write, three terms | `FiledUnderItsTerm`, `AppliedNeverGoesBack` | 0.95 M |
| `Epochs` | a write and a split, one destroy message, one failing snapshot | `RefusedNeverExecuted`, `DataMatchesLog`, `AtMostOneReply`, `NoFatal` | 2.0 M |
| `Answered` | one write, fair scheduling | `EveryCommandAnswered`, `SnapshotHandled` | 47 k |
| `Election` (`MCLeadership`) | two candidates, leases of three ticks, two keep-alive requests under way | `TypeOK`, `ServingHoldsKey`, `TimeIsEtcds`, `AnswersNeverShorten`, `PromiseKept` | 0.2 M |
| `Ids` (`MCIdAllocator`) | three nodes, ranges of two ids, three ranges, symmetric nodes | `IdsDistinct`, `RangesOwned` | 8.9 k |
| `Reads` (`MCReplicaReads`) | two symmetric reads, one write, two terms, one failing snapshot | `ReadTypeOK`, `ReadSeesTold`, `QueuesAgree`, `OneReadReply` | 4.2 M |
| `ReadsAnswered` (`MCReplicaReads`) | one read, two terms, one destroy message, fair scheduling | `EveryReadAnswered` | 0.37 M |
| `ReadOrder` (`MCReplicaReads`) | two reads, two terms; a violation is expected | `UuidsMatch` | - |
| `Pool` (`MCShardsPool`) | two nodes, two purposes, two idle shards, two shards; up to three campaigns won, three heartbeats and one fault, not all at once | `TypeOK`, `GivenOnce`, `AnswerIsStored`, `CreatedBeforeCounted` | 3.4 M |
| `Requests` (`MCRequestPath`) | one call with a timeout, one without, one retry, one lost connection, fair scheduling | `TypeOK`, `NotSentTwice`, `EveryCallAnswered`, `CallbacksReleased` | 0.18 M |
| `Storage` (`MCPeerStorage`) | two logs of four entries, one snapshot file at a time, two crashes, fair scheduling | `TypeOK`, `NoFatal`, `ReadableLog`, `StableSurvives`, `DataMatches`, `CommittedIsApplied` | 0.41 M |

Between them they answer: is a callback invoked once; does success mean executed exactly once in
the agreed log; is a refused command really not executed, whichever thread refused it; do the data
and the epoch of the delegate always equal those of the agreed prefix it claims to have applied;
can a job reach the worker after the entry it prepares for; is a `Fatalf` reachable; does everybody
get an answer. Of the prophet: does a node whose clock and etcd's count from different moments ever
serve without the leader key; is an id ever given twice; can two purposes get the same shard, and can an
answer be forgotten. Of reads: are they linearizable, is each answered, once. Of a call: is its callback
invoked, and can the proxy make a command happen twice. Of the disk: whatever a crash leaves of the two storages, can the
replica start, does it hold what it acknowledged, and is its data that of its applied index.

**Exceptions.** Some properties name a state they do not cover; in each case the code does lose something
there, and the exception is stated as narrowly as the runs allow.

* `DataMatchesLog` excepts a replica whose last snapshot failed to apply (`intact`): `doApplyingSnapshotJob` moves its
  indexes all the same. The exception ends with the next snapshot that is applied.
* `ReadSeesTold` excepts reads executed in the Ready of a snapshot: the applied index is the snapshot's,
  and the data is still being replaced.
* `EveryReadAnswered` excepts a read whose ReadState was dropped, and those the stop branch forgets.
* `GivenOnce` and `AnswerIsStored` hold until a node that missed another leader's saves writes its own
  pool over them (`clobbered`). This happens: `disableLeader("")` stops nothing, and `Start` returns
  early when the job still runs.
* `CreatedBeforeCounted` excepts a number whose shard the heartbeat of a duplicate removed from etcd
  (`evicted`), until a shard of that number is saved.
* `DataMatches` excepts a replica whose snapshot job failed, with its file or without, and one that crashed
  after a snapshot's file was deleted and before its data (written without sync) was safe. The
  exception ends when a snapshot of the applied index is installed, and only then: such a replica goes on
  applying entries in state Applying, and the next restart may install an older file over them.
* `EveryCommandAnswered`, `SnapshotHandled` and `CommittedIsApplied` except a replica blocked by a pending
  snapshot (`SnapshotBlocked`, see below).
* `EveryCallAnswered` excepts a call whose callback was deleted by the failure of another, which used a
  request it had already released, and a call without a timeout whose request was lost.

**The finding.** `ReadOrder` violates the assertion of `readIndexQueue.ready`. A new leader commits the
first entry of its term, raft confirms a read and hands out its ReadState, but the entry is not applied
yet, so `doApplyReads` drops the ReadState and the read stays in the queue. The next read's ReadState then
meets the wrong read: `uuid not match`, and the store exits. Without a second read the first is never answered.

**Other observations**, met while modelling and kept in the models without a run of their own. A
replica that steps down in the round in which it proposes has its proposal forwarded by raft: the client is told
not-leader, and the command may be executed. An entry forwarded by another replica makes `findCB` answer
as stale callbacks whose entries follow. `handleReady` may save a commit index whose entries it did not
schedule; a snapshot that comes next waits for them for ever (`SnapshotBlocked`). Requests queued in a
replica when `mustDestroy` removes it are not answered unless an event worker passes in between. A
former leader that campaigns again has a lease without an expiry time, and a request that asks `IsLeader`
then panics. `doAllocLocked` ends the process when it looks for a shard that a
heartbeat has taken from one table and not yet put into the other (`AllocMissing`). A creation repeated after a
change of leader may make two shards for one number; their heartbeats replace each other, and if the save of the
last one fails, no resource of that number is stored: the next leader that loads the cluster counts the shard,
does not find it, and its allocation ends the process. A snapshot whose `Apply` fails is deleted, and the
replica goes on in state Applying, with the entries after the snapshot applied to incomplete data; if the log is then
compacted to the index of another received file, a restart installs that older snapshot over newer data.

**Bounds.** `MaxTerm` bounds elections. Two terms are enough for losing leadership
with proposals under way, for cut logs and for forwarded proposals; three for leading twice
(`Reelect`). The last term is left to the other replicas so the bound never leaves the group
leaderless. Two writes are the least for order among callbacks to matter, and the foreign command for
entries without a callback. `MaxGC` and `MaxSnapFails` are one where the run is about them: each leads to a
state that a second occurrence leaves unchanged or repeats. Logs are finite because terms and commands are.
For the election, two nodes are the least for a successor, `TTL` = 3 the least for an answer that
is two ticks older than another, and `MaxCalls` = 2 the least for answers to change places; three ranges (`MaxID`) let a node
come back to the counter after another did.
`IgnoreEpoch` is empty in the runs: such a write only skips `checkEpoch`, and the proofs cover every choice.
Two reads are the least for the order of ReadStates, and the write gives them something to miss; one read,
three terms and two failing snapshots were checked offline (29 M states).
For the pool, three campaigns let a node lead, miss another leader and lead again, and two shards let an allocation follow another;
three heartbeats and two campaigns let duplicates evict each other until none is stored. `MaxEvents` keeps the two
stories apart: it allows three campaigns with one heartbeat or fault, and two campaigns with three. Three campaigns with one heartbeat and one
fault (8.7 M states), and two with three heartbeats and one fault (3.4 M), were checked
offline, with the same result. `Storage` has two logs with writes, empty entries and a compaction in different orders,
two crashes, so that what a restart does can be interrupted too, and `MaxAppend` = 2 so that a Ready
appends more than it commits. `MaxFiles` = 1 lets a file be received, lost and followed by one of any other index; a third log with the
liveness property (0.64 M states), and three logs with any number of files (2.15 M, invariants only), were
checked offline.
In `Requests`, one retry and one lost connection reach every place a copy can be, and two calls are the
least for one to take over the other's released request.
`Epochs`, `Reads`, `ReadOrder` and `ReadsAnswered` turn off the deadlock check because a destroyed replica, or a process that died in an assertion, really
stops; `Pool`, `Requests` and `Storage` because everything asked for may be done.

**Fairness** (`FairSpec`). The event worker visits its replicas on a ticker (`runPRTask`) and the
apply worker takes jobs as long as there are any: weak fairness on `Loop` and `Worker`. Of raft we
ask what a working majority gives: a leader is elected when there is none, agreed entries make
progress, a snapshot's chunks arrive (weak fairness), and a replica that is stepped
again and again learns the leader's log and commit (strong fairness, because `HandleStep` is
possible only at one place of the round). Nothing is asked of elections of this replica, of
clients, or of destruction.

`FairReadSpec` asks the same of the composed system, and that heartbeats carry reads to a quorum and back
while the replica leads. `RequestPath` assumes that goroutines go on, timers fire and `StopAt` passes; nothing is asked of clients or connections.
`PeerStorage` assumes that both workers go on, that a store that is down is started again, and that a
Ready with committed entries is handled, which `HasReadySince(lastReadyIndex)` provides; `HandleCommitted` is
not possible while raft has a pending snapshot, so that nothing is asked of it then, and that a pending
snapshot is handed out is not asked at all.

`EveryCommandAnswered` and `SnapshotHandled` except one state, `SnapshotBlocked`, described above; that
the exception is exactly this state is what the `Answered` run adds. `CommittedIsApplied` excepts the
same state of `PeerStorage`.

Every property has a mutant in `PROJECT.json`: a plausible bug (a list not emptied, a dropped
check, a job put in front of the queue, an index not handed over) under which TLC finds it violated.

## 4. Proofs

TLAPS proves for every set of commands and every bound, from the assumptions named in the modules
(`CommandsAssumption`: own, foreign and empty commands are distinct; `MaxTermAssumption`,
`BoundsAssumption`: bounds are naturals):

* `TypeCorrect` in `ReplicaPipelineProofs`: `Spec => []TypeOK`. `TypeOK` is not inductive: a job
  may take `SubSeq(rlog, lastReady + 1, rcommit)`, and `shardAt` indexes `gshards`, so that the
  result has its type only if these indexes lie inside the sequences. The strengthening `TypeInv`
  adds `RaftInv`: `gshards` has length `gcommit`, `gcommit` is within `glog`, `rcommit` within `rlog`,
  a pending snapshot at or
  below the agreed index, and a leader's log at least as long as the one it announced.
* `CallbackHasOneHome`: `Spec => []OneHome`. A callback is in exactly one of the
  request queue, the batch, a propose job, the delegate's list, and while it is held it was not
  invoked.
* `RepliedAtMostOnce`: `Spec => []AtMostOneReply`. By itself it is not inductive (any step that
  answers needs to know there was no answer before); `ReplyInv`, the conjunction with `TypeInv` and
  `OneHome`, is. The proof has one lemma per action that moves or invokes callbacks, and the facts
  about sequences without repetition (what `Head`, `Tail`, `Append`, `SubSeq` and concatenation leave
  in and take out) are lemmas of their own.

* `CallbackHasEntrysTerm`, `PipelineNeverFatal`, `DelegateNeverGoesBack`, `ReplicaMatchesLog`,
  `CallbackFiledFirst`, `OkIsExecutedOnce` and `RefusedIsNeverExecuted` in `PipelineLogProofs`: the other
  properties of `ReplicaPipeline`, `[]FiledUnderItsTerm`, `[]NoFatal`, `AppliedNeverGoesBack`,
  `[]DataMatchesLog`, `[]FiledBeforeApplied`, `[]OkMeansExecutedOnce`, `[]RefusedNeverExecuted`. None is
  inductive; `PipelineInv` is, and has five parts.
  `LogsInv` is about the two logs: what the replica holds as committed is chosen (`LogInv`); a command is at
  one index of the logs at most, and not at all while it waits, is forwarded or was turned away
  (`OnceInv`); the cached term of a round that still takes itself for leader is raft's (`TermInv`), hence a
  callback has the term of its entry (`FiledInv`).
  `HistoryInv` is about the shards of the group: each holds a command once and only if an entry of it passed the
  epoch check, and the writes of one are the first writes of the next.
  `PlanInv` is about the queue of the apply worker: there is a function `h` over the queue that says how many
  entries were given out when each job was queued (`Plan`). An apply job continues at `h`, a registration carries
  `h`, a snapshot may jump; the end of the queue is `lastReadyIndex`, and the delegate stands at its start.
  Nothing but the apply jobs may follow entries, which is why `SnapshotReady` has to wait for
  `isApplyComplete`: then nothing is queued, no result is pending, and the proof of `NoFatal` closes. The entry of
  a queued proposal lies beyond `h` of its job (`Ahead`).
  `ToldInv` says of what entry every "ok" and every "epoch" is the verdict. `SnapshotInv`: at most one snapshot
  is queued, and while one is, the replica follows with its tick stopped. Together with the plan it
  says when the data are those of the log: `intact`, no snapshot failed or another one succeeded since.

* `ReadsRefinePipeline` in `ReplicaReadsProofs`: `ReadSpec => Spec`. Every step of the replica with reads is a step of
  the pipeline or leaves it alone, so that `PipelineInv`, and every theorem above, hold of `ReplicaReads`.
* `ReadTypes` and `ReadAnsweredOnce`: `[]ReadTypeOK` and `[]OneReadReply`. The invariant `QueueInv` is that a read waits in one place
  of one queue and has no answer while it does (`HomesInv`), and that the confirmed reads, those with an index, are
  the first `readyToRead` of the queue (`IndexInv`); hence what `doReadLEAppliedIndex` executes leaves the
  queue, and `readyToRead` counts what is left.
* `QueuesStayInOrder`: `[]QueuesAgree`. A read raft has heard of never comes back (`GivenInv`). A new leader has
  both queues empty, which is not obvious: `becomeLeader` empties raft's, and the replica's is emptied by
  the Ready in which a former leader became follower or candidate; no replica gets from leader to leader without such a Ready, and no
  read is accepted before the next one (`RoundInv`). From then on `AgreeInv` is kept: it says there is an increasing function from
  what raft will report to the places of the replica's queue, and the lemmas about `Lists` and `selectAt` say that this is what
  `QueuesAgree` counts.
* `ReadsAreLinearizable`: `[]ReadSeesTold`, for any group, elections, reads, lost and late messages and failed snapshots. What clients know is
  chosen, and the leader the group follows has committed it or holds it from before its term (`KnownInv`);
  raft refuses reads before the first commit of its term, and terms do not decrease along the logs (`LogTermsInv`), so that the
  index it notes covers what was told; a leader that was deposed notes less, but no quorum acknowledges it for a
  read that came in after (`CoverInv`). The data the read sees are at least those of the applied index
  (`FreshInv`), and only grow (`GrowsInv`). After a snapshot that failed this is not so: `psApplied` has moved and the data have not. No read
  sees it, because of `TickInv`: such a replica has its tick stopped, follows, and has answered its reads or
  will before it applies anything. The whole invariant is `LinearInv`. `SeenInv` is the conclusion, for the reads answered before.

* `IdsNeverRepeat` and `RangesStayOwned` in `IdAllocatorProofs`: `[]IdsDistinct` and `[]RangesOwned`, for
  any nodes and batch. `RangesOwned` is most of the invariant; it is strengthened with types and with
  `Bounded`: a node's base is not beyond its end, and no id returned so far is above the counter, so that a
  new range holds only new ids.
* `ElectionTypes`, `TimeNeverExceedsLease` and `LeaderHoldsKey` in `LeadershipProofs`: `[]TypeOK`,
  `[]TimeIsEtcds`, `[]ServingHoldsKey`. The
  key never appears in what a serving node checks, so the invariant has to carry the clock argument:
  `TimeIsEtcds` says that the node's time is at most etcd's, also for an answer under way, and that a
  campaign that won owns the key while its lease lasts; `LoopInv` adds that a node takes itself for
  leader of a running cluster only in the last loop of `campaign`.
* `ElectionKeepsPromise`: `Spec => PromiseKept`, the refinement of `LeaderKey`, with one lemma per action
  that says what the step is there; it uses the same invariant (time running out ends the term of
  one server, because there is one).
* `LateAnswersHarmless`: `Spec => AnswersNeverShorten`.
* `PathTypes` and `ProxyNeverRepeats` in `RequestPathProofs`: `[]TypeOK` and `[]NotSentTwice`. The invariant
  says that a request has one copy under way (`OneCopy`), and that only one which came back with its result
  has an effect that no refusal accounts for (`EffectsOfCopies`).
* `PoolTypes`, `CountedShardsExist`, `ShardsGivenOnce` and `AnswersStored` in `ShardsPoolProofs`: the four
  invariants of the run, for any nodes, purposes, capacity and faults. `CallInv` says that the pool does not
  change while `maybeCreate` waits and that one request is under way for it; `DiskInv` that for whatever a node has
  in memory, or is about to save, and for every shard ever created, a shard of that number is stored as a resource or was evicted; `IdInv` that two shards anywhere in the system with
  one id are the same; `AnswerInv`, until a save is `clobbered`, that a started node which is not `behind`
  knows of every allocation that was recorded or answered, with its offset past them, and that etcd does,
  too. The last one needs `behind` to say exactly when a node may miss an answer.
* `StorageTypes`, `StorageNeverFatal`, `LogStaysReadable`, `StableEntriesSurvive` and `DataFollowsLog` in
  `PeerStorageProofs`: the five invariants of `Storage`, for every log and any number of crashes. The
  properties speak of the current version of each storage and a crash may bring back an older one, so
  `VersionsInv` says of every version that its indexes are in order, its log readable and complete, and
  that it has the same writes applied as the current one. `QueueInv` says what the jobs in the queue will do
  to the state on disk: a function `f` over the queue (`hasPlan`) gives the applied index after each job,
  from the one on disk to `lastReadyIndex`; it makes `indexMatches` hold when a job's turn comes.
  `ViewInv` leads from the event worker's apply state over the queued results to the disk, so that a deletion
  never passes the former. `NormalInv` and `ApplyingInv` relate the data storage to the metadata: of every
  version in state normal, and of a snapshot step by step; while a snapshot job is queued, a crash brings back no other
  applied or truncated index. `PendingInv` says that raft's pending snapshot is beyond the commit index, so that
  taking it over loses nothing that was committed.

These rest on `LeadershipAssumption` and `IdAssumption` (`NoNode` is no node, the lease time and the batch are
positive), on the bounds of the other modules being naturals and the logs of `PeerStorage` compacting only
before the entry that asks for it (`LogsAssumption`), and on what `Leadership` assumes of the world: local
clocks and etcd's run at the same speed, and a request a node gave up on takes effect before its next one or never.

**What the proofs changed.** `DataMatchesLog` used to except every replica on which a snapshot had ever failed; the
proof that reads are linearizable needed more and showed that more holds: the exception ends with the next snapshot
that is applied (`intact`). Two attempts failed for a reason: the properties were true of the instance and
not of the model. In `ShardsPool` a node that takes an allocation back after a save that was executed
keeps a pool without it, while another leader loads the pool with it; with one idle shard this could not
happen, and with two it showed that `behind` missed a case. In `PeerStorage` a replica that lost a snapshot goes
on in state Applying, and a compaction may move its truncated index to one whose file was received and never
used; a later restart installs that file over newer data, which the history took for a repair. It
needed a log of five entries, and the run has logs of four. Both histories were corrected (`tookBack`,
`SnapshotInstall`), and `Pool` now has two idle shards.

**Only model-checked.** Liveness and everything under fairness, which this prover does not do.
`UuidsMatch` is violated, see the finding.
What `Min` and the folds of the community modules compute is used through lemmas that hold for every
set (`MinOf`, from the well-ordering of the naturals); an induction over the data itself is not within this prover's reach.

## 5. What is not modelled, and why

* Conf changes and learners, and the replicas a split or a message creates: they need several replicas
  or several shards on a store, where `RaftGroup` summarises the others.
* The clearing of a destroyed replica's data and its tombstone, `DisableSync`, and data storages that are
  not key-value stores, in `PeerStorage`.
* Broadcasts and the session path of the application server, the router, the pools of responses.
* Of the prophet: heartbeats of known resources, operators, schedulers, watchers. The pool is modelled
  with one group; a save that etcd executes after the node gave up and went on is not modelled.
* Races seen while reading and not modelled: `handleExecuteJob` reads the running jobs without their
  lock; `HandleCreateResources` checks and adds under a read lock; `proxy.done` releases a response
  `onLocalResp` releases again; a broadcast's context is recycled while late answers may refer to it; an error of
  the local handler is answered without type and message, which the proxy takes for success; the tombstone of a
  destroyed replica is written without sync; the stop branch of `handleEvent` puts the request it refuses into the
  answer and releases it at once, while the answer to a remote store is encoded later (`rpc.go:38`), so that it may
  name a request that was reset or used again. For the caller the first is what `Forget` models, a request nobody has any
  more; the second is left out, and `NotSentTwice` is about refusals that name the request they refuse.
* Errors that only a store that is shutting down returns: `startProposeJob` in `propose`, and `clearExtraData`
  in the Ready of a snapshot.
* A heartbeat's look at the known resources before it takes the lock is joined with what it does under the lock; in
  between, another heartbeat of the same shard could put it, and the only effect is one more save.
* In the election, `ChangeLeaderTo`, which no code of the repository calls, and `lockIfBecomeLeader`, which the
  prophet does not set.

Storage engines, encodings, metrics, configuration and generated code have no protocol
state worth modelling. The data race of `handleShardStateCheck`, which destroys a replica from a
timer goroutine while the apply worker uses the same delegate, needs a third thread in `DoDestroy`.
A replica that is not initialised is destroyed at once by `handleGCPeerMsg`; the modelled one is.

## 6. Plan

1. `ConfChange` and `SplitCreate`: several replicas, learners, tombstones, a message that creates a
   replica racing the split that creates it, and the job that clears its predecessor's data.
2. `PeerStorage` with destruction, and as a refinement of the atomic step `ReplicaPipeline` takes.
3. Broadcasts in `RequestPath`; the composition of its stores with `ReplicaPipeline`.
4. `Router`, prophet operators and heartbeats.

## 7. What makes each component correct

Event loop and proposals: every callback is invoked, once, and its answer is true. Apply worker:
the data is that of the agreed log. Ready handling: nothing committed is skipped, and a snapshot is
never applied over entries still under way. Destruction: no callback is lost and no thread touches a
removed delegate. Read index: reads are linearizable. Conf change: no two configurations decide
separately. Peer storage: a restart finds a state some prefix of the log explains. Shards pool: a
shard is given once, a purpose keeps its shard, the pool fills. Election: one leader per lease.
Server and proxy: a request completes once, with a reply to that request.

## 8. Running

`tlc -config Pipeline.cfg MCReplicaPipeline` (and likewise for the other configurations);
`tlapm ReplicaPipelineProofs.tla`, and likewise for `PipelineLogProofs`, `ReplicaReadsProofs`, `LeadershipProofs`,
`IdAllocatorProofs`, `RequestPathProofs`, `ShardsPoolProofs` and `PeerStorageProofs`.
