----------------------------- MODULE ShardsPool -----------------------------
(***************************************************************************)
(* The shards pool (raftstore/store_shards_pool.go), a job that runs on    *)
(* the prophet leader: it keeps shards created in advance and gives them   *)
(* out, at most one for a purpose.  The module puts the job, the creation  *)
(* of resources (HandleCreateResources) and their registration by a        *)
(* heartbeat (processResourceHeartbeat) on top of LeaderKey, which the     *)
(* election implements: etcd only accepts what the owner of the key        *)
(* writes, but the job of a former leader goes on until the node finds     *)
(* another one.  One group; its range prefixes are left out.               *)
(***************************************************************************)
EXTENDS LeaderKey, FiniteSets

CONSTANTS
    Purposes,   \* what shards are allocated for
    Capacity,   \* how many idle shards the pool keeps
    MaxSeq,     \* bound on the shards the pool asks for
    MaxID,      \* bound on the ids of shards
    MaxLeads,   \* bound on the campaigns won
    MaxBeats,   \* bound on the heartbeats of shards new to the leader
    MaxFaults,  \* bound on the errors of etcd, the timeouts and the restarts
    MaxEvents,  \* bound on all three together, a campaign counted twice
    NoShard     \* no shard

ASSUME PoolAssumption ==
    /\ NoNode \notin Nodes
    /\ {Capacity, MaxSeq, MaxID} \subseteq Nat \ {0}
    /\ {MaxLeads, MaxBeats, MaxFaults, MaxEvents} \subseteq Nat

\* A shard: its id and the number that makes it unique in the pool.
Shard == [id : 1 .. MaxID, seq : 1 .. MaxSeq]

ShardPool == [seq : 0 .. MaxSeq, offset : 0 .. MaxSeq,
              recs : SUBSET [purpose : Purposes, shard : Shard]]

VARIABLES
    \* in etcd
    stored,     \* the job's data
    disk,       \* the shards stored as resources
    live,       \* those of them stored as running
    created,    \* the shards that were ever stored: their replicas send heartbeats
                \* (external)
    lastID,     \* the last id AllocID returned
    \* on each node
    pool,       \* mu.pools
    elected,    \* the nodes that won a campaign and did not call enableLeader yet
    job,        \* off, starting (startJobs holds jobMu), on, stopping (stopJobs holds
                \* it) or restarting (startJobs waits for that)
    started,    \* the nodes with mu.state = 1
    call,       \* maybeCreate: idle, sent (waits for AsyncAddResources) or created
    waiting,    \* WaittingCreateResources
    cached,     \* Resources
    completing, \* the shard a heartbeat took from waiting, while it holds the lock
    saving,     \* the shards of the heartbeats that gave it back and did not save yet
    reqs,       \* the create requests on their way, or in HandleCreateResources
    leads,      \* how many campaigns were won
    beats,      \* how many shards were registered by a heartbeat
    faults,     \* how many faults happened
    \* histories
    given,      \* the allocations answered
    collected,  \* the allocations whose records gcAllocating dropped
    evicted,    \* the numbers of which a heartbeat removed the stored shard, and none
                \* was stored since
    behind,     \* the nodes that did not load the data since another node saved
                \* it, or since it loaded an allocation that they took back
    clobbered   \* one of those saved its own

etcdVars == <<stored, disk, live, created, lastID>>
jobVars == <<pool, job, started, call>>
cacheVars == <<waiting, cached, completing, saving>>
history == <<given, collected, evicted, behind, clobbered>>
poolVars == <<etcdVars, jobVars, cacheVars, reqs, history>>
vars == <<leaderVars, elected, poolVars, leads, beats, faults>>
leading == <<leaderVars, elected, leads, beats>>
steady == <<leading, faults>>

\* The bound leaves room for another campaign (2), heartbeat or fault (1).
within(k) == 2 * leads + beats + faults + k <= MaxEvents

\* Something goes wrong that need not.
fault == faults < MaxFaults /\ within(1) /\ faults' = faults + 1

newPool == [seq |-> 0, offset |-> 0, recs |-> {}]

Init ==
    /\ LeaderInit
    /\ stored = newPool /\ disk = {} /\ live = {} /\ created = {} /\ lastID = 0
    /\ pool = [n \in Nodes |-> newPool]
    /\ elected = {} /\ job = [n \in Nodes |-> "off"] /\ started = {}
    /\ call = [n \in Nodes |-> "idle"]
    /\ waiting = [n \in Nodes |-> {}] /\ cached = [n \in Nodes |-> {}]
    /\ completing = [n \in Nodes |-> NoShard] /\ saving = [n \in Nodes |-> {}]
    /\ reqs = {} /\ leads = 0 /\ beats = 0
    /\ faults = 0
    /\ given = {} /\ collected = {} /\ evicted = {} /\ behind = {} /\ clobbered = FALSE

----------------------------------------------------------------------------
\* The leader's cluster and job.

\* dsp.mu: maybeCreate holds it while it waits for AsyncAddResources.
muFree(n) == call[n] = "idle"

\* SetResource: a shard replaces one of the same range.
put(c, s) == {t \in c : t.seq # s.seq} \cup {s}

\* LoadClusterInfo puts the stored resources, by id, into the cache.
loaded(c) == {t \in c : \A s \in live : s.seq # t.seq}
             \cup {s \in live : \A t \in live : t.seq = s.seq => t.id <= s.id}

\* enableLeader: start the cluster, unless it runs, and the jobs, once those of
\* the last time are stopped.  A node that still runs does not read what was
\* stored meanwhile.
BeginLeader(n) ==
    /\ Begin(n) /\ n \in elected /\ job[n] \notin {"starting", "restarting"}
    /\ elected' = elected \ {n}
    /\ job' = [job EXCEPT ![n] = IF @ = "stopping" THEN "restarting" ELSE "starting"]
    /\ IF n \in running
       THEN UNCHANGED <<waiting, cached>>
       ELSE /\ waiting' = [waiting EXCEPT ![n] = @ \cup (disk \ live)]
            /\ cached' = [cached EXCEPT ![n] = loaded(@)]
    /\ UNCHANGED <<leads, beats, faults, etcdVars, pool, started, call, completing,
                   saving, reqs, history>>

\* enableLeader cannot start the cluster, and the node campaigns again.
BeginFails(n) ==
    /\ n \in elected \ running /\ fault
    /\ elected' = elected \ {n}
    /\ UNCHANGED <<leaderVars, leads, beats, poolVars>>

\* Start, once the job is started: the data in memory is kept.
StartAgain(n) ==
    /\ job[n] = "starting" /\ n \in started /\ muFree(n)
    /\ job' = [job EXCEPT ![n] = "on"]
    /\ UNCHANGED <<steady, etcdVars, pool, started, call, cacheVars,
                   reqs, history>>

\* An allocation in etcd is not in the data of n: its save was executed, but
\* failed, or is another node's.
tookBack(n) == ~(stored.recs \subseteq pool[n].recs \cup collected)

\* Start: load the job's data.
StartJob(n) ==
    /\ job[n] = "starting" /\ n \notin started
    /\ job' = [job EXCEPT ![n] = "on"]
    /\ started' = started \cup {n}
    /\ pool' = [pool EXCEPT ![n] = stored]
    /\ behind' = (behind \ {n}) \cup {m \in started : tookBack(m)}
    /\ UNCHANGED <<steady, etcdVars, call, cacheVars, reqs,
                   given, collected, evicted, clobbered>>

\* Start: the data cannot be read.
StartFails(n) ==
    /\ job[n] = "starting" /\ n \notin started /\ fault
    /\ job' = [job EXCEPT ![n] = "on"]
    /\ UNCHANGED <<leading, etcdVars, pool, started, call, cacheVars,
                   reqs, history>>

\* disableLeader, with the leader that the node found: the cluster stops, and
\* stopJobs takes jobMu.
FollowLeader(n) ==
    /\ Follow(n) /\ n \notin elected /\ job[n] \in {"off", "on"}
    /\ job' = [job EXCEPT ![n] = "stopping"]
    /\ UNCHANGED <<elected, leads, beats, faults, etcdVars, pool, started, call,
                   cacheVars, reqs, history>>

\* The goroutine of stopJobs: Stop waits for dsp.mu.  Nothing reads what it
\* leaves in memory: the next Start loads it.
StopJob(n) ==
    /\ job[n] \in {"stopping", "restarting"} /\ muFree(n)
    /\ job' = [job EXCEPT ![n] = IF @ = "stopping" THEN "off" ELSE "starting"]
    /\ started' = started \ {n}
    /\ pool' = [pool EXCEPT ![n] = newPool]
    /\ UNCHANGED <<steady, etcdVars, call, cacheVars, reqs, history>>

\* What a node loses when its process ends: all but etcd's.  Requests it sent
\* may still be executed; those it was handling time out.
Exit(n) ==
    /\ Restart(n)
    /\ elected' = elected \ {n}
    /\ pool' = [pool EXCEPT ![n] = newPool]
    /\ job' = [job EXCEPT ![n] = "off"]
    /\ started' = started \ {n}
    /\ call' = [m \in Nodes |-> IF m = n \/ \E r \in reqs : r.at = n /\ r.from = m
                                THEN "idle" ELSE call[m]]
    /\ waiting' = [waiting EXCEPT ![n] = {}]
    /\ cached' = [cached EXCEPT ![n] = {}]
    /\ completing' = [completing EXCEPT ![n] = NoShard]
    /\ saving' = [saving EXCEPT ![n] = {}]
    /\ reqs' = {IF r.from = n THEN [r EXCEPT !.from = NoNode] ELSE r :
                r \in {q \in reqs : q.at # n}}
    /\ UNCHANGED <<leads, beats, etcdVars, history>>

RestartNode(n) == Exit(n) /\ fault

\* A campaign is won; the rest of the election leaves the pool alone, too.
Win(n) ==
    /\ Acquire(n) /\ n \notin elected /\ leads < MaxLeads /\ within(2)
    /\ leads' = leads + 1 /\ elected' = elected \cup {n}
    /\ UNCHANGED <<poolVars, beats, faults>>

Elect ==
    /\ Release \/ \E n \in Nodes : Resume(n) \/ End(n)
    /\ UNCHANGED <<poolVars, elected, leads, beats, faults>>

----------------------------------------------------------------------------
\* saveLocked.

\* PutJobData of p by n: etcd executes it if the leader key is n's.
executed(n, p) ==
    /\ key = n
    /\ stored' = p
    /\ behind' = behind \cup (Nodes \ {n})
    /\ clobbered' = (clobbered \/ n \in behind)

notExecuted == UNCHANGED <<stored, behind, clobbered>>

\* PutJobData succeeds and p is the data from now on; or it fails, executed or
\* not, and the data from before is taken back.
saveOrRollback(n, p) ==
    \/ executed(n, p) /\ pool' = [pool EXCEPT ![n] = p] /\ UNCHANGED faults
    \/ key # n /\ notExecuted /\ UNCHANGED <<pool, faults>>
    \/ (executed(n, p) \/ notExecuted) /\ UNCHANGED pool /\ fault

----------------------------------------------------------------------------
\* maybeCreate, AsyncAddResources and HandleCreateResources.

\* The pool has fewer idle shards than it should (or never had one).
wantsShard(p) == (p.seq = 0 \/ p.seq - p.offset < Capacity) /\ p.seq < MaxSeq

\* maybeCreate, by trigger or tick: ask the leader for the next shard.
MaybeCreate(n) ==
    /\ n \in started /\ muFree(n) /\ wantsShard(pool[n])
    /\ call' = [call EXCEPT ![n] = "sent"]
    /\ reqs' = reqs \cup {[from |-> n, at |-> NoNode, seq |-> pool[n].seq + 1, id |-> 0]}
    /\ UNCHANGED <<steady, etcdVars, pool, job, started, cacheVars,
                   history>>

\* Mutant of answer: an error is ignored.
answer_ignoresError(r, outcome) ==
    call' = IF r.from = NoNode THEN call ELSE [call EXCEPT ![r.from] = "created"]

\* The answer to a request, if somebody waits for it.
answer(r, outcome) ==
    call' = IF r.from = NoNode THEN call ELSE [call EXCEPT ![r.from] = outcome]

\* A shard with this unique name is in the leader's memory.
isKnown(m, seq) == \E s \in waiting[m] \cup cached[m] : s.seq = seq

\* HandleCreateResources: the shard exists.
CreateKnown(r, m) ==
    /\ r.at = NoNode /\ m \in serving /\ completing[m] = NoShard
    /\ isKnown(m, r.seq)
    /\ reqs' = reqs \ {r}
    /\ answer(r, "created")
    /\ UNCHANGED <<steady, etcdVars, pool, job, started, cacheVars,
                   history>>

\* HandleCreateResources: it does not, and gets an id.  The cluster stays read
\* locked until the shard is stored: heartbeats wait, other requests do not.
CreateCheck(r, m) ==
    /\ r.at = NoNode /\ m \in serving /\ completing[m] = NoShard
    /\ ~isKnown(m, r.seq) /\ lastID < MaxID
    /\ lastID' = lastID + 1
    /\ reqs' = (reqs \ {r}) \cup {[r EXCEPT !.at = m, !.id = lastID + 1]}
    /\ UNCHANGED <<steady, stored, disk, live, created, jobVars, cacheVars, history>>

shardOf(r) == [id |-> r.id, seq |-> r.seq]

\* PutResources of a new shard, executed by etcd.
createdInEtcd(s) ==
    /\ disk' = disk \cup {s} /\ created' = created \cup {s}
    /\ evicted' = evicted \ {s.seq}

\* PutResources and AddWaittingCreateResources succeed.
CreatePut(r) ==
    /\ r.at # NoNode /\ key = r.at
    /\ createdInEtcd(shardOf(r))
    /\ waiting' = [waiting EXCEPT ![r.at] = @ \cup {shardOf(r)}]
    /\ reqs' = reqs \ {r}
    /\ answer(r, "created")
    /\ UNCHANGED <<steady, stored, live, lastID, pool, job, started, cached,
                   completing, saving, given, collected, behind, clobbered>>

\* PutResources fails, executed or not: AsyncAddResources returns the error.
CreateFails(r) ==
    /\ r.at # NoNode /\ fault
    /\ \/ UNCHANGED <<disk, created, evicted>>
       \/ key = r.at /\ createdInEtcd(shardOf(r))
    /\ reqs' = reqs \ {r}
    /\ answer(r, "idle")
    /\ UNCHANGED <<leading, stored, live, lastID, pool, job, started,
                   cacheVars, given, collected, behind, clobbered>>

\* PutResources fails with not-leader: syncDo sends the request again.
CreateRetry(r) ==
    /\ r.at # NoNode /\ key # r.at
    /\ reqs' = (reqs \ {r}) \cup
               (IF r.from = NoNode THEN {} ELSE {[r EXCEPT !.at = NoNode, !.id = 0]})
    /\ UNCHANGED <<steady, etcdVars, jobVars, cacheVars, history>>

\* The caller gives up, and the pool forgets that it asked.  The request may
\* still be executed, or be lost.
CreateTimeout(r) ==
    /\ r.from # NoNode /\ fault
    /\ call' = [call EXCEPT ![r.from] = "idle"]
    /\ \/ reqs' = (reqs \ {r}) \cup {[r EXCEPT !.from = NoNode]}
       \/ r.at = NoNode /\ reqs' = reqs \ {r}
    /\ UNCHANGED <<leading, etcdVars, pool, job, started, cacheVars,
                   history>>

\* The shard is created: count it.
CreateSave(n) ==
    /\ call[n] = "created"
    /\ saveOrRollback(n, [pool[n] EXCEPT !.seq = @ + 1])
    /\ call' = [call EXCEPT ![n] = "idle"]
    /\ UNCHANGED <<leading, disk, live, created, lastID, job, started, cacheVars,
                   reqs, given, collected, evicted>>

----------------------------------------------------------------------------
\* processResourceHeartbeat, of a shard that the leader does not have as a
\* running resource.  It looks before it takes the lock: one that it finds put
\* in between is only saved once more.

\* Under the lock, CompleteCreateResource.
HeartbeatNew(n, s) ==
    /\ n \in serving /\ beats < MaxBeats /\ within(1)
    /\ beats' = beats + 1
    /\ s \in waiting[n] \/ s \notin cached[n]
    /\ completing[n] = NoShard /\ \A r \in reqs : r.at # n
    /\ waiting' = [waiting EXCEPT ![n] = @ \ {s}]
    /\ completing' = [completing EXCEPT ![n] = s]
    /\ UNCHANGED <<leaderVars, elected, leads, faults, etcdVars, jobVars, cached, saving,
                   reqs, history>>

\* RemoveResource by n of shards with one number, executed by etcd.
removedInEtcd(n, overlaps) ==
    /\ key = n
    /\ disk' = disk \ overlaps /\ live' = live \ overlaps
    /\ evicted' = evicted \cup {t.seq : t \in overlaps}

\* PutResource in the cache, which drops a shard of the same range there and
\* removes it from etcd; a failure is only logged.  A shard that was known, but
\* without a leader, is not saved.
HeartbeatPut(n) ==
    /\ completing[n] # NoShard
    /\ LET s == completing[n]
           overlaps == {t \in cached[n] : t.seq = s.seq} \ {s} IN
       /\ cached' = [cached EXCEPT ![n] = put(@, s)]
       /\ \/ overlaps = {} /\ UNCHANGED <<disk, live, evicted, faults>>
          \/ overlaps # {} /\ removedInEtcd(n, overlaps) /\ UNCHANGED faults
          \/ overlaps # {} /\ key # n /\ UNCHANGED <<disk, live, evicted, faults>>
          \/ overlaps # {} /\ fault /\ UNCHANGED <<disk, live, evicted>>
       /\ \/ saving' = [saving EXCEPT ![n] = @ \cup {s}]
          \/ s \in cached[n] /\ UNCHANGED saving
    /\ completing' = [completing EXCEPT ![n] = NoShard]
    /\ UNCHANGED <<leading, stored, created, lastID, jobVars, waiting, reqs,
                   given, collected, behind, clobbered>>

\* PutResource in etcd, after the lock; a failure is only logged.
HeartbeatSave(n, s) ==
    /\ s \in saving[n]
    /\ \/ /\ key = n /\ disk' = disk \cup {s} /\ live' = live \cup {s}
          /\ evicted' = evicted \ {s.seq} /\ UNCHANGED faults
       \/ key # n /\ UNCHANGED <<disk, live, evicted, faults>>
       \/ fault /\ UNCHANGED <<disk, live, evicted>>
    /\ saving' = [saving EXCEPT ![n] = @ \ {s}]
    /\ UNCHANGED <<leading, stored, created, lastID, jobVars, waiting, cached,
                   completing, reqs, given, collected, behind, clobbered>>

----------------------------------------------------------------------------
\* Alloc, handleExecuteJob, Execute and doAllocLocked.

\* Mutant of noIdle: the pool is not asked whether it has an idle shard.
noIdle_never(p) == FALSE

noIdle(p) == p.seq = p.offset

\* doAllocLocked runs on n: the job is in jobMu.jobs (which is read without the
\* lock) and started.  The leader check of handleRPCRequest came before the
\* request got the lock, so that n may no longer be leader.  Where the job is
\* not ready, or no shard is idle, nothing happens.
executes(n) == job[n] # "off" /\ n \in started /\ muFree(n) /\ ~noIdle(pool[n])

\* The record of this purpose.
recordsOf(p, purpose) == {r \in p.recs : r.purpose = purpose}

\* The shards with the next unique name: first those that wait to be created.
\* A heartbeat moves a shard from there to the resources, so that it makes no
\* difference whether the two are read at once.
candidates(n) ==
    LET next == {s \in waiting[n] : s.seq = pool[n].offset + 1} IN
    IF next # {} THEN next ELSE {s \in cached[n] : s.seq = pool[n].offset + 1}

\* The purpose has been allocated before.
isRecorded(n, p) == recordsOf(pool[n], p) # {}

AllocRecorded(n, p) ==
    /\ executes(n) /\ isRecorded(n, p)
    /\ given' = given \cup recordsOf(pool[n], p)
    /\ UNCHANGED <<steady, etcdVars, jobVars, cacheVars, reqs,
                   collected, evicted, behind, clobbered>>

\* Mutant of withRecord: the offset is not advanced.
withRecord_sameOffset(p, rec) == [p EXCEPT !.recs = @ \cup {rec}]

withRecord(p, rec) == [p EXCEPT !.offset = @ + 1, !.recs = @ \cup {rec}]

\* Mutant of answerAlloc: the allocation is answered, saved or not.
answerAlloc_unsaved(n, p, rec) ==
    /\ saveOrRollback(n, p)
    /\ given' = given \cup {rec}

\* saveLocked decides between the answer and an error.
answerAlloc(n, p, rec) ==
    /\ saveOrRollback(n, p)
    /\ given' = IF pool'[n] = p THEN given \cup {rec} ELSE given

\* A new allocation.
Alloc(n, p) ==
    /\ executes(n) /\ ~isRecorded(n, p)
    /\ \E s \in candidates(n) :
          LET rec == [purpose |-> p, shard |-> s] IN
          answerAlloc(n, withRecord(pool[n], rec), rec)
    /\ UNCHANGED <<leading, disk, live, created, lastID, job, started, call, cacheVars,
                   reqs, collected, evicted>>

\* The shard is missing: Fatalf ends the process.
isMissing(n, p) == executes(n) /\ ~isRecorded(n, p) /\ candidates(n) = {}

AllocMissing(n, p) ==
    /\ isMissing(n, p)
    /\ Exit(n)
    /\ UNCHANGED faults

----------------------------------------------------------------------------
\* gcAllocating.

\* Which records are left once some are to be dropped: none.  newP is p itself,
\* and the list that is filtered was emptied before.
kept(recs, gone) == {}

\* Some of the allocated shards, not always all that were, are known to n as
\* written.
GcAllocating(n) ==
    /\ n \in started /\ muFree(n)
    /\ \E gone \in SUBSET {rec \in pool[n].recs \cap given : rec.shard \in cached[n]} \ {{}} :
          LET p == [pool[n] EXCEPT !.recs = kept(@, gone)] IN
          /\ pool' = [pool EXCEPT ![n] = p]
          /\ \/ executed(n, p) /\ UNCHANGED faults
             \/ key # n /\ notExecuted /\ UNCHANGED faults
             \/ notExecuted /\ fault
          /\ collected' = collected \cup (pool[n].recs \ p.recs)
    /\ UNCHANGED <<leading, disk, live, created, lastID, job, started, call, cacheVars,
                   reqs, given, evicted>>

Next ==
    \/ Elect
    \/ \E n \in Nodes :
          \/ Win(n) \/ BeginFails(n)
          \/ BeginLeader(n) \/ StartAgain(n) \/ StartJob(n) \/ StartFails(n)
          \/ FollowLeader(n) \/ StopJob(n) \/ RestartNode(n)
          \/ MaybeCreate(n) \/ CreateSave(n) \/ HeartbeatPut(n) \/ GcAllocating(n)
          \/ \E p \in Purposes : AllocRecorded(n, p) \/ Alloc(n, p) \/ AllocMissing(n, p)
          \/ \E s \in created : HeartbeatNew(n, s)
          \/ \E s \in saving[n] : HeartbeatSave(n, s)
    \/ \E r \in reqs :
          \/ \E m \in Nodes : CreateKnown(r, m) \/ CreateCheck(r, m)
          \/ CreatePut(r) \/ CreateFails(r) \/ CreateRetry(r) \/ CreateTimeout(r)

Spec == Init /\ [][Next]_vars

----------------------------------------------------------------------------
\* The type of every variable; the pool never keeps more idle shards than its
\* capacity (maybeCreate).
TypeOK ==
    /\ stored \in ShardPool /\ pool \in [Nodes -> ShardPool]
    /\ created \subseteq Shard /\ disk \subseteq Shard /\ live \subseteq disk
    /\ lastID \in 0 .. MaxID
    /\ job \in [Nodes -> {"off", "starting", "on", "stopping", "restarting"}]
    /\ elected \cup started \subseteq Nodes /\ call \in [Nodes -> {"idle", "sent", "created"}]
    /\ waiting \in [Nodes -> SUBSET Shard] /\ cached \in [Nodes -> SUBSET Shard]
    /\ completing \in [Nodes -> Shard \cup {NoShard}] /\ saving \in [Nodes -> SUBSET Shard]
    /\ reqs \subseteq [from : Nodes \cup {NoNode}, at : Nodes \cup {NoNode},
                       seq : 1 .. MaxSeq, id : 0 .. MaxID]
    /\ given \cup collected \subseteq [purpose : Purposes, shard : Shard]
    /\ evicted \subseteq 1 .. MaxSeq
    /\ \A n \in Nodes : pool[n].seq - pool[n].offset \in 0 .. Capacity

\* No shard is given to two purposes, not after a change of leader, a restart,
\* or a save whose answer was lost (doAllocLocked), unless a node has saved its
\* own data over what another one saved or loaded meanwhile.
GivenOnce ==
    clobbered \/ \A a, b \in given : a.shard.id = b.shard.id => a.purpose = b.purpose

\* An allocation that was answered is in etcd until gcAllocating drops it, so
\* that every later leader gives the same answer: a client that lost the answer
\* asks again and gets the same shard.
AnswerIsStored == clobbered \/ given \subseteq stored.recs \cup collected

\* The pool counts a shard only when it is stored as a resource (maybeCreate
\* creates, then saves), so that a node that loads both finds it; unless the
\* heartbeat of a duplicate, a shard created for the same number, removed it
\* (processResourceHeartbeat) and no shard of that number was saved since.
CreatedBeforeCounted ==
    \A k \in 1 .. stored.seq : k \in evicted \/ \E s \in disk : s.seq = k
=============================================================================
