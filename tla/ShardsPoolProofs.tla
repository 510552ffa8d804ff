-------------------------- MODULE ShardsPoolProofs --------------------------
(***************************************************************************)
(* Proofs about ShardsPool, for any nodes, purposes, capacity and bounds:  *)
(* the pool counts only shards that are stored, no shard is given to two   *)
(* purposes, and an answered allocation stays in etcd.                     *)
(***************************************************************************)
EXTENDS ShardsPool, TLAPS

Record == [purpose : Purposes, shard : Shard]
Request == [from : Nodes \cup {NoNode}, at : Nodes \cup {NoNode},
            seq : 1 .. MaxSeq, id : 0 .. MaxID]

JobState == {"off", "starting", "on", "stopping", "restarting"}

\* The idle shards of a pool are within its capacity.
fits(p) == p.seq - p.offset \in 0 .. Capacity

\* maybeCreate holds dsp.mu from its decision to its save: nothing changes the
\* pool, and only the answer to the one request that was sent is waited for.
CallInv ==
    /\ fits(stored)
    /\ \A n \in Nodes : call[n] # "idle" => n \in started /\ wantsShard(pool[n])
    /\ \A r \in reqs : r.from # NoNode => call[r.from] = "sent" /\ r.seq = pool[r.from].seq + 1
    /\ \A r, q \in reqs : r.from = q.from /\ r.from # NoNode => r = q
    /\ \A r \in reqs : r.at # NoNode => r.id > 0

TypeInv == TypeOK /\ CallInv

----------------------------------------------------------------------------
(* The records of the model.                                               *)

\* The fields of a pool.
LEMMA PoolFields ==
    ASSUME NEW p \in ShardPool
    PROVE  p.seq \in 0 .. MaxSeq /\ p.offset \in 0 .. MaxSeq /\ p.recs \subseteq Record
BY DEF ShardPool, Record

\* A new pool is one.
LEMMA NewPoolTyped == newPool \in ShardPool /\ fits(newPool) /\ newPool.seq = 0
BY PoolAssumption DEF newPool, ShardPool, fits

\* A shard is counted.
LEMMA CountedTyped ==
    ASSUME NEW p \in ShardPool, fits(p), wantsShard(p)
    PROVE  LET q == [p EXCEPT !.seq = @ + 1]
           IN /\ q \in ShardPool /\ fits(q)
              /\ q.seq = p.seq + 1 /\ q.offset = p.offset /\ q.recs = p.recs
<1>1. p.seq \in 0 .. MaxSeq /\ p.offset \in 0 .. MaxSeq
  BY PoolFields
<1>2. p.seq + 1 \in 0 .. MaxSeq /\ p.seq + 1 - p.offset \in 0 .. Capacity
  BY <1>1, PoolAssumption DEF wantsShard, fits
<1> QED
  BY <1>1, <1>2 DEF ShardPool, fits

\* An allocation is recorded.
LEMMA RecordedTyped ==
    ASSUME NEW p \in ShardPool, fits(p), ~noIdle(p), NEW rec \in Record
    PROVE  /\ withRecord(p, rec) \in ShardPool /\ fits(withRecord(p, rec))
           /\ withRecord(p, rec).seq = p.seq
           /\ withRecord(p, rec).offset = p.offset + 1
           /\ withRecord(p, rec).recs = p.recs \cup {rec}
<1>1. p.seq \in 0 .. MaxSeq /\ p.offset \in 0 .. MaxSeq
  BY PoolFields
<1>2. p.offset + 1 \in 0 .. MaxSeq /\ p.seq - (p.offset + 1) \in 0 .. Capacity
  BY <1>1, PoolAssumption DEF noIdle, fits
<1> QED
  BY <1>1, <1>2 DEF ShardPool, Record, fits, withRecord

\* The records are dropped.
LEMMA CollectedTyped ==
    ASSUME NEW p \in ShardPool, fits(p)
    PROVE  LET q == [p EXCEPT !.recs = {}]
           IN /\ q \in ShardPool /\ fits(q)
              /\ q.seq = p.seq /\ q.offset = p.offset /\ q.recs = {}
BY DEF ShardPool, fits

\* The shard of a request that has an id.
LEMMA ShardOfTyped ==
    ASSUME NEW r \in Request, r.id > 0
    PROVE  shardOf(r) \in Shard /\ shardOf(r).id = r.id /\ shardOf(r).seq = r.seq
BY PoolAssumption DEF Request, Shard, shardOf

\* A request whose sender, handler or id changes.
LEMMA RequestTyped ==
    ASSUME NEW r \in Request
    PROVE  /\ [r EXCEPT !.from = NoNode] \in Request
           /\ [r EXCEPT !.at = NoNode, !.id = 0] \in Request
           /\ \A m \in Nodes, i \in 0 .. MaxID : [r EXCEPT !.at = m, !.id = i] \in Request
<1>1. 0 \in 0 .. MaxID
  BY PoolAssumption
<1>2. [r EXCEPT !.from = NoNode] \in Request
  BY DEF Request
<1>3. [r EXCEPT !.at = NoNode, !.id = 0] \in Request
  BY <1>1 DEF Request
<1>4. ASSUME NEW m \in Nodes, NEW i \in 0 .. MaxID
      PROVE  [r EXCEPT !.at = m, !.id = i] \in Request
  BY DEF Request
<1> QED
  BY <1>2, <1>3, <1>4

\* TypeInv, with the names above.
Types ==
    /\ stored \in ShardPool /\ pool \in [Nodes -> ShardPool]
    /\ created \subseteq Shard /\ disk \subseteq Shard /\ live \subseteq disk
    /\ lastID \in 0 .. MaxID
    /\ job \in [Nodes -> JobState]
    /\ elected \subseteq Nodes /\ started \subseteq Nodes
    /\ call \in [Nodes -> {"idle", "sent", "created"}]
    /\ waiting \in [Nodes -> SUBSET Shard] /\ cached \in [Nodes -> SUBSET Shard]
    /\ completing \in [Nodes -> Shard \cup {NoShard}]
    /\ saving \in [Nodes -> SUBSET Shard]
    /\ reqs \subseteq Request
    /\ given \subseteq Record /\ collected \subseteq Record /\ evicted \subseteq 1 .. MaxSeq
    /\ \A n \in Nodes : fits(pool[n])

\* Types says what TypeOK says.
LEMMA TypesAre == TypeOK <=> Types
BY DEF TypeOK, Types, Record, Request, JobState, fits

\* The same in the next state.
LEMMA TypesAreNext == TypeOK' <=> Types'
BY DEF TypeOK, Types, Record, Request, JobState, fits

----------------------------------------------------------------------------
(* TypeInv.                                                                *)

\* In the initial state nobody asked for anything.
LEMMA InitTypes == Init => TypeInv
<1> SUFFICES ASSUME Init PROVE TypeInv
  OBVIOUS
<1>1. Types
  BY NewPoolTyped, PoolAssumption DEF Init, Types, JobState
<1>2. CallInv
  BY NewPoolTyped DEF Init, CallInv
<1> QED
  BY <1>1, <1>2, TypesAre DEF TypeInv

\* The calls stay right while the pools, what is started and what is asked do.
LEMMA CallsUnchanged ==
    ASSUME CallInv, UNCHANGED <<stored, pool, call, reqs>>, started \subseteq started'
    PROVE  CallInv'
BY DEF CallInv, fits, wantsShard

\* A step of the election or the start of the cluster.
LEMMA ElectTypes ==
    ASSUME TypeInv,
           \/ Elect
           \/ \E n \in Nodes : \/ Win(n) \/ BeginFails(n) \/ StartAgain(n) \/ StartFails(n)
                               \/ FollowLeader(n)
    PROVE  TypeInv'
<1> USE DEF TypeInv
<1>1. /\ UNCHANGED <<stored, pool, disk, live, created, lastID, started, call, waiting, cached,
                     completing, saving, reqs, given, collected, evicted>>
      /\ elected' \subseteq Nodes /\ job' \in [Nodes -> JobState]
  BY TypesAre DEF Types, JobState, Elect, Win, BeginFails, StartAgain, StartFails, FollowLeader,
     poolVars, etcdVars, jobVars, cacheVars, history, steady, leading
<1>2. CallInv'
  BY <1>1, CallsUnchanged
<1>3. Types'
  BY <1>1, TypesAre DEF Types, fits
<1> QED
  BY <1>2, <1>3, TypesAreNext

\* The leader loads the stored shards.
LEMMA BeginTypes ==
    ASSUME TypeInv, NEW n \in Nodes, BeginLeader(n)
    PROVE  TypeInv'
<1> USE DEF TypeInv
<1>1. /\ UNCHANGED <<stored, pool, disk, live, created, lastID, started, call, completing, saving,
                     reqs, given, collected, evicted>>
      /\ elected' \subseteq Nodes /\ job' \in [Nodes -> JobState]
  BY TypesAre DEF Types, JobState, BeginLeader, etcdVars, history
<1>2. loaded(cached[n]) \subseteq Shard
  BY TypesAre DEF Types, loaded
<1>3. waiting' \in [Nodes -> SUBSET Shard] /\ cached' \in [Nodes -> SUBSET Shard]
  BY <1>2, TypesAre DEF Types, BeginLeader
<1>4. CallInv'
  BY <1>1, CallsUnchanged
<1>5. Types'
  BY <1>1, <1>3, TypesAre DEF Types, fits
<1> QED
  BY <1>4, <1>5, TypesAreNext

\* The job loads its data: no call of the node is under way.
LEMMA StartTypes ==
    ASSUME TypeInv, NEW n \in Nodes, StartJob(n)
    PROVE  TypeInv'
<1> USE DEF TypeInv
<1>1. /\ UNCHANGED <<stored, disk, live, created, lastID, elected, call, waiting, cached, completing, saving,
                     reqs, given, collected, evicted>>
      /\ n \notin started /\ started' = started \cup {n}
      /\ pool' = [pool EXCEPT ![n] = stored] /\ job' = [job EXCEPT ![n] = "on"]
  BY DEF StartJob, etcdVars, cacheVars, steady, leading
<1>2. call[n] = "idle"
  BY <1>1 DEF CallInv
<1>3. \A m \in Nodes \ {n} : pool'[m] = pool[m]
  BY <1>1, TypesAre DEF Types
<1>4. pool'[n] = stored
  BY <1>1, TypesAre DEF Types
<1>5. Types'
  BY <1>1, <1>3, <1>4, TypesAre DEF Types, JobState, CallInv, fits
<1>6. CallInv'
  <2>1. \A r \in reqs : r.from # NoNode => r.from \in Nodes \ {n}
    BY <1>2, TypesAre DEF CallInv, Types, Request
  <2> QED
    BY <1>1, <1>2, <1>3, <2>1, TypesAre DEF CallInv, Types, fits, wantsShard
<1> QED
  BY <1>5, <1>6, TypesAreNext

\* The job stops while no call of the node is under way.
LEMMA StopTypes ==
    ASSUME TypeInv, NEW n \in Nodes, StopJob(n)
    PROVE  TypeInv'
<1> USE DEF TypeInv
<1>1. /\ UNCHANGED <<stored, disk, live, created, lastID, elected, call, waiting, cached, completing, saving,
                     reqs, given, collected, evicted>>
      /\ call[n] = "idle" /\ started' = started \ {n}
      /\ pool' = [pool EXCEPT ![n] = newPool] /\ job' \in [Nodes -> JobState]
  BY TypesAre DEF Types, JobState, StopJob, muFree, etcdVars, cacheVars, history, steady, leading
<1>2. /\ \A m \in Nodes \ {n} : pool'[m] = pool[m]
      /\ pool'[n] = newPool
  BY <1>1, TypesAre DEF Types
<1>3. Types'
  BY <1>1, <1>2, TypesAre, NewPoolTyped DEF Types, fits
<1>4. CallInv'
  <2>1. \A r \in reqs : r.from # NoNode => r.from \in Nodes \ {n}
    BY <1>1, TypesAre DEF CallInv, Types, Request
  <2> QED
    BY <1>1, <1>2, <2>1, TypesAre DEF CallInv, Types, fits, wantsShard
<1> QED
  BY <1>3, <1>4, TypesAreNext

\* The requests that are left when a process ends.
LEMMA ExitRequests ==
    ASSUME TypeInv, NEW n \in Nodes, Exit(n), NEW q \in reqs'
    PROVE  \E r \in reqs : /\ r.at # n
                           /\ r.from = n => q = [r EXCEPT !.from = NoNode]
                           /\ r.from # n => q = r
                           /\ q \in Request
                           /\ q.at = r.at /\ q.seq = r.seq /\ q.id = r.id
                           /\ q.from = IF r.from = n THEN NoNode ELSE r.from
<1>1. PICK r \in {x \in reqs : x.at # n} :
        q = IF r.from = n THEN [r EXCEPT !.from = NoNode] ELSE r
  BY DEF Exit
<1>2. r \in Request
  BY TypesAre DEF TypeInv, Types
<1>3. [r EXCEPT !.from = NoNode] \in Request
  BY <1>2, RequestTyped
<1>4. /\ [r EXCEPT !.from = NoNode].from = NoNode /\ [r EXCEPT !.from = NoNode].at = r.at
      /\ [r EXCEPT !.from = NoNode].seq = r.seq /\ [r EXCEPT !.from = NoNode].id = r.id
  BY <1>2 DEF Request
<1> QED
  BY <1>1, <1>2, <1>3, <1>4

\* A process ends: what it asked for is asked by nobody.
LEMMA ExitTypes ==
    ASSUME TypeInv, NEW n \in Nodes, Exit(n)
    PROVE  TypeInv'
<1> USE DEF TypeInv
<1>1. /\ UNCHANGED <<stored, disk, live, created, lastID, given, collected, evicted>>
      /\ elected' = elected \ {n} /\ started' = started \ {n}
      /\ pool' = [pool EXCEPT ![n] = newPool] /\ job' = [job EXCEPT ![n] = "off"]
      /\ call' = [m \in Nodes |-> IF m = n \/ \E r \in reqs : r.at = n /\ r.from = m
                                  THEN "idle" ELSE call[m]]
      /\ waiting' = [waiting EXCEPT ![n] = {}] /\ cached' = [cached EXCEPT ![n] = {}]
      /\ completing' = [completing EXCEPT ![n] = NoShard]
      /\ saving' = [saving EXCEPT ![n] = {}]
  BY DEF Exit, etcdVars, history
<1>2. /\ \A m \in Nodes \ {n} : pool'[m] = pool[m]
      /\ pool'[n] = newPool
  BY <1>1, TypesAre DEF Types
<1>3. call' \in [Nodes -> {"idle", "sent", "created"}] /\ call'[n] = "idle"
  BY <1>1, TypesAre DEF Types
<1>4. reqs' \subseteq Request
  BY ExitRequests
<1>5. Types'
  BY <1>1, <1>2, <1>3, <1>4, TypesAre, NewPoolTyped DEF Types, JobState, fits
<1>6. \A m \in Nodes : call'[m] # "idle" => m \in started' /\ wantsShard(pool'[m])
  BY <1>1, <1>2, <1>3 DEF CallInv
<1>7. ASSUME NEW q \in reqs', q.from # NoNode
      PROVE  q \in reqs /\ q.at # n /\ q.from \in Nodes \ {n}
  BY <1>4, <1>7, ExitRequests, TypesAre DEF Types, Request
<1>8. \A q \in reqs' : q.from # NoNode => call'[q.from] = "sent" /\ q.seq = pool'[q.from].seq + 1
  <2> SUFFICES ASSUME NEW q \in reqs', q.from # NoNode
               PROVE  call'[q.from] = "sent" /\ q.seq = pool'[q.from].seq + 1
    OBVIOUS
  <2>1. q \in reqs /\ q.at # n /\ q.from \in Nodes \ {n}
    BY <1>7
  <2>2. call[q.from] = "sent" /\ q.seq = pool[q.from].seq + 1
    BY <2>1 DEF CallInv
  <2>3. ~ \E r \in reqs : r.at = n /\ r.from = q.from
    BY <2>1 DEF CallInv
  <2> QED
    BY <1>1, <1>2, <2>1, <2>2, <2>3
<1>9. \A q, r \in reqs' : q.from = r.from /\ q.from # NoNode => q = r
  BY <1>7 DEF CallInv
<1>10. \A q \in reqs' : q.at # NoNode => q.id > 0
  BY ExitRequests DEF CallInv
<1>11. CallInv'
  BY <1>1, <1>6, <1>8, <1>9, <1>10 DEF CallInv, fits, wantsShard
<1> QED
  BY <1>5, <1>11, TypesAreNext

\* The answer to a request ends the wait of the node that sent it.
LEMMA AnswerCalls ==
    ASSUME TypeInv, NEW r \in reqs, NEW outcome \in {"idle", "created"},
           answer(r, outcome), reqs' = reqs \ {r}, UNCHANGED <<stored, pool, started>>
    PROVE  call' \in [Nodes -> {"idle", "sent", "created"}] /\ CallInv'
<1> USE DEF TypeInv
<1>1. call \in [Nodes -> {"idle", "sent", "created"}] /\ r \in Request
  BY TypesAre DEF Types
<1>2. CASE r.from = NoNode
  BY <1>1, <1>2 DEF CallInv, answer, fits, wantsShard
<1>3. CASE r.from # NoNode
  <2>1. r.from \in Nodes /\ call' = [call EXCEPT ![r.from] = outcome] /\ call[r.from] = "sent"
    BY <1>1, <1>3 DEF Request, answer, CallInv
  <2>2. \A q \in reqs' : q.from # r.from
    BY <1>3 DEF CallInv
  <2> QED
    BY <1>1, <1>3, <2>1, <2>2 DEF CallInv, fits, wantsShard
<1> QED
  BY <1>2, <1>3

\* maybeCreate asks for a shard.
LEMMA MaybeCreateTypes ==
    ASSUME TypeInv, NEW n \in Nodes, MaybeCreate(n)
    PROVE  TypeInv'
<1> USE DEF TypeInv
<1> DEFINE r == [from |-> n, at |-> NoNode, seq |-> pool[n].seq + 1, id |-> 0]
<1>1. /\ UNCHANGED <<stored, disk, live, created, lastID, elected, pool, job, started, waiting, cached,
                     completing, saving, given, collected, evicted>>
      /\ n \in started /\ call[n] = "idle" /\ wantsShard(pool[n])
      /\ call' = [call EXCEPT ![n] = "sent"] /\ reqs' = reqs \cup {r}
  BY DEF MaybeCreate, muFree, etcdVars, cacheVars, history, steady, leading
<1>2. pool[n].seq + 1 \in 1 .. MaxSeq
  BY <1>1, TypesAre, PoolFields, PoolAssumption DEF Types, wantsShard
<1>3. r \in Request /\ r.from = n /\ r.at = NoNode /\ r.seq = pool[n].seq + 1
  BY <1>2, PoolAssumption DEF Request
<1>4. Types'
  BY <1>1, <1>3, TypesAre DEF Types, fits
<1>5. \A q \in reqs : q.from # NoNode => q.from # n /\ q.from \in Nodes
  BY <1>1, TypesAre DEF CallInv, Types, Request
<1>6. CallInv'
  <2> HIDE DEF r
  <2>1. \A m \in Nodes : call'[m] = IF m = n THEN "sent" ELSE call[m]
    BY <1>1, TypesAre DEF Types
  <2>2. n # NoNode
    BY PoolAssumption
  <2> QED
    BY <1>1, <1>3, <1>5, <2>1, <2>2 DEF CallInv, fits, wantsShard
<1> QED
  BY <1>4, <1>6, TypesAreNext

\* A request is answered: the shard exists, was stored, or could not be.
LEMMA AnsweredTypes ==
    ASSUME TypeInv, NEW r \in reqs,
           (\E m \in Nodes : CreateKnown(r, m)) \/ CreatePut(r) \/ CreateFails(r)
    PROVE  TypeInv'
<1> USE DEF TypeInv
<1>1. /\ reqs' = reqs \ {r} /\ \E outcome \in {"idle", "created"} : answer(r, outcome)
      /\ UNCHANGED <<stored, live, lastID, elected, pool, job, started, cached,
                     completing, saving, given, collected>>
  BY DEF CreateKnown, CreatePut, CreateFails, etcdVars, cacheVars, history, steady, leading
<1>2. call' \in [Nodes -> {"idle", "sent", "created"}] /\ CallInv'
  BY <1>1, AnswerCalls
<1>3. r \in Request
  BY TypesAre DEF Types
<1>4. /\ disk \subseteq disk' /\ disk' \subseteq Shard /\ created' \subseteq Shard
      /\ evicted' \subseteq evicted /\ waiting' \in [Nodes -> SUBSET Shard]
  <2>1. CASE \E m \in Nodes : CreateKnown(r, m)
    BY <2>1, TypesAre DEF Types, CreateKnown, etcdVars, cacheVars, history
  <2>2. CASE CreatePut(r)
    <3>1. shardOf(r) \in Shard /\ r.at \in Nodes
      BY <1>3, <2>2, ShardOfTyped DEF CreatePut, CallInv, Request
    <3> QED
      BY <2>2, <3>1, TypesAre DEF Types, CreatePut, createdInEtcd
  <2>3. CASE CreateFails(r)
    <3>1. shardOf(r) \in Shard
      BY <1>3, <2>3, ShardOfTyped DEF CreateFails, CallInv
    <3> QED
      BY <2>3, <3>1, TypesAre DEF Types, CreateFails, createdInEtcd, cacheVars
  <2> QED
    BY <2>1, <2>2, <2>3
<1>5. Types'
  BY <1>1, <1>2, <1>4, TypesAre DEF Types, fits
<1> QED
  BY <1>2, <1>5, TypesAreNext

\* The request is replaced by one that differs in its handler and its id.
LEMMA HandledTypes ==
    ASSUME TypeInv, NEW r \in reqs,
           (\E m \in Nodes : CreateCheck(r, m)) \/ CreateRetry(r)
    PROVE  TypeInv'
<1> USE DEF TypeInv
<1>1. r \in Request /\ lastID \in 0 .. MaxID
  BY TypesAre DEF Types
<1>2. /\ UNCHANGED <<stored, disk, live, created, elected, pool, job, started, call, waiting, cached,
                     completing, saving, given, collected, evicted>>
      /\ lastID' = lastID \/ (lastID < MaxID /\ lastID' = lastID + 1)
  BY DEF CreateCheck, CreateRetry, etcdVars, jobVars, cacheVars, history, steady, leading
<1>3. MaxID \in Nat /\ lastID' \in 0 .. MaxID
  BY <1>1, <1>2, PoolAssumption
<1>4. \/ reqs' = reqs \ {r}
      \/ \E q \in Request : /\ reqs' = (reqs \ {r}) \cup {q}
                            /\ q.from = r.from /\ q.seq = r.seq
                            /\ q.at # NoNode => q.id > 0
  <2>1. ASSUME NEW m \in Nodes, CreateCheck(r, m)
        PROVE  \E q \in Request : /\ reqs' = (reqs \ {r}) \cup {q}
                                  /\ q.from = r.from /\ q.seq = r.seq /\ q.id > 0
    <3> DEFINE q == [r EXCEPT !.at = m, !.id = lastID + 1]
    <3>0. lastID < MaxID
      BY <2>1 DEF CreateCheck
    <3>1. lastID + 1 \in 0 .. MaxID /\ lastID + 1 > 0
      BY <1>1, <1>3, <3>0
    <3>2. q \in Request /\ q.from = r.from /\ q.seq = r.seq /\ q.id = lastID + 1
      BY <1>1, <3>1 DEF Request
    <3> QED
      BY <2>1, <3>1, <3>2 DEF CreateCheck
  <2>2. CASE CreateRetry(r)
    <3> DEFINE q == [r EXCEPT !.at = NoNode, !.id = 0]
    <3>1. q \in Request /\ q.from = r.from /\ q.seq = r.seq /\ q.at = NoNode
      BY <1>1, RequestTyped DEF Request
    <3>2. reqs' = reqs \ {r} \/ reqs' = (reqs \ {r}) \cup {q}
      BY <2>2 DEF CreateRetry
    <3> HIDE DEF q
    <3> QED
      BY <3>1, <3>2
  <2> QED
    BY <2>1, <2>2
<1>5. CallInv'
  BY <1>2, <1>4 DEF CallInv, fits, wantsShard
<1>6. Types'
  BY <1>2, <1>4, <1>3, TypesAre DEF Types, fits
<1> QED
  BY <1>5, <1>6, TypesAreNext

\* The caller gives up: nobody waits for the request any more.
LEMMA TimeoutTypes ==
    ASSUME TypeInv, NEW r \in reqs, CreateTimeout(r)
    PROVE  TypeInv'
<1> USE DEF TypeInv
<1> DEFINE q == [r EXCEPT !.from = NoNode]
<1>1. r \in Request /\ r.from \in Nodes /\ r.from # NoNode
  BY TypesAre DEF CreateTimeout, Types, Request
<1>2. /\ q \in Request /\ q.from = NoNode /\ q.at = r.at /\ q.id = r.id
  BY <1>1, RequestTyped DEF Request
<1>3. /\ UNCHANGED <<stored, disk, live, created, lastID, elected, pool, job, started, waiting, cached,
                     completing, saving, given, collected, evicted>>
      /\ call' = [call EXCEPT ![r.from] = "idle"]
      /\ reqs' = reqs \ {r} \/ reqs' = (reqs \ {r}) \cup {q}
  BY DEF CreateTimeout, etcdVars, cacheVars, history, leading
<1> HIDE DEF q
<1>4. Types'
  BY <1>1, <1>2, <1>3, TypesAre DEF Types, fits
<1>5. \A x \in reqs \ {r} : x.from # r.from
  BY <1>1 DEF CallInv
<1>6. \A m \in Nodes : call'[m] = IF m = r.from THEN "idle" ELSE call[m]
  BY <1>3, TypesAre DEF Types
<1>7. \A x \in reqs : x.from # NoNode => x.from \in Nodes
  BY TypesAre DEF Types, Request
<1>8. CallInv'
  BY <1>1, <1>2, <1>3, <1>5, <1>6, <1>7 DEF CallInv, fits, wantsShard
<1> QED
  BY <1>4, <1>8, TypesAreNext

\* saveLocked: the new data is everywhere, nowhere, or only in etcd.
LEMMA SaveCases ==
    ASSUME NEW n \in Nodes, NEW p, saveOrRollback(n, p)
    PROVE  \/ executed(n, p) /\ pool' = [pool EXCEPT ![n] = p]
           \/ notExecuted /\ UNCHANGED pool
           \/ executed(n, p) /\ UNCHANGED pool
BY DEF saveOrRollback

\* Data that fits is saved or taken back.
LEMMA SaveTypes ==
    ASSUME TypeInv, NEW n \in Nodes, NEW p \in ShardPool, fits(p), saveOrRollback(n, p),
           call'[n] = "idle", \A m \in Nodes \ {n} : call'[m] = call[m],
           \A r \in reqs : r.from # n, UNCHANGED <<reqs, started>>
    PROVE  /\ stored' \in ShardPool /\ pool' \in [Nodes -> ShardPool]
           /\ \A m \in Nodes : fits(pool'[m])
           /\ CallInv'
<1> USE DEF TypeInv
<1>1. stored \in ShardPool /\ pool \in [Nodes -> ShardPool] /\ \A m \in Nodes : fits(pool[m])
  BY TypesAre DEF Types
<1>2. stored' = stored \/ stored' = p
  BY SaveCases DEF executed, notExecuted
<1>3. pool' = pool \/ pool' = [pool EXCEPT ![n] = p]
  BY SaveCases
<1>4. pool' \in [Nodes -> ShardPool] /\ \A m \in Nodes \ {n} : pool'[m] = pool[m]
  BY <1>1, <1>3
<1>5. \A m \in Nodes : fits(pool'[m])
  BY <1>1, <1>3
<1>6. \A r \in reqs : r.from # NoNode => r.from \in Nodes \ {n}
  BY TypesAre DEF Types, Request
<1>7. CallInv'
  BY <1>2, <1>4, <1>6 DEF CallInv, fits, wantsShard
<1> QED
  BY <1>1, <1>2, <1>4, <1>5, <1>7

\* A shard that was created is counted.
LEMMA CreateSaveTypes ==
    ASSUME TypeInv, NEW n \in Nodes, CreateSave(n)
    PROVE  TypeInv'
<1> USE DEF TypeInv
<1> DEFINE p == [pool[n] EXCEPT !.seq = @ + 1]
<1>1. /\ UNCHANGED <<disk, live, created, lastID, elected, job, started, waiting, cached,
                     completing, saving, reqs, given, collected, evicted>>
      /\ call[n] = "created" /\ call' = [call EXCEPT ![n] = "idle"]
      /\ saveOrRollback(n, p)
  BY DEF CreateSave, cacheVars, leading
<1>2. pool[n] \in ShardPool /\ fits(pool[n]) /\ wantsShard(pool[n])
  BY <1>1, TypesAre DEF Types, CallInv
<1>3. p \in ShardPool /\ fits(p)
  BY <1>2, CountedTyped
<1>4. /\ call' \in [Nodes -> {"idle", "sent", "created"}] /\ call'[n] = "idle"
      /\ \A m \in Nodes \ {n} : call'[m] = call[m]
  BY <1>1, TypesAre DEF Types
<1>5. \A r \in reqs : r.from # n
  BY <1>1, PoolAssumption DEF CallInv
<1> HIDE DEF p
<1>6. /\ stored' \in ShardPool /\ pool' \in [Nodes -> ShardPool]
      /\ \A m \in Nodes : fits(pool'[m])
      /\ CallInv'
  BY <1>1, <1>3, <1>4, <1>5, SaveTypes
<1>7. Types'
  BY <1>1, <1>4, <1>6, TypesAre DEF Types
<1> QED
  BY <1>6, <1>7, TypesAreNext

\* A heartbeat moves a shard.
LEMMA HeartbeatTypes ==
    ASSUME TypeInv, NEW n \in Nodes,
           \/ HeartbeatPut(n) \/ \E s \in created : HeartbeatNew(n, s)
           \/ \E s \in saving[n] : HeartbeatSave(n, s)
    PROVE  TypeInv'
<1> USE DEF TypeInv
<1>1. UNCHANGED <<stored, created, lastID, elected, pool, job, started, call, reqs, given, collected>>
  BY DEF HeartbeatPut, HeartbeatNew, HeartbeatSave, etcdVars, jobVars, history, leading
<1>2. CallInv'
  BY <1>1, CallsUnchanged
<1>3. CASE HeartbeatPut(n)
  <2> DEFINE s == completing[n]
             overlaps == {t \in cached[n] : t.seq = s.seq} \ {s}
  <2>1. /\ cached' = [cached EXCEPT ![n] = put(@, s)]
        /\ \/ /\ disk' = disk \ overlaps /\ live' = live \ overlaps
              /\ evicted' = evicted \cup {t.seq : t \in overlaps}
           \/ UNCHANGED <<disk, live, evicted>>
        /\ saving' = [saving EXCEPT ![n] = @ \cup {s}] \/ UNCHANGED saving
        /\ completing' = [completing EXCEPT ![n] = NoShard] /\ UNCHANGED waiting
    BY <1>3 DEF HeartbeatPut, removedInEtcd
  <2>2. s \in Shard
    BY <1>3, TypesAre DEF Types, HeartbeatPut
  <2>3. put(cached[n], s) \subseteq Shard
    BY <2>2, TypesAre DEF Types, put
  <2>4. cached' \in [Nodes -> SUBSET Shard] /\ completing' \in [Nodes -> Shard \cup {NoShard}]
    BY <2>1, <2>3, TypesAre DEF Types
  <2>5. disk' \subseteq Shard /\ live' \subseteq disk'
    BY <2>1, <2>2, TypesAre DEF Types
  <2>6. \A t \in overlaps : t.seq \in 1 .. MaxSeq
    BY TypesAre DEF Types, Shard
  <2>7. evicted' \subseteq 1 .. MaxSeq
    BY <2>1, <2>6, TypesAre DEF Types
  <2>8. saving' \in [Nodes -> SUBSET Shard]
    BY <2>1, <2>2, TypesAre DEF Types
  <2>9. Types'
    BY <1>1, <2>1, <2>4, <2>5, <2>7, <2>8, TypesAre DEF Types, fits
  <2> QED
    BY <1>2, <2>9, TypesAreNext
<1>4. ASSUME NEW s \in created, HeartbeatNew(n, s) PROVE TypeInv'
  <2>1. /\ waiting' = [waiting EXCEPT ![n] = @ \ {s}]
        /\ completing' = [completing EXCEPT ![n] = s]
        /\ UNCHANGED <<disk, live, cached, saving, evicted>>
    BY <1>4 DEF HeartbeatNew, etcdVars, history
  <2>2. Types'
    BY <1>1, <2>1, TypesAre DEF Types, fits
  <2> QED
    BY <1>2, <2>2, TypesAreNext
<1>5. ASSUME NEW s \in saving[n], HeartbeatSave(n, s) PROVE TypeInv'
  <2>1. /\ \/ disk' = disk \cup {s} /\ live' = live \cup {s} /\ evicted' = evicted \ {s.seq}
           \/ UNCHANGED <<disk, live, evicted>>
        /\ saving' = [saving EXCEPT ![n] = @ \ {s}] /\ UNCHANGED <<waiting, cached, completing>>
    BY <1>5 DEF HeartbeatSave
  <2>2. s \in Shard
    BY TypesAre DEF Types
  <2>3. Types'
    BY <1>1, <2>1, <2>2, TypesAre DEF Types, fits
  <2> QED
    BY <1>2, <2>3, TypesAreNext
<1> QED
  BY <1>3, <1>4, <1>5

\* What an allocation chooses from.
LEMMA CandidatesTyped ==
    ASSUME TypeInv, NEW n \in Nodes, NEW s \in candidates(n)
    PROVE  /\ s \in Shard /\ s \in waiting[n] \cup cached[n]
           /\ s.seq = pool[n].offset + 1
BY TypesAre DEF TypeInv, Types, candidates

\* A shard is given, or was given before.
LEMMA AllocTypes ==
    ASSUME TypeInv, NEW n \in Nodes, NEW p \in Purposes, AllocRecorded(n, p) \/ Alloc(n, p)
    PROVE  TypeInv'
<1> USE DEF TypeInv
<1>1. CASE AllocRecorded(n, p)
  <2>1. /\ UNCHANGED <<stored, disk, live, created, lastID, elected, pool, job, started, call, waiting,
                       cached, completing, saving, reqs, collected, evicted>>
        /\ given' = given \cup recordsOf(pool[n], p)
    BY <1>1 DEF AllocRecorded, steady, leading, etcdVars, jobVars, cacheVars
  <2>2. recordsOf(pool[n], p) \subseteq Record
    BY PoolFields, TypesAre DEF Types, recordsOf
  <2>3. CallInv'
    BY <2>1, CallsUnchanged
  <2>4. Types'
    BY <2>1, <2>2, TypesAre DEF Types, fits
  <2> QED
    BY <2>3, <2>4, TypesAreNext
<1>2. CASE Alloc(n, p)
  <2>1. PICK s \in candidates(n) :
          answerAlloc(n, withRecord(pool[n], [purpose |-> p, shard |-> s]),
                      [purpose |-> p, shard |-> s])
    BY <1>2 DEF Alloc
  <2> DEFINE rec == [purpose |-> p, shard |-> s]
             q == withRecord(pool[n], rec)
  <2>2. rec \in Record
    BY CandidatesTyped DEF Record
  <2>3. /\ UNCHANGED <<disk, live, created, lastID, elected, job, started, call, waiting, cached,
                       completing, saving, reqs, collected, evicted>>
        /\ call[n] = "idle" /\ ~noIdle(pool[n])
    BY <1>2 DEF Alloc, executes, muFree, leading, cacheVars
  <2>4. q \in ShardPool /\ fits(q)
    BY <2>2, <2>3, RecordedTyped, TypesAre DEF Types
  <2>5. \A r \in reqs : r.from # n
    BY <2>3, PoolAssumption DEF CallInv
  <2>6. saveOrRollback(n, q) /\ given' \subseteq given \cup {rec}
    BY <2>1 DEF answerAlloc
  <2> HIDE DEF q, rec
  <2>7. /\ stored' \in ShardPool /\ pool' \in [Nodes -> ShardPool]
        /\ \A m \in Nodes : fits(pool'[m])
        /\ CallInv'
    BY <2>3, <2>4, <2>5, <2>6, SaveTypes
  <2>8. Types'
    BY <2>2, <2>3, <2>6, <2>7, TypesAre DEF Types
  <2> QED
    BY <2>7, <2>8, TypesAreNext
<1> QED
  BY <1>1, <1>2

\* gcAllocating saves what it changed, or does not.
LEMMA GcCases ==
    ASSUME TypeInv, NEW n \in Nodes, GcAllocating(n)
    PROVE  LET p == [pool[n] EXCEPT !.recs = {}]
           IN /\ n \in started /\ call[n] = "idle"
              /\ pool' = [pool EXCEPT ![n] = p]
              /\ executed(n, p) \/ notExecuted
              /\ collected' = collected \cup pool[n].recs
              /\ UNCHANGED <<disk, live, created, lastID, elected, job, started, call, waiting, cached,
                             completing, saving, reqs, given, evicted>>
              /\ p \in ShardPool /\ fits(p)
              /\ p.seq = pool[n].seq /\ p.offset = pool[n].offset /\ p.recs = {}
<1> DEFINE p == [pool[n] EXCEPT !.recs = {}]
<1>1. /\ p \in ShardPool /\ fits(p)
      /\ p.seq = pool[n].seq /\ p.offset = pool[n].offset /\ p.recs = {}
  BY CollectedTyped, TypesAre DEF TypeInv, Types
<1>2. /\ n \in started /\ call[n] = "idle"
      /\ UNCHANGED <<disk, live, created, lastID, elected, job, started, call, waiting, cached,
                     completing, saving, reqs, given, evicted>>
  BY DEF GcAllocating, muFree, leading, cacheVars
<1>3. /\ pool' = [pool EXCEPT ![n] = p]
      /\ executed(n, p) \/ notExecuted
      /\ collected' = collected \cup (pool[n].recs \ p.recs)
  BY DEF GcAllocating, kept
<1> QED
  BY <1>1, <1>2, <1>3

\* Records are dropped.
LEMMA GcTypes ==
    ASSUME TypeInv, NEW n \in Nodes, GcAllocating(n)
    PROVE  TypeInv'
<1> USE DEF TypeInv
<1> DEFINE p == [pool[n] EXCEPT !.recs = {}]
<1>1. /\ call[n] = "idle" /\ pool' = [pool EXCEPT ![n] = p]
      /\ executed(n, p) \/ notExecuted
      /\ collected' = collected \cup pool[n].recs
      /\ UNCHANGED <<disk, live, created, lastID, elected, job, started, call, waiting, cached,
                     completing, saving, reqs, given, evicted>>
      /\ p \in ShardPool /\ fits(p)
  BY GcCases
<1> HIDE DEF p
<1>2. stored' = stored \/ stored' = p
  BY <1>1 DEF executed, notExecuted
<1>3. /\ \A m \in Nodes \ {n} : pool'[m] = pool[m]
      /\ pool'[n] = p
  BY <1>1, TypesAre DEF Types
<1>4. pool[n].recs \subseteq Record
  BY PoolFields, TypesAre DEF Types
<1>5. Types'
  BY <1>1, <1>2, <1>3, <1>4, TypesAre DEF Types, CallInv
<1>6. \A r \in reqs : r.from # NoNode => r.from \in Nodes \ {n}
  BY <1>1, TypesAre DEF CallInv, Types, Request
<1>7. CallInv'
  BY <1>1, <1>2, <1>3, <1>6 DEF CallInv, fits, wantsShard
<1> QED
  BY <1>5, <1>7, TypesAreNext

\* Every step keeps the types and the calls.
LEMMA NextTypes == TypeInv /\ [Next]_vars => TypeInv'
<1> SUFFICES ASSUME TypeInv, [Next]_vars PROVE TypeInv'
  OBVIOUS
<1>1. CASE UNCHANGED vars
  BY <1>1 DEF vars, poolVars, etcdVars, jobVars, cacheVars, history, TypeInv, TypeOK, CallInv,
     fits, wantsShard
<1>2. CASE Elect
  BY <1>2, ElectTypes
<1>3. ASSUME NEW n \in Nodes,
             \/ Win(n) \/ BeginFails(n) \/ BeginLeader(n) \/ StartAgain(n) \/ StartJob(n)
             \/ StartFails(n) \/ FollowLeader(n) \/ StopJob(n) \/ RestartNode(n)
      PROVE  TypeInv'
  BY <1>3, ElectTypes, BeginTypes, StartTypes, StopTypes, ExitTypes DEF RestartNode
<1>4. ASSUME NEW n \in Nodes,
             \/ MaybeCreate(n) \/ CreateSave(n) \/ HeartbeatPut(n) \/ GcAllocating(n)
             \/ \E s \in created : HeartbeatNew(n, s)
             \/ \E s \in saving[n] : HeartbeatSave(n, s)
      PROVE  TypeInv'
  BY <1>4, MaybeCreateTypes, CreateSaveTypes, HeartbeatTypes, GcTypes
<1>5. ASSUME NEW n \in Nodes, NEW p \in Purposes,
             AllocRecorded(n, p) \/ Alloc(n, p) \/ AllocMissing(n, p)
      PROVE  TypeInv'
  BY <1>5, AllocTypes, ExitTypes DEF AllocMissing
<1>6. ASSUME NEW r \in reqs,
             \/ \E m \in Nodes : CreateKnown(r, m) \/ CreateCheck(r, m)
             \/ CreatePut(r) \/ CreateFails(r) \/ CreateRetry(r) \/ CreateTimeout(r)
      PROVE  TypeInv'
  BY <1>6, AnsweredTypes, HandledTypes, TimeoutTypes
<1> QED
  BY <1>1, <1>2, <1>3, <1>4, <1>5, <1>6 DEF Next

----------------------------------------------------------------------------
(* A shard is stored before it is counted.                                 *)

\* A shard with this unique name is stored as a resource, or was removed by the
\* heartbeat of a duplicate.
onDisk(k) == k \in evicted \/ \E s \in disk : s.seq = k

\* What the nodes have in memory is stored, too: it may decide that a shard
\* need not be created, or be saved as the job's data.
DiskInv ==
    /\ CreatedBeforeCounted
    /\ \A s \in created : onDisk(s.seq)
    /\ \A n \in Nodes : \A k \in 1 .. pool[n].seq : onDisk(k)
    /\ \A n \in Nodes : \A s \in waiting[n] \cup cached[n] : onDisk(s.seq)
    /\ \A n \in Nodes : completing[n] # NoShard => onDisk(completing[n].seq)
    /\ \A n \in Nodes : call[n] = "created" => onDisk(pool[n].seq + 1)

\* At the start nothing is counted.
LEMMA InitDisk == Init => DiskInv
<1> SUFFICES ASSUME Init PROVE DiskInv
  OBVIOUS
<1>1. \A k \in 1 .. 0 : onDisk(k)
  OBVIOUS
<1> QED
  BY <1>1, NewPoolTyped DEF Init, DiskInv, CreatedBeforeCounted

\* Only the heartbeat of a duplicate takes the last shard of a name off the disk.
LEMMA DiskGrows == ASSUME TypeInv, [Next]_vars, NEW k, onDisk(k) PROVE onDisk(k)'
<1>1. CASE UNCHANGED <<disk, evicted>>
  BY <1>1 DEF onDisk
<1>2. ASSUME NEW n \in Nodes, HeartbeatPut(n) PROVE onDisk(k)'
  <2> DEFINE s == completing[n]
             overlaps == {t \in cached[n] : t.seq = s.seq} \ {s}
  <2>1. \/ disk' = disk \ overlaps /\ evicted' = evicted \cup {t.seq : t \in overlaps}
        \/ UNCHANGED <<disk, evicted>>
    BY <1>2 DEF HeartbeatPut, removedInEtcd
  <2>2. CASE k \in evicted
    BY <2>1, <2>2 DEF onDisk
  <2>3. CASE k \notin evicted
    <3>1. PICK t \in disk : t.seq = k
      BY <2>3 DEF onDisk
    <3> HIDE DEF overlaps
    <3> QED
      BY <2>1, <3>1 DEF onDisk
  <2> QED
    BY <2>2, <2>3
<1>3. CASE UNCHANGED vars \/ Elect
  BY <1>1, <1>3 DEF vars, Elect, poolVars, etcdVars, history
<1>4. ASSUME NEW n \in Nodes,
             \/ Win(n) \/ BeginFails(n) \/ BeginLeader(n) \/ StartAgain(n) \/ StartJob(n)
             \/ StartFails(n) \/ FollowLeader(n) \/ StopJob(n) \/ RestartNode(n)
      PROVE  onDisk(k)'
  BY <1>1, <1>4 DEF Win, BeginFails, BeginLeader, StartAgain, StartJob, StartFails,
     FollowLeader, StopJob, RestartNode, Exit, poolVars, etcdVars, history
<1>5. ASSUME NEW n \in Nodes,
             \/ MaybeCreate(n) \/ CreateSave(n) \/ GcAllocating(n)
             \/ \E s \in created : HeartbeatNew(n, s)
             \/ \E p \in Purposes : AllocRecorded(n, p) \/ Alloc(n, p) \/ AllocMissing(n, p)
      PROVE  onDisk(k)'
  BY <1>1, <1>5 DEF MaybeCreate, CreateSave, GcAllocating, HeartbeatNew, AllocRecorded, Alloc,
     AllocMissing, Exit, etcdVars, history
<1>6. ASSUME NEW s, disk' = disk \cup {s}, evicted' = evicted \ {s.seq} PROVE onDisk(k)'
  BY <1>6 DEF onDisk
<1>7. ASSUME NEW r \in reqs,
             \/ \E m \in Nodes : CreateKnown(r, m) \/ CreateCheck(r, m)
             \/ CreateRetry(r) \/ CreateTimeout(r)
      PROVE  onDisk(k)'
  BY <1>1, <1>7 DEF CreateKnown, CreateCheck, CreateRetry, CreateTimeout, etcdVars, history
<1>8. ASSUME NEW r \in reqs, CreatePut(r) \/ CreateFails(r) PROVE onDisk(k)'
  <2>1. \/ UNCHANGED <<disk, evicted>>
        \/ disk' = disk \cup {shardOf(r)} /\ evicted' = evicted \ {shardOf(r).seq}
    BY <1>8 DEF CreatePut, CreateFails, createdInEtcd
  <2> QED
    BY <1>1, <1>6, <2>1
<1>9. ASSUME NEW n \in Nodes, NEW s \in saving[n], HeartbeatSave(n, s) PROVE onDisk(k)'
  <2>1. \/ UNCHANGED <<disk, evicted>>
        \/ disk' = disk \cup {s} /\ evicted' = evicted \ {s.seq}
    BY <1>9 DEF HeartbeatSave
  <2> QED
    BY <1>1, <1>6, <2>1
<1> QED
  BY <1>2, <1>3, <1>4, <1>5, <1>7, <1>8, <1>9 DEF Next

\* Steps that neither count a shard nor learn of one.
LEMMA QuietDisk ==
    ASSUME TypeInv, DiskInv, [Next]_vars,
           UNCHANGED <<stored, created, pool, waiting, cached, completing>>,
           \A n \in Nodes : call'[n] = "created" => call[n] = "created"
    PROVE  DiskInv'
<1>1. \A k : onDisk(k) => onDisk(k)'
  BY DiskGrows
<1>2. CreatedBeforeCounted'
  BY <1>1 DEF DiskInv, CreatedBeforeCounted, onDisk
<1> HIDE DEF onDisk
<1> QED
  BY <1>1, <1>2 DEF DiskInv

\* The leader loads what is stored.
LEMMA BeginDisk ==
    ASSUME TypeInv, DiskInv, NEW n \in Nodes, BeginLeader(n), [Next]_vars
    PROVE  DiskInv'
<1>1. \A k : onDisk(k) => onDisk(k)'
  BY DiskGrows
<1>2. UNCHANGED <<stored, created, pool, completing, call>>
  BY DEF BeginLeader, etcdVars
<1>3. CreatedBeforeCounted'
  BY <1>1, <1>2 DEF DiskInv, CreatedBeforeCounted, onDisk
<1>4. \A s \in disk : onDisk(s.seq)
  BY DEF onDisk
<1>5. live \subseteq disk /\ waiting \in [Nodes -> SUBSET Shard] /\ cached \in [Nodes -> SUBSET Shard]
  BY TypesAre DEF TypeInv, Types
<1>6. \A m \in Nodes : /\ waiting'[m] \subseteq waiting[m] \cup disk
                       /\ cached'[m] \subseteq cached[m] \cup disk
  BY <1>5 DEF BeginLeader, loaded
<1> HIDE DEF onDisk
<1> QED
  BY <1>1, <1>2, <1>3, <1>4, <1>6 DEF DiskInv

\* The job loads its data.
LEMMA StartDisk ==
    ASSUME TypeInv, DiskInv, NEW n \in Nodes, StartJob(n), [Next]_vars
    PROVE  DiskInv'
<1>1. \A k : onDisk(k) => onDisk(k)'
  BY DiskGrows
<1>2. /\ UNCHANGED <<stored, created, waiting, cached, completing, call>>
      /\ pool' = [pool EXCEPT ![n] = stored] /\ n \notin started
  BY DEF StartJob, etcdVars, cacheVars
<1>3. CreatedBeforeCounted'
  BY <1>1, <1>2 DEF DiskInv, CreatedBeforeCounted, onDisk
<1>4. \A k \in 1 .. stored.seq : onDisk(k)
  BY DEF DiskInv, CreatedBeforeCounted, onDisk
<1>5. call[n] # "created"
  BY <1>2, TypesAre DEF TypeInv, CallInv, Types
<1>6. \A m \in Nodes : pool'[m] = IF m = n THEN stored ELSE pool[m]
  BY <1>2, TypesAre DEF TypeInv, Types
<1> HIDE DEF onDisk
<1> QED
  BY <1>1, <1>2, <1>3, <1>4, <1>5, <1>6 DEF DiskInv

\* A node stops its job, or ends.
LEMMA StopDisk ==
    ASSUME TypeInv, DiskInv, NEW n \in Nodes, StopJob(n) \/ Exit(n), [Next]_vars
    PROVE  DiskInv'
<1>1. \A k : onDisk(k) => onDisk(k)'
  BY DiskGrows
<1>2. UNCHANGED <<stored, created>> /\ pool' = [pool EXCEPT ![n] = newPool]
  BY DEF StopJob, Exit, etcdVars
<1>3. CreatedBeforeCounted'
  BY <1>1, <1>2 DEF DiskInv, CreatedBeforeCounted, onDisk
<1>4. \A m \in Nodes : pool'[m] = IF m = n THEN newPool ELSE pool[m]
  BY <1>2, TypesAre DEF TypeInv, Types
<1>5. \A k \in 1 .. newPool.seq : onDisk(k)
  BY NewPoolTyped
<1>6. \A m \in Nodes : /\ waiting'[m] \subseteq waiting[m] /\ cached'[m] \subseteq cached[m]
                       /\ completing'[m] # NoShard => completing'[m] = completing[m]
                       /\ call'[m] = "created" => call[m] = "created" /\ m # n
  BY TypesAre DEF TypeInv, Types, StopJob, Exit, muFree, cacheVars
<1> HIDE DEF onDisk
<1> QED
  BY <1>1, <1>2, <1>3, <1>4, <1>5, <1>6 DEF DiskInv

\* A request is answered: with "created" only if the shard is stored.
LEMMA AnsweredDisk ==
    ASSUME TypeInv, DiskInv, NEW r \in reqs, [Next]_vars,
           (\E m \in Nodes : CreateKnown(r, m)) \/ CreatePut(r) \/ CreateFails(r)
    PROVE  DiskInv'
<1>1. \A k : onDisk(k) => onDisk(k)'
  BY DiskGrows
<1>2. UNCHANGED <<stored, pool, cached, completing>>
  BY DEF CreateKnown, CreatePut, CreateFails, etcdVars, cacheVars
<1>3. CreatedBeforeCounted'
  BY <1>1, <1>2 DEF DiskInv, CreatedBeforeCounted, onDisk
<1>c. \A s \in created' : onDisk(s.seq)'
  <2>1. \A s \in created' \ created : onDisk(s.seq)'
    BY DEF CreateKnown, CreatePut, CreateFails, createdInEtcd, onDisk, etcdVars
  <2> QED
    BY <1>1, <2>1 DEF DiskInv
<1>4. /\ r \in Request /\ call \in [Nodes -> {"idle", "sent", "created"}]
      /\ waiting \in [Nodes -> SUBSET Shard]
      /\ r.from # NoNode => r.seq = pool[r.from].seq + 1
  BY TypesAre DEF TypeInv, Types, CallInv
<1>5. \A n \in Nodes : \A s \in waiting'[n] : onDisk(s.seq)'
  <2>1. CASE waiting' = waiting
    BY <1>1, <2>1 DEF DiskInv
  <2>2. CASE CreatePut(r)
    <3>1. r.at \in Nodes /\ shardOf(r) \in disk'
      BY <1>4, <2>2 DEF CreatePut, createdInEtcd, Request
    <3>2. waiting' = [waiting EXCEPT ![r.at] = @ \cup {shardOf(r)}]
      BY <2>2 DEF CreatePut
    <3>3. \A n \in Nodes : waiting'[n] \subseteq waiting[n] \cup {shardOf(r)}
      BY <1>4, <3>1, <3>2
    <3>4. onDisk(shardOf(r).seq)'
      BY <3>1 DEF onDisk
    <3> QED
      BY <1>1, <3>3, <3>4 DEF DiskInv
  <2> QED
    BY <2>1, <2>2 DEF CreateKnown, CreateFails, cacheVars
<1>6. \A n \in Nodes : call'[n] = "created" => onDisk(pool[n].seq + 1)'
  <2>1. CASE answer(r, "idle")
    <3>1. \A n \in Nodes : call'[n] = "created" => call[n] = "created"
      BY <1>4, <2>1 DEF answer, Request
    <3> QED
      BY <1>1, <1>2, <3>1 DEF DiskInv
  <2>2. CASE answer(r, "created") /\ onDisk(r.seq)'
    <3>1. \A n \in Nodes : call'[n] = "created" => call[n] = "created" \/ r.seq = pool[n].seq + 1
      BY <1>4, <2>2 DEF answer, Request
    <3> QED
      BY <1>1, <1>2, <2>2, <3>1 DEF DiskInv
  <2>3. ASSUME NEW m \in Nodes, CreateKnown(r, m) PROVE answer(r, "created") /\ onDisk(r.seq)'
    BY <1>1, <2>3 DEF CreateKnown, isKnown, DiskInv
  <2>4. CASE CreatePut(r)
    <3>1. shardOf(r) \in disk' /\ shardOf(r).seq = r.seq /\ answer(r, "created")
      BY <2>4 DEF CreatePut, createdInEtcd, shardOf
    <3> QED
      BY <2>2, <3>1 DEF onDisk
  <2> QED
    BY <2>1, <2>2, <2>3, <2>4 DEF CreateFails
<1> HIDE DEF onDisk
<1> QED
  BY <1>1, <1>2, <1>3, <1>c, <1>5, <1>6 DEF DiskInv

\* A save: of a pool whose shards are stored.
LEMMA SaveDisk ==
    ASSUME TypeInv, DiskInv, NEW n \in Nodes, NEW p, \A k \in 1 .. p.seq : onDisk(k),
           [Next]_vars, UNCHANGED <<created, waiting, cached, completing>>,
           stored' \in {stored, p}, pool' \in {pool, [pool EXCEPT ![n] = p]},
           \A m \in Nodes : call'[m] = "created" => call[m] = "created" /\ m # n
    PROVE  DiskInv'
<1>1. \A k : onDisk(k) => onDisk(k)'
  BY DiskGrows
<1>2. CreatedBeforeCounted'
  <2>1. \A k \in 1 .. stored'.seq : onDisk(k)
    BY DEF DiskInv, CreatedBeforeCounted, onDisk
  <2>2. \A k \in 1 .. stored'.seq : onDisk(k)'
    BY <1>1, <2>1
  <2> QED
    BY <2>2 DEF CreatedBeforeCounted, onDisk
<1>3. \A m \in Nodes : pool'[m] = pool[m] \/ (m = n /\ pool'[m] = p)
  BY TypesAre DEF TypeInv, Types
<1> HIDE DEF onDisk
<1> QED
  BY <1>1, <1>2, <1>3 DEF DiskInv

\* A shard is counted, given or forgotten.
LEMMA PoolDisk ==
    ASSUME TypeInv, DiskInv, NEW n \in Nodes, [Next]_vars,
           CreateSave(n) \/ GcAllocating(n) \/ \E q \in Purposes : Alloc(n, q)
    PROVE  DiskInv'
<1>0. \A k \in 1 .. pool[n].seq : onDisk(k)
  BY DEF DiskInv
<1>t. pool[n] \in ShardPool /\ fits(pool[n]) /\ call \in [Nodes -> {"idle", "sent", "created"}]
  BY TypesAre DEF TypeInv, Types
<1>1. CASE CreateSave(n)
  <2> DEFINE p == [pool[n] EXCEPT !.seq = @ + 1]
  <2>1. /\ call[n] = "created" /\ call' = [call EXCEPT ![n] = "idle"]
        /\ saveOrRollback(n, p) /\ UNCHANGED <<created, waiting, cached, completing>>
    BY <1>1 DEF CreateSave, cacheVars
  <2>2. p.seq = pool[n].seq + 1 /\ onDisk(pool[n].seq + 1) /\ pool[n].seq \in Nat
    BY <1>t, <2>1, CountedTyped, PoolFields DEF TypeInv, CallInv, DiskInv
  <2>3. \A k \in 1 .. p.seq : onDisk(k)
    BY <1>0, <2>2
  <2> HIDE DEF p
  <2>4. stored' \in {stored, p} /\ pool' \in {pool, [pool EXCEPT ![n] = p]}
    BY <2>1, SaveCases DEF executed, notExecuted
  <2> QED
    BY <1>t, <2>1, <2>3, <2>4, SaveDisk
<1>2. CASE GcAllocating(n)
  <2> DEFINE p == [pool[n] EXCEPT !.recs = {}]
  <2>1. /\ call[n] = "idle" /\ pool' = [pool EXCEPT ![n] = p]
        /\ executed(n, p) \/ notExecuted
        /\ UNCHANGED <<created, call, waiting, cached, completing>> /\ p.seq = pool[n].seq
    BY <1>2, GcCases
  <2> HIDE DEF p
  <2>2. stored' \in {stored, p}
    BY <2>1 DEF executed, notExecuted
  <2> QED
    BY <1>0, <2>1, <2>2, SaveDisk
<1>3. ASSUME NEW q \in Purposes, Alloc(n, q) PROVE DiskInv'
  <2>1. PICK s \in candidates(n) :
          answerAlloc(n, withRecord(pool[n], [purpose |-> q, shard |-> s]),
                      [purpose |-> q, shard |-> s])
    BY <1>3 DEF Alloc
  <2> DEFINE p == withRecord(pool[n], [purpose |-> q, shard |-> s])
  <2>2. /\ call[n] = "idle" /\ ~noIdle(pool[n])
        /\ UNCHANGED <<created, call, waiting, cached, completing>>
    BY <1>3 DEF Alloc, executes, muFree, cacheVars
  <2>3. p.seq = pool[n].seq
    BY <1>t, <2>2, CandidatesTyped, RecordedTyped DEF Record
  <2> HIDE DEF p
  <2>4. stored' \in {stored, p} /\ pool' \in {pool, [pool EXCEPT ![n] = p]}
    BY <2>1, SaveCases DEF p, answerAlloc, executed, notExecuted
  <2> QED
    BY <1>0, <2>2, <2>3, <2>4, SaveDisk
<1> QED
  BY <1>1, <1>2, <1>3

\* A heartbeat: of a shard that was stored once.
LEMMA HeartbeatDisk ==
    ASSUME TypeInv, DiskInv, NEW n \in Nodes, [Next]_vars,
           \/ HeartbeatPut(n) \/ \E s \in created : HeartbeatNew(n, s)
           \/ \E s \in saving[n] : HeartbeatSave(n, s)
    PROVE  DiskInv'
<1>1. \A k : onDisk(k) => onDisk(k)'
  BY DiskGrows
<1>2. UNCHANGED <<stored, created, pool, call>>
  BY DEF HeartbeatPut, HeartbeatNew, HeartbeatSave, etcdVars, jobVars
<1>3. CreatedBeforeCounted'
  BY <1>1, <1>2 DEF DiskInv, CreatedBeforeCounted, onDisk
<1>4. \A s \in created : onDisk(s.seq)
  BY DEF DiskInv
<1>5. /\ waiting \in [Nodes -> SUBSET Shard] /\ cached \in [Nodes -> SUBSET Shard]
      /\ completing \in [Nodes -> Shard \cup {NoShard}]
  BY TypesAre DEF TypeInv, Types
<1>6. CASE HeartbeatPut(n)
  <2>1. /\ cached' = [cached EXCEPT ![n] = put(@, completing[n])]
        /\ completing' = [completing EXCEPT ![n] = NoShard] /\ completing[n] # NoShard
        /\ UNCHANGED waiting
    BY <1>6 DEF HeartbeatPut
  <2>2. \A m \in Nodes : /\ cached'[m] \subseteq cached[m] \cup (IF m = n THEN {completing[n]} ELSE {})
                         /\ completing'[m] # NoShard => completing'[m] = completing[m]
    BY <1>5, <2>1 DEF put
  <2> HIDE DEF onDisk
  <2> QED
    BY <1>1, <1>2, <1>3, <2>1, <2>2 DEF DiskInv
<1>7. ASSUME NEW s \in created, HeartbeatNew(n, s) PROVE DiskInv'
  <2>1. /\ \A m \in Nodes : /\ waiting'[m] \subseteq waiting[m]
                            /\ completing'[m] = IF m = n THEN s ELSE completing[m]
        /\ UNCHANGED cached
    BY <1>5, <1>7 DEF HeartbeatNew
  <2> HIDE DEF onDisk
  <2> QED
    BY <1>1, <1>2, <1>3, <1>4, <2>1 DEF DiskInv
<1>8. ASSUME NEW s \in saving[n], HeartbeatSave(n, s) PROVE DiskInv'
  <2>1. UNCHANGED <<waiting, cached, completing>>
    BY <1>8 DEF HeartbeatSave
  <2> HIDE DEF onDisk
  <2> QED
    BY <1>1, <1>2, <1>3, <2>1 DEF DiskInv
<1> QED
  BY <1>6, <1>7, <1>8

\* Every step keeps what is counted and known on the disk.
LEMMA NextDisk == TypeInv /\ DiskInv /\ [Next]_vars => DiskInv'
<1> SUFFICES ASSUME TypeInv, DiskInv, [Next]_vars PROVE DiskInv'
  OBVIOUS
<1>1. CASE UNCHANGED vars \/ Elect
  BY <1>1, QuietDisk DEF vars, Elect, poolVars, etcdVars, jobVars, cacheVars
<1>2. ASSUME NEW n \in Nodes,
             \/ Win(n) \/ BeginFails(n) \/ StartAgain(n) \/ StartFails(n) \/ FollowLeader(n)
             \/ \E p \in Purposes : AllocRecorded(n, p)
      PROVE  DiskInv'
  BY <1>2, QuietDisk DEF Win, BeginFails, StartAgain, StartFails, FollowLeader, AllocRecorded,
     poolVars, etcdVars, jobVars, cacheVars
<1>3. ASSUME NEW n \in Nodes, MaybeCreate(n) PROVE DiskInv'
  <2>1. /\ UNCHANGED <<stored, created, pool, waiting, cached, completing>>
        /\ call' = [call EXCEPT ![n] = "sent"]
    BY <1>3 DEF MaybeCreate, etcdVars, cacheVars
  <2>2. call \in [Nodes -> {"idle", "sent", "created"}]
    BY TypesAre DEF TypeInv, Types
  <2> QED
    BY <2>1, <2>2, QuietDisk
<1>4. ASSUME NEW n \in Nodes,
             \/ BeginLeader(n) \/ StartJob(n) \/ StopJob(n) \/ RestartNode(n)
             \/ \E p \in Purposes : AllocMissing(n, p)
      PROVE  DiskInv'
  BY <1>4, BeginDisk, StartDisk, StopDisk DEF RestartNode, AllocMissing
<1>5. ASSUME NEW n \in Nodes,
             \/ CreateSave(n) \/ HeartbeatPut(n) \/ GcAllocating(n)
             \/ \E p \in Purposes : Alloc(n, p)
             \/ \E s \in created : HeartbeatNew(n, s)
             \/ \E s \in saving[n] : HeartbeatSave(n, s)
      PROVE  DiskInv'
  BY <1>5, PoolDisk, HeartbeatDisk
<1>6. ASSUME NEW r \in reqs,
             (\E m \in Nodes : CreateKnown(r, m)) \/ CreatePut(r) \/ CreateFails(r)
      PROVE  DiskInv'
  BY <1>6, AnsweredDisk
<1>7. ASSUME NEW r \in reqs, (\E m \in Nodes : CreateCheck(r, m)) \/ CreateRetry(r)
      PROVE  DiskInv'
  <2>1. UNCHANGED <<stored, created, pool, waiting, cached, completing, call>>
    BY <1>7 DEF CreateCheck, CreateRetry, etcdVars, jobVars, cacheVars
  <2> QED
    BY <2>1, QuietDisk
<1>8. ASSUME NEW r \in reqs, CreateTimeout(r) PROVE DiskInv'
  <2>1. /\ UNCHANGED <<stored, created, pool, waiting, cached, completing>>
        /\ call' = [call EXCEPT ![r.from] = "idle"]
    BY <1>8 DEF CreateTimeout, etcdVars, cacheVars
  <2>2. call \in [Nodes -> {"idle", "sent", "created"}]
    BY TypesAre DEF TypeInv, Types
  <2> QED
    BY <2>1, <2>2, QuietDisk
<1> QED
  BY <1>1, <1>2, <1>3, <1>4, <1>5, <1>6, <1>7, <1>8 DEF Next

----------------------------------------------------------------------------
(* The id of a shard is given to one shard.                                *)

\* A shard is stored, known to a node, being created, or recorded.
isShard(s) ==
    \/ s \in disk \cup created
    \/ \E n \in Nodes : s \in waiting[n] \cup cached[n] \cup saving[n]
                              \cup ({completing[n]} \ {NoShard})
    \/ \E r \in reqs : r.at # NoNode /\ s = shardOf(r)
    \/ \E a \in given \cup collected \cup stored.recs : s = a.shard
    \/ \E n \in Nodes : \E a \in pool[n].recs : s = a.shard

\* AllocID gave every one of them an id of its own.
IdInv ==
    /\ \A s \in Shard : isShard(s) => s.id <= lastID
    /\ \A s, t \in Shard : isShard(s) /\ isShard(t) /\ s.id = t.id => s = t

\* At the start there is no shard.
LEMMA InitIds == Init => IdInv
BY DEF Init, IdInv, isShard, newPool

\* Where shards are.
LEMMA Shards ==
    /\ \A s \in disk \cup created : isShard(s)
    /\ \A n \in Nodes : \A s \in waiting[n] \cup cached[n] \cup saving[n] : isShard(s)
    /\ \A n \in Nodes : completing[n] # NoShard => isShard(completing[n])
    /\ \A r \in reqs : r.at # NoNode => isShard(shardOf(r))
    /\ \A a \in given \cup collected \cup stored.recs : isShard(a.shard)
    /\ \A n \in Nodes : \A a \in pool[n].recs : isShard(a.shard)
BY DEF isShard

\* A step after which there are only shards that were there before.
LEMMA ShardsKept ==
    ASSUME IdInv, lastID' = lastID,
           \A s \in disk' \cup created' : isShard(s),
           \A n \in Nodes : \A s \in waiting'[n] \cup cached'[n] \cup saving'[n] : isShard(s),
           \A n \in Nodes : completing'[n] # NoShard => isShard(completing'[n]),
           \A r \in reqs' : r.at # NoNode => isShard(shardOf(r)),
           \A a \in given' \cup collected' \cup stored'.recs : isShard(a.shard),
           \A n \in Nodes : \A a \in pool'[n].recs : isShard(a.shard)
    PROVE  IdInv'
<1>1. \A s \in Shard : isShard(s)' => isShard(s)
  <2> SUFFICES ASSUME NEW s \in Shard, isShard(s)' PROVE isShard(s)
    OBVIOUS
  <2>1. \/ s \in disk' \cup created'
        \/ \E n \in Nodes : s \in waiting'[n] \cup cached'[n] \cup saving'[n]
                                  \cup ({completing'[n]} \ {NoShard})
        \/ \E r \in reqs' : r.at # NoNode /\ s = shardOf(r)
        \/ \E a \in given' \cup collected' \cup stored'.recs : s = a.shard
        \/ \E n \in Nodes : \E a \in pool'[n].recs : s = a.shard
    BY DEF isShard, shardOf
  <2> HIDE DEF isShard
  <2> QED
    BY <2>1
<1> HIDE DEF isShard
<1> QED
  BY <1>1 DEF IdInv

\* A step that concerns no shard.
LEMMA QuietIds ==
    ASSUME IdInv, UNCHANGED <<disk, created, waiting, cached, completing, saving, given, collected, stored,
                              pool, lastID>>,
           \A r \in reqs' : r.at # NoNode => \E q \in reqs : q.at # NoNode /\ shardOf(q) = shardOf(r)
    PROVE  IdInv'
BY Shards, ShardsKept

\* The leader loads the stored shards, and the job its data.
LEMMA BeginIds ==
    ASSUME TypeInv, IdInv, NEW n \in Nodes, BeginLeader(n) \/ StartJob(n)
    PROVE  IdInv'
<1>1. /\ live \subseteq disk /\ waiting \in [Nodes -> SUBSET Shard]
      /\ cached \in [Nodes -> SUBSET Shard] /\ pool \in [Nodes -> ShardPool]
  BY TypesAre DEF TypeInv, Types
<1>2. UNCHANGED <<disk, created, completing, saving, given, collected, stored, reqs, lastID>>
  BY DEF BeginLeader, StartJob, etcdVars, cacheVars, history
<1>3. \A m \in Nodes : /\ waiting'[m] \subseteq waiting[m] \cup disk
                       /\ cached'[m] \subseteq cached[m] \cup disk
  BY <1>1 DEF BeginLeader, StartJob, loaded, cacheVars
<1>4. \A m \in Nodes : pool'[m] = pool[m] \/ pool'[m] = stored
  BY <1>1 DEF BeginLeader, StartJob
<1> QED
  BY <1>2, <1>3, <1>4, Shards, ShardsKept

\* A node stops its job, or ends.
LEMMA StopIds ==
    ASSUME TypeInv, IdInv, NEW n \in Nodes, StopJob(n) \/ Exit(n)
    PROVE  IdInv'
<1>1. /\ waiting \in [Nodes -> SUBSET Shard] /\ cached \in [Nodes -> SUBSET Shard]
      /\ pool \in [Nodes -> ShardPool] /\ completing \in [Nodes -> Shard \cup {NoShard}]
      /\ saving \in [Nodes -> SUBSET Shard]
  BY TypesAre DEF TypeInv, Types
<1>2. UNCHANGED <<disk, created, given, collected, stored, lastID>>
  BY DEF StopJob, Exit, etcdVars, history
<1>3. \A m \in Nodes : /\ waiting'[m] \subseteq waiting[m] /\ cached'[m] \subseteq cached[m]
                       /\ saving'[m] \subseteq saving[m]
                       /\ completing'[m] # NoShard => completing'[m] = completing[m]
  BY <1>1 DEF StopJob, Exit, cacheVars
<1>4. \A m \in Nodes : pool'[m].recs \subseteq pool[m].recs
  <2>1. \A m \in Nodes : pool'[m] = IF m = n THEN newPool ELSE pool[m]
    BY <1>1 DEF StopJob, Exit
  <2>2. newPool.recs = {}
    BY DEF newPool
  <2> QED
    BY <2>1, <2>2
<1>5. \A q \in reqs' : \E r \in reqs : q.at = r.at /\ q.seq = r.seq /\ q.id = r.id
  <2>1. CASE StopJob(n)
    BY <2>1 DEF StopJob
  <2>2. CASE Exit(n)
    BY <2>2, ExitRequests
  <2> QED
    BY <2>1, <2>2
<1>6. \A r \in reqs' : r.at # NoNode => isShard(shardOf(r))
  <2> SUFFICES ASSUME NEW q \in reqs', q.at # NoNode PROVE isShard(shardOf(q))
    OBVIOUS
  <2>1. PICK r \in reqs : q.at = r.at /\ q.seq = r.seq /\ q.id = r.id
    BY <1>5
  <2>2. shardOf(q) = shardOf(r)
    BY <2>1 DEF shardOf
  <2> QED
    BY <2>1, <2>2, Shards
<1> QED
  BY <1>2, <1>3, <1>4, <1>6, Shards, ShardsKept

\* A request is sent, answered, sent again or given up.
LEMMA RequestIds ==
    ASSUME TypeInv, IdInv,
           \/ \E n \in Nodes : MaybeCreate(n)
           \/ \E r \in reqs : \/ \E m \in Nodes : CreateKnown(r, m)
                              \/ CreatePut(r) \/ CreateFails(r) \/ CreateRetry(r)
                              \/ CreateTimeout(r)
    PROVE  IdInv'
<1>1. ASSUME NEW n \in Nodes, MaybeCreate(n) PROVE IdInv'
  <2>1. /\ UNCHANGED <<disk, created, waiting, cached, completing, saving, given, collected, stored, pool, lastID>>
        /\ \A r \in reqs' : r \in reqs \/ r.at = NoNode
    BY <1>1 DEF MaybeCreate, etcdVars, cacheVars, history
  <2> QED
    BY <2>1, QuietIds
<1>2. ASSUME NEW r \in reqs, NEW m \in Nodes, CreateKnown(r, m) PROVE IdInv'
  <2>1. /\ UNCHANGED <<disk, created, waiting, cached, completing, saving, given, collected, stored, pool, lastID>>
        /\ reqs' \subseteq reqs
    BY <1>2 DEF CreateKnown, etcdVars, cacheVars, history
  <2> QED
    BY <2>1, QuietIds
<1>3. ASSUME NEW r \in reqs, CreatePut(r) PROVE IdInv'
  <2>1. /\ UNCHANGED <<cached, completing, saving, given, collected, stored, pool, lastID>>
        /\ reqs' \subseteq reqs /\ r.at # NoNode
        /\ disk' = disk \cup {shardOf(r)} /\ created' = created \cup {shardOf(r)}
        /\ waiting' = [waiting EXCEPT ![r.at] = @ \cup {shardOf(r)}]
    BY <1>3 DEF CreatePut, createdInEtcd
  <2>2. \A n \in Nodes : waiting'[n] \subseteq waiting[n] \cup {shardOf(r)}
    BY <2>1, TypesAre DEF TypeInv, Types
  <2>3. isShard(shardOf(r))
    BY <2>1, Shards
  <2> QED
    BY <2>1, <2>2, <2>3, Shards, ShardsKept
<1>4. ASSUME NEW r \in reqs, CreateFails(r) PROVE IdInv'
  <2>1. /\ UNCHANGED <<waiting, cached, completing, saving, given, collected, stored, pool, lastID>>
        /\ reqs' \subseteq reqs /\ r.at # NoNode
        /\ disk' \subseteq disk \cup {shardOf(r)} /\ created' \subseteq created \cup {shardOf(r)}
    BY <1>4 DEF CreateFails, createdInEtcd, cacheVars
  <2>2. isShard(shardOf(r))
    BY <2>1, Shards
  <2> QED
    BY <2>1, <2>2, Shards, ShardsKept
<1>5. ASSUME NEW r \in reqs, CreateRetry(r) PROVE IdInv'
  <2> DEFINE q == [r EXCEPT !.at = NoNode, !.id = 0]
  <2>1. /\ UNCHANGED <<disk, created, waiting, cached, completing, saving, given, collected, stored, pool, lastID>>
        /\ reqs' \subseteq (reqs \ {r}) \cup {q}
    BY <1>5 DEF CreateRetry, etcdVars, jobVars, cacheVars, history
  <2>2. q.at = NoNode
    BY TypesAre DEF TypeInv, Types, Request
  <2> QED
    BY <2>1, <2>2, QuietIds
<1>6. ASSUME NEW r \in reqs, CreateTimeout(r) PROVE IdInv'
  <2> DEFINE q == [r EXCEPT !.from = NoNode]
  <2>1. /\ UNCHANGED <<disk, created, waiting, cached, completing, saving, given, collected, stored, pool, lastID>>
        /\ reqs' \subseteq (reqs \ {r}) \cup {q}
    BY <1>6 DEF CreateTimeout, etcdVars, cacheVars, history
  <2>2. q.at = r.at /\ q.seq = r.seq /\ q.id = r.id
    BY TypesAre DEF TypeInv, Types, Request
  <2>3. shardOf(q) = shardOf(r)
    BY <2>2 DEF shardOf
  <2> HIDE DEF q
  <2> QED
    BY <2>1, <2>2, <2>3, QuietIds
<1> QED
  BY <1>1, <1>2, <1>3, <1>4, <1>5, <1>6

\* HandleCreateResources takes a new id for its shard.
LEMMA CheckIds ==
    ASSUME TypeInv, IdInv, NEW r \in reqs, NEW m \in Nodes, CreateCheck(r, m)
    PROVE  IdInv'
<1> DEFINE q == [r EXCEPT !.at = m, !.id = lastID + 1]
           new == shardOf(q)
<1>1. /\ UNCHANGED <<disk, created, waiting, cached, completing, saving, given, collected, stored, pool>>
      /\ lastID' = lastID + 1 /\ reqs' = (reqs \ {r}) \cup {q}
  BY DEF CreateCheck, jobVars, cacheVars, history
<1>2. lastID \in Nat
  BY TypesAre, PoolAssumption DEF TypeInv, Types
<1>3. new.id = lastID + 1
  BY TypesAre DEF TypeInv, Types, Request, shardOf
<1> HIDE DEF q
<1>4. \A s \in Shard : isShard(s)' => isShard(s) \/ s = new
  <2> SUFFICES ASSUME NEW s \in Shard, isShard(s)' PROVE isShard(s) \/ s = new
    OBVIOUS
  <2>1. CASE \E x \in reqs' : x.at # NoNode /\ s = shardOf(x)
    BY <1>1, <2>1 DEF isShard
  <2>2. CASE ~ \E x \in reqs' : x.at # NoNode /\ s = shardOf(x)
    BY <1>1, <2>2 DEF isShard, shardOf
  <2> QED
    BY <2>1, <2>2
<1>5. \A s \in Shard : s.id \in Nat
  BY PoolAssumption DEF Shard
<1> HIDE DEF isShard, new
<1> QED
  BY <1>1, <1>2, <1>3, <1>4, <1>5 DEF IdInv

\* A heartbeat moves a shard that was stored once.
LEMMA HeartbeatIds ==
    ASSUME TypeInv, IdInv, NEW n \in Nodes,
           \/ HeartbeatPut(n) \/ \E s \in created : HeartbeatNew(n, s)
           \/ \E s \in saving[n] : HeartbeatSave(n, s)
    PROVE  IdInv'
<1>1. /\ waiting \in [Nodes -> SUBSET Shard] /\ cached \in [Nodes -> SUBSET Shard]
      /\ completing \in [Nodes -> Shard \cup {NoShard}] /\ saving \in [Nodes -> SUBSET Shard]
  BY TypesAre DEF TypeInv, Types
<1>2. UNCHANGED <<created, given, collected, stored, pool, reqs, lastID>>
  BY DEF HeartbeatPut, HeartbeatNew, HeartbeatSave, etcdVars, jobVars, history
<1>3. CASE HeartbeatPut(n)
  <2>1. /\ cached' = [cached EXCEPT ![n] = put(@, completing[n])]
        /\ completing' = [completing EXCEPT ![n] = NoShard] /\ completing[n] # NoShard
        /\ disk' \subseteq disk
        /\ UNCHANGED waiting
        /\ saving' = [saving EXCEPT ![n] = @ \cup {completing[n]}] \/ UNCHANGED saving
    BY <1>3 DEF HeartbeatPut, removedInEtcd
  <2>2. \A m \in Nodes : /\ cached'[m] \subseteq cached[m] \cup {completing[n]}
                         /\ saving'[m] \subseteq saving[m] \cup {completing[n]}
                         /\ completing'[m] # NoShard => completing'[m] = completing[m]
    BY <1>1, <2>1 DEF put
  <2> QED
    BY <1>2, <2>1, <2>2, Shards, ShardsKept
<1>4. ASSUME NEW s \in created, HeartbeatNew(n, s) PROVE IdInv'
  <2>1. /\ \A m \in Nodes : /\ waiting'[m] \subseteq waiting[m]
                            /\ completing'[m] = IF m = n THEN s ELSE completing[m]
        /\ UNCHANGED <<disk, cached, saving>>
    BY <1>1, <1>4 DEF HeartbeatNew, etcdVars
  <2> QED
    BY <1>2, <2>1, Shards, ShardsKept
<1>5. ASSUME NEW s \in saving[n], HeartbeatSave(n, s) PROVE IdInv'
  <2>1. /\ disk' \subseteq disk \cup {s} /\ UNCHANGED <<waiting, cached, completing>>
        /\ \A m \in Nodes : saving'[m] \subseteq saving[m]
    BY <1>1, <1>5 DEF HeartbeatSave
  <2> QED
    BY <1>2, <2>1, Shards, ShardsKept
<1> QED
  BY <1>3, <1>4, <1>5

\* A save of records of known shards.
LEMMA SaveIds ==
    ASSUME TypeInv, IdInv, NEW n \in Nodes, NEW p, \A a \in p.recs : isShard(a.shard),
           UNCHANGED <<disk, created, waiting, cached, completing, saving, reqs, lastID>>,
           \A a \in given' \cup collected' : isShard(a.shard),
           stored' \in {stored, p}, pool' \in {pool, [pool EXCEPT ![n] = p]}
    PROVE  IdInv'
<1>1. \A m \in Nodes : pool'[m] = pool[m] \/ pool'[m] = p
  BY TypesAre DEF TypeInv, Types
<1> QED
  BY <1>1, Shards, ShardsKept

\* A shard is counted, given or forgotten.
LEMMA PoolIds ==
    ASSUME TypeInv, IdInv, NEW n \in Nodes,
           \/ CreateSave(n) \/ GcAllocating(n)
           \/ \E q \in Purposes : AllocRecorded(n, q) \/ Alloc(n, q)
    PROVE  IdInv'
<1>1. pool[n] \in ShardPool /\ fits(pool[n])
  BY TypesAre DEF TypeInv, Types
<1>2. CASE CreateSave(n)
  <2> DEFINE p == [pool[n] EXCEPT !.seq = @ + 1]
  <2>1. /\ UNCHANGED <<disk, created, waiting, cached, completing, saving, reqs, lastID, given, collected>>
        /\ saveOrRollback(n, p) /\ call[n] = "created"
    BY <1>2 DEF CreateSave, cacheVars
  <2>2. p.recs = pool[n].recs
    BY <1>1, <2>1, CountedTyped DEF TypeInv, CallInv
  <2> HIDE DEF p
  <2>3. stored' \in {stored, p} /\ pool' \in {pool, [pool EXCEPT ![n] = p]}
    BY <2>1, SaveCases DEF executed, notExecuted
  <2> QED
    BY <2>1, <2>2, <2>3, Shards, SaveIds
<1>3. CASE GcAllocating(n)
  <2> DEFINE p == [pool[n] EXCEPT !.recs = {}]
  <2>1. /\ pool' = [pool EXCEPT ![n] = p]
        /\ executed(n, p) \/ notExecuted
        /\ collected' = collected \cup pool[n].recs
        /\ UNCHANGED <<disk, created, waiting, cached, completing, saving, reqs, lastID, given>> /\ p.recs = {}
    BY <1>3, GcCases
  <2> HIDE DEF p
  <2>2. stored' \in {stored, p}
    BY <2>1 DEF executed, notExecuted
  <2> QED
    BY <2>1, <2>2, Shards, SaveIds
<1>4. ASSUME NEW q \in Purposes, AllocRecorded(n, q) PROVE IdInv'
  <2>1. /\ UNCHANGED <<disk, created, waiting, cached, completing, saving, reqs, lastID, stored, pool, collected>>
        /\ given' \subseteq given \cup pool[n].recs
    BY <1>4 DEF AllocRecorded, recordsOf, etcdVars, jobVars, cacheVars
  <2> QED
    BY <2>1, Shards, ShardsKept
<1>5. ASSUME NEW q \in Purposes, Alloc(n, q) PROVE IdInv'
  <2>1. PICK s \in candidates(n) :
          answerAlloc(n, withRecord(pool[n], [purpose |-> q, shard |-> s]),
                      [purpose |-> q, shard |-> s])
    BY <1>5 DEF Alloc
  <2> DEFINE rec == [purpose |-> q, shard |-> s]
             p == withRecord(pool[n], rec)
  <2>2. /\ UNCHANGED <<disk, created, waiting, cached, completing, saving, reqs, lastID, collected>>
        /\ ~noIdle(pool[n])
    BY <1>5 DEF Alloc, executes, cacheVars
  <2>3. rec \in Record /\ rec.shard = s
    BY CandidatesTyped DEF Record
  <2>4. isShard(s)
    BY CandidatesTyped, Shards
  <2>5. p.recs = pool[n].recs \cup {rec}
    BY <1>1, <2>2, <2>3, RecordedTyped
  <2>6. saveOrRollback(n, p) /\ given' \subseteq given \cup {rec}
    BY <2>1 DEF answerAlloc
  <2> HIDE DEF rec, p
  <2>7. stored' \in {stored, p} /\ pool' \in {pool, [pool EXCEPT ![n] = p]}
    BY <2>6, SaveCases DEF executed, notExecuted
  <2> QED
    BY <2>2, <2>3, <2>4, <2>5, <2>6, <2>7, Shards, SaveIds
<1> QED
  BY <1>2, <1>3, <1>4, <1>5

\* Every step keeps the ids apart.
LEMMA NextIds == TypeInv /\ IdInv /\ [Next]_vars => IdInv'
<1> SUFFICES ASSUME TypeInv, IdInv, [Next]_vars PROVE IdInv'
  OBVIOUS
<1>1. CASE UNCHANGED vars \/ Elect
  BY <1>1, QuietIds DEF vars, Elect, poolVars, etcdVars, jobVars, cacheVars, history
<1>2. ASSUME NEW n \in Nodes,
             Win(n) \/ BeginFails(n) \/ StartAgain(n) \/ StartFails(n) \/ FollowLeader(n)
      PROVE  IdInv'
  BY <1>2, QuietIds DEF Win, BeginFails, StartAgain, StartFails, FollowLeader, poolVars, etcdVars,
     jobVars, cacheVars, history
<1>3. ASSUME NEW n \in Nodes,
             \/ BeginLeader(n) \/ StartJob(n) \/ StopJob(n) \/ RestartNode(n)
             \/ \E p \in Purposes : AllocMissing(n, p)
      PROVE  IdInv'
  BY <1>3, BeginIds, StopIds DEF RestartNode, AllocMissing
<1>4. ASSUME NEW n \in Nodes,
             \/ CreateSave(n) \/ HeartbeatPut(n) \/ GcAllocating(n)
             \/ \E p \in Purposes : AllocRecorded(n, p) \/ Alloc(n, p)
             \/ \E s \in created : HeartbeatNew(n, s)
             \/ \E s \in saving[n] : HeartbeatSave(n, s)
      PROVE  IdInv'
  BY <1>4, PoolIds, HeartbeatIds
<1>5. ASSUME NEW n \in Nodes, MaybeCreate(n) PROVE IdInv'
  BY <1>5, RequestIds
<1>6. ASSUME NEW r \in reqs,
             \/ \E m \in Nodes : CreateKnown(r, m) \/ CreateCheck(r, m)
             \/ CreatePut(r) \/ CreateFails(r) \/ CreateRetry(r) \/ CreateTimeout(r)
      PROVE  IdInv'
  BY <1>6, RequestIds, CheckIds
<1> QED
  BY <1>1, <1>2, <1>3, <1>4, <1>5, <1>6 DEF Next

----------------------------------------------------------------------------
(* No shard is given twice, and answers are in etcd.                       *)

\* As long as no node that is behind saves: what a started job has recorded is
\* in etcd; one that is not behind knows of every allocation that others have
\* recorded or answered, and its offset is past them; and the same is true of
\* the data in etcd, for the node that will load it.
AnswerInv ==
    /\ \A n \in started : pool[n].recs \subseteq stored.recs \cup collected
    /\ \A n \in started \ behind :
          /\ given \subseteq pool[n].recs \cup collected
          /\ \A m \in started : pool[m].recs \subseteq pool[n].recs \cup collected
          /\ \A a \in given \cup collected \cup pool[n].recs : a.shard.seq <= pool[n].offset
    /\ given \subseteq stored.recs \cup collected
    /\ \A a \in given \cup collected \cup stored.recs : a.shard.seq <= stored.offset
    /\ \A a, b \in given \cup collected \cup stored.recs :
          a.shard.seq = b.shard.seq => a.purpose = b.purpose

PurposeInv == clobbered \/ AnswerInv

\* At the start nothing is given.
LEMMA InitPurposes == Init => PurposeInv
BY DEF Init, PurposeInv, AnswerInv, newPool

\* Steps that leave the data and the answers alone; jobs may stop.
LEMMA QuietPurposes ==
    ASSUME PurposeInv, UNCHANGED <<stored, given, collected, behind, clobbered>>,
           started' \subseteq started, \A n \in started' : pool'[n] = pool[n]
    PROVE  PurposeInv'
BY DEF PurposeInv, AnswerInv

\* A job loads the data: a node that took back what it loads is behind now.
LEMMA StartPurposes ==
    ASSUME TypeInv, PurposeInv, NEW n \in Nodes, StartJob(n)
    PROVE  PurposeInv'
<1>1. /\ UNCHANGED <<stored, given, collected, clobbered>>
      /\ n \notin started /\ started' = started \cup {n}
      /\ behind' = (behind \ {n}) \cup {m \in started : tookBack(m)}
  BY DEF StartJob, etcdVars
<1>2. /\ pool'[n] = stored /\ \A m \in started : pool'[m] = pool[m] /\ m # n
  BY <1>1, TypesAre DEF TypeInv, Types, StartJob
<1>3. CASE clobbered
  BY <1>1, <1>3 DEF PurposeInv
<1>4. CASE AnswerInv
  <2>1. \A m \in started' : pool'[m].recs \subseteq stored.recs \cup collected
    BY <1>1, <1>2, <1>4 DEF AnswerInv
  <2>2. ASSUME NEW m \in started' \ behind'
        PROVE  /\ given \subseteq pool'[m].recs \cup collected
               /\ \A k \in started' : pool'[k].recs \subseteq pool'[m].recs \cup collected
               /\ \A a \in given \cup collected \cup pool'[m].recs : a.shard.seq <= pool'[m].offset
    <3>1. CASE m = n
      BY <1>1, <1>2, <1>4, <2>1, <3>1 DEF AnswerInv
    <3>2. CASE m # n
      <4>1. m \in started \ behind /\ stored.recs \subseteq pool[m].recs \cup collected
        BY <1>1, <2>2, <3>2 DEF tookBack
      <4> QED
        BY <1>1, <1>2, <1>4, <4>1 DEF AnswerInv
    <3> QED
      BY <3>1, <3>2
  <2> QED
    BY <1>1, <1>4, <2>1, <2>2 DEF PurposeInv, AnswerInv
<1> QED
  BY <1>3, <1>4 DEF PurposeInv

\* A save by a node that is not behind, of its data with new allocations from
\* beyond its offset.
LEMMA SavePurposes ==
    ASSUME TypeInv, PurposeInv, NEW n \in started, NEW p \in ShardPool, NEW new \in SUBSET Record,
           saveOrRollback(n, p), p.recs = pool[n].recs \cup new,
           pool[n].offset <= p.offset,
           \A a \in new : pool[n].offset < a.shard.seq /\ a.shard.seq <= p.offset,
           \A a, b \in new : a = b,
           given' = IF pool'[n] = p THEN given \cup new ELSE given,
           pool[n] = p => new = {},
           UNCHANGED <<started, collected>>
    PROVE  PurposeInv'
<1> USE DEF PurposeInv
<1>1. pool \in [Nodes -> ShardPool] /\ started \subseteq Nodes /\ n \in Nodes
  BY TypesAre DEF TypeInv, Types
<1>2. CASE notExecuted /\ UNCHANGED pool
  BY <1>2, QuietPurposes DEF notExecuted
<1>3. ASSUME executed(n, p), pool' = pool \/ pool' = [pool EXCEPT ![n] = p]
      PROVE  PurposeInv'
  <2>1. /\ stored' = p /\ behind' = behind \cup (Nodes \ {n})
        /\ clobbered' = (clobbered \/ n \in behind)
    BY <1>3 DEF executed
  <2>2. CASE clobbered'
    BY <2>2
  <2>3. CASE ~clobbered'
    <3>1. AnswerInv /\ n \in started \ behind
      BY <2>1, <2>3
    <3>2. \A m \in started : pool'[m] = pool[m] \/ (m = n /\ pool'[m] = p)
      BY <1>1, <1>3
    <3>3. \A m \in started' \ behind' : m = n
      BY <1>1, <2>1
    <3>4. /\ given \subseteq pool[n].recs \cup collected
          /\ \A m \in started : pool[m].recs \subseteq pool[n].recs \cup collected
          /\ \A a \in given \cup collected \cup pool[n].recs : a.shard.seq <= pool[n].offset
          /\ pool[n].recs \subseteq stored.recs \cup collected
      BY <3>1 DEF AnswerInv
    <3>5. /\ pool[n].offset \in Nat /\ p.offset \in Nat
          /\ \A a \in Record : a.shard.seq \in Nat
          /\ pool[n].recs \subseteq Record /\ given \subseteq Record /\ collected \subseteq Record
      <4>1. pool[n].offset \in Nat /\ p.offset \in Nat /\ pool[n].recs \subseteq Record
        BY <1>1, PoolFields
      <4>2. \A a \in Record : a.shard.seq \in Nat
        BY PoolAssumption DEF Record, Shard
      <4> QED
        BY <4>1, <4>2, TypesAre DEF TypeInv, Types
    <3>6. \A a \in given \cup collected \cup p.recs : a.shard.seq <= p.offset
      BY <3>4, <3>5
    <3>7. \A a, b \in given \cup collected \cup p.recs :
             a.shard.seq = b.shard.seq => a.purpose = b.purpose
      <4>1. \A a, b \in given \cup collected \cup pool[n].recs :
               a.shard.seq = b.shard.seq => a.purpose = b.purpose
        BY <3>1, <3>4 DEF AnswerInv
      <4>2. \A a \in given \cup collected \cup pool[n].recs, b \in new :
               a.shard.seq # b.shard.seq
        BY <3>4, <3>5
      <4> QED
        BY <4>1, <4>2
    <3>8. given' \subseteq given \cup p.recs /\ (pool'[n] = p \/ given' = given)
      OBVIOUS
    <3>9. \A m \in started' : pool'[m].recs \subseteq stored'.recs \cup collected'
      BY <2>1, <3>2, <3>4
    <3>10. /\ given' \subseteq pool'[n].recs \cup collected'
           /\ \A m \in started' : pool'[m].recs \subseteq pool'[n].recs \cup collected'
           /\ \A a \in given' \cup collected' \cup pool'[n].recs : a.shard.seq <= pool'[n].offset
      <4>1. CASE pool'[n] = p
        BY <3>2, <3>4, <3>6, <3>8, <4>1
      <4>2. CASE pool'[n] = pool[n] /\ pool'[n] # p
        BY <3>2, <3>4, <3>8, <4>2
      <4> QED
        BY <3>2, <4>1, <4>2
    <3>11. given' \subseteq stored'.recs \cup collected'
      BY <2>1, <3>4, <3>8
    <3> QED
      BY <2>1, <3>3, <3>6, <3>7, <3>8, <3>9, <3>10, <3>11 DEF AnswerInv
  <2> QED
    BY <2>2, <2>3
<1> QED
  BY <1>2, <1>3, <1>1, SaveCases

\* A shard is counted.
LEMMA CreateSavePurposes ==
    ASSUME TypeInv, PurposeInv, NEW n \in Nodes, CreateSave(n)
    PROVE  PurposeInv'
<1> DEFINE p == [pool[n] EXCEPT !.seq = @ + 1]
<1>1. /\ call[n] = "created" /\ saveOrRollback(n, p) /\ UNCHANGED <<started, collected, given>>
  BY DEF CreateSave
<1>2. n \in started /\ wantsShard(pool[n]) /\ pool[n] \in ShardPool /\ fits(pool[n])
  BY <1>1, TypesAre DEF TypeInv, CallInv, Types
<1>3. p \in ShardPool /\ p.offset = pool[n].offset /\ p.recs = pool[n].recs
  BY <1>2, CountedTyped
<1>4. pool[n].offset \in Nat
  BY <1>2, PoolFields
<1> HIDE DEF p
<1>5. pool[n].offset <= p.offset /\ p.recs = pool[n].recs \cup {}
  BY <1>3, <1>4
<1> DEFINE new == {}
<1>6. /\ new \in SUBSET Record /\ p.recs = pool[n].recs \cup new
      /\ \A a \in new : pool[n].offset < a.shard.seq /\ a.shard.seq <= p.offset
      /\ \A a, b \in new : a = b
      /\ given' = IF pool'[n] = p THEN given \cup new ELSE given
      /\ pool[n] = p => new = {}
  BY <1>1, <1>5
<1> HIDE DEF new
<1> QED
  BY <1>1, <1>2, <1>3, <1>5, <1>6, SavePurposes

\* A shard is given: the one after the offset.
LEMMA AllocPurposes ==
    ASSUME TypeInv, PurposeInv, NEW n \in Nodes, NEW q \in Purposes, Alloc(n, q)
    PROVE  PurposeInv'
<1>1. PICK s \in candidates(n) :
        answerAlloc(n, withRecord(pool[n], [purpose |-> q, shard |-> s]),
                    [purpose |-> q, shard |-> s])
  BY DEF Alloc
<1> DEFINE rec == [purpose |-> q, shard |-> s]
           p == withRecord(pool[n], rec)
<1>2. /\ UNCHANGED <<started, collected>> /\ n \in started /\ ~noIdle(pool[n])
  BY DEF Alloc, executes
<1>3. rec \in Record /\ rec.shard.seq = pool[n].offset + 1
  BY CandidatesTyped DEF Record
<1>4. pool[n] \in ShardPool /\ fits(pool[n]) /\ pool[n].offset \in Nat
  BY PoolFields, TypesAre DEF TypeInv, Types
<1>5. /\ p \in ShardPool /\ p.offset = pool[n].offset + 1 /\ p.recs = pool[n].recs \cup {rec}
  BY <1>2, <1>3, <1>4, RecordedTyped
<1>6. /\ saveOrRollback(n, p)
      /\ given' = IF pool'[n] = p THEN given \cup {rec} ELSE given
  BY <1>1 DEF answerAlloc
<1> HIDE DEF p, rec
<1>7. /\ pool[n].offset <= p.offset /\ pool[n] # p
      /\ \A a \in {rec} : pool[n].offset < a.shard.seq /\ a.shard.seq <= p.offset
  BY <1>3, <1>4, <1>5
<1>8. {rec} \in SUBSET Record /\ \A a, b \in {rec} : a = b
  BY <1>3
<1> QED
  BY <1>2, <1>5, <1>6, <1>7, <1>8, SavePurposes

\* The answer is an allocation that was recorded before.
LEMMA RecordedPurposes ==
    ASSUME PurposeInv, NEW n \in Nodes, NEW q \in Purposes, AllocRecorded(n, q)
    PROVE  PurposeInv'
<1>1. /\ UNCHANGED <<stored, pool, started, collected, behind, clobbered>>
      /\ n \in started /\ given \subseteq given' /\ given' \subseteq given \cup pool[n].recs
  BY DEF AllocRecorded, executes, recordsOf, etcdVars, jobVars
<1>2. CASE clobbered
  BY <1>1, <1>2 DEF PurposeInv
<1>3. CASE AnswerInv
  <2>1. pool[n].recs \subseteq stored.recs \cup collected
    BY <1>1, <1>3 DEF AnswerInv
  <2>2. \A m \in started \ behind : pool[n].recs \subseteq pool[m].recs \cup collected
    BY <1>1, <1>3 DEF AnswerInv
  <2>3. given' \cup collected \cup stored.recs \subseteq given \cup collected \cup stored.recs
    BY <1>1, <2>1
  <2>4. \A m \in started \ behind : given' \cup collected \cup pool[m].recs
                                    \subseteq given \cup collected \cup pool[m].recs
    BY <1>1, <2>2
  <2> QED
    BY <1>1, <1>3, <2>1, <2>2, <2>3, <2>4 DEF PurposeInv, AnswerInv
<1> QED
  BY <1>2, <1>3 DEF PurposeInv

\* gcAllocating drops records: those of others are in etcd or were dropped.
LEMMA GcPurposes ==
    ASSUME TypeInv, PurposeInv, NEW n \in Nodes, GcAllocating(n)
    PROVE  PurposeInv'
<1> DEFINE p == [pool[n] EXCEPT !.recs = {}]
<1>1. /\ n \in started /\ pool' = [pool EXCEPT ![n] = p]
      /\ executed(n, p) \/ notExecuted
      /\ collected' = collected \cup pool[n].recs
      /\ UNCHANGED <<started, given>>
      /\ p.offset = pool[n].offset /\ p.recs = {}
  BY GcCases
<1> HIDE DEF p
<1>2. \A m \in started : pool'[m] = IF m = n THEN p ELSE pool[m]
  BY <1>1, TypesAre DEF TypeInv, Types
<1>3. CASE clobbered'
  BY <1>3 DEF PurposeInv
<1>4. ASSUME ~clobbered', AnswerInv PROVE PurposeInv'
  <2>1. pool[n].recs \subseteq stored.recs \cup collected
    BY <1>1, <1>4 DEF AnswerInv
  <2>2. \A m \in started : pool'[m].recs \subseteq pool[m].recs /\ pool'[m].offset = pool[m].offset
    BY <1>1, <1>2
  <2>3. \A m \in started : pool[m].recs \cup collected \subseteq pool'[m].recs \cup collected'
    BY <1>1, <1>2
  <2>4. \A m \in started \ behind : collected' \subseteq pool[m].recs \cup collected
    BY <1>1, <1>4 DEF AnswerInv
  <2>5. \A m \in started \ behind :
          /\ given \subseteq pool'[m].recs \cup collected'
          /\ \A k \in started : pool'[k].recs \subseteq pool'[m].recs \cup collected'
          /\ \A a \in given \cup collected' \cup pool'[m].recs : a.shard.seq <= pool'[m].offset
    BY <1>4, <2>2, <2>3, <2>4 DEF AnswerInv
  <2>6. given \cup collected' \cup stored.recs \subseteq given \cup collected \cup stored.recs
    BY <1>1, <2>1
  <2>7. CASE notExecuted
    <3>1. UNCHANGED <<stored, behind, clobbered>>
      BY <2>7 DEF notExecuted
    <3>2. /\ \A m \in started : pool'[m].recs \subseteq stored.recs \cup collected'
          /\ given \subseteq stored.recs \cup collected'
      BY <1>1, <1>4, <2>2 DEF AnswerInv
    <3>3. /\ \A a \in given \cup collected' \cup stored.recs : a.shard.seq <= stored.offset
          /\ \A a, b \in given \cup collected' \cup stored.recs :
                a.shard.seq = b.shard.seq => a.purpose = b.purpose
      BY <1>4, <2>6 DEF AnswerInv
    <3> QED
      BY <1>1, <2>5, <3>1, <3>2, <3>3 DEF PurposeInv, AnswerInv
  <2>8. CASE executed(n, p)
    <3>1. /\ stored' = p /\ behind \subseteq behind' /\ n \notin behind
      BY <1>4, <2>8 DEF executed
    <3>2. /\ \A m \in started : pool[m].recs \subseteq collected'
          /\ given \subseteq collected'
          /\ \A a \in given \cup collected' : a.shard.seq <= pool[n].offset
      BY <1>1, <1>4, <3>1 DEF AnswerInv
    <3>3. \A a, b \in given \cup collected' : a.shard.seq = b.shard.seq => a.purpose = b.purpose
      BY <1>4, <2>6 DEF AnswerInv
    <3> QED
      BY <1>1, <2>2, <2>5, <3>1, <3>2, <3>3 DEF PurposeInv, AnswerInv
  <2> QED
    BY <1>1, <2>7, <2>8
<1>5. clobbered => clobbered'
  BY <1>1 DEF executed, notExecuted
<1> QED
  BY <1>3, <1>4, <1>5 DEF PurposeInv

\* Every step keeps what was given apart.
LEMMA NextPurposes == TypeInv /\ PurposeInv /\ [Next]_vars => PurposeInv'
<1> SUFFICES ASSUME TypeInv, PurposeInv, [Next]_vars PROVE PurposeInv'
  OBVIOUS
<1>1. CASE UNCHANGED vars \/ Elect
  BY <1>1, QuietPurposes DEF vars, Elect, poolVars, etcdVars, jobVars, history
<1>2. ASSUME NEW n \in Nodes,
             \/ Win(n) \/ BeginFails(n) \/ BeginLeader(n) \/ StartAgain(n) \/ StartFails(n)
             \/ FollowLeader(n) \/ MaybeCreate(n) \/ HeartbeatPut(n)
             \/ \E s \in created : HeartbeatNew(n, s)
             \/ \E s \in saving[n] : HeartbeatSave(n, s)
      PROVE  PurposeInv'
  BY <1>2, QuietPurposes DEF Win, BeginFails, BeginLeader, StartAgain, StartFails, FollowLeader,
     MaybeCreate, HeartbeatPut, HeartbeatNew, HeartbeatSave, poolVars, etcdVars, jobVars, history
<1>3. ASSUME NEW n \in Nodes, StopJob(n) \/ Exit(n) PROVE PurposeInv'
  <2>1. /\ UNCHANGED <<stored, given, collected, behind, clobbered>>
        /\ started' = started \ {n} /\ pool' = [pool EXCEPT ![n] = newPool]
    BY <1>3 DEF StopJob, Exit, etcdVars, history
  <2>2. \A m \in started' : pool'[m] = pool[m]
    BY <2>1, TypesAre DEF TypeInv, Types
  <2> QED
    BY <2>1, <2>2, QuietPurposes
<1>4. ASSUME NEW n \in Nodes, StartJob(n) \/ CreateSave(n) \/ GcAllocating(n)
      PROVE  PurposeInv'
  BY <1>4, StartPurposes, CreateSavePurposes, GcPurposes
<1>5. ASSUME NEW n \in Nodes, NEW p \in Purposes, AllocRecorded(n, p) \/ Alloc(n, p)
      PROVE  PurposeInv'
  BY <1>5, RecordedPurposes, AllocPurposes
<1>6. ASSUME NEW r \in reqs,
             \/ \E m \in Nodes : CreateKnown(r, m) \/ CreateCheck(r, m)
             \/ CreatePut(r) \/ CreateFails(r) \/ CreateRetry(r) \/ CreateTimeout(r)
      PROVE  PurposeInv'
  <2>1. UNCHANGED <<stored, pool, started, given, collected, behind, clobbered>>
    BY <1>6 DEF CreateKnown, CreateCheck, CreatePut, CreateFails, CreateRetry, CreateTimeout,
       etcdVars, jobVars, history
  <2> QED
    BY <2>1, QuietPurposes
<1> QED
  BY <1>1, <1>2, <1>3, <1>4, <1>5, <1>6 DEF Next, RestartNode, AllocMissing

----------------------------------------------------------------------------
PoolInv == TypeInv /\ DiskInv /\ IdInv /\ PurposeInv

\* The invariant holds in every state of the pool.
LEMMA PoolInvariant == Spec => []PoolInv
<1>1. Init => PoolInv
  BY InitTypes, InitDisk, InitIds, InitPurposes DEF PoolInv
<1>2. PoolInv /\ [Next]_vars => PoolInv'
  BY NextTypes, NextDisk, NextIds, NextPurposes DEF PoolInv
<1> QED
  BY <1>1, <1>2, PTL DEF Spec

\* Every variable of the pool keeps its type, and a pool never has more idle
\* shards than its capacity: maybeCreate decides and saves under one lock.
THEOREM PoolTypes == Spec => []TypeOK
<1>1. PoolInv => TypeOK
  BY DEF PoolInv, TypeInv
<1> QED
  BY PoolInvariant, <1>1, PTL

\* The data of the job counts no shard that is not stored as a resource,
\* whatever of maybeCreate's steps fail, time out or are executed late, except
\* those that the heartbeat of a duplicate removed.
THEOREM CountedShardsExist == Spec => []CreatedBeforeCounted
<1>1. PoolInv => CreatedBeforeCounted
  BY DEF PoolInv, DiskInv
<1> QED
  BY PoolInvariant, <1>1, PTL

\* No shard is given to two purposes unless a node that is behind has saved.
THEOREM ShardsGivenOnce == Spec => []GivenOnce
<1>1. PoolInv => GivenOnce
  <2> SUFFICES ASSUME PoolInv, AnswerInv, NEW a \in given, NEW b \in given,
                      a.shard.id = b.shard.id
               PROVE  a.purpose = b.purpose
    BY DEF PoolInv, PurposeInv, GivenOnce
  <2>1. a.shard \in Shard /\ b.shard \in Shard
    BY TypesAre DEF PoolInv, TypeInv, Types, Record
  <2>2. isShard(a.shard) /\ isShard(b.shard)
    BY Shards
  <2>3. a.shard = b.shard
    BY <2>1, <2>2 DEF PoolInv, IdInv
  <2> QED
    BY <2>3 DEF AnswerInv
<1> QED
  BY PoolInvariant, <1>1, PTL

\* An answered allocation is in etcd until gcAllocating drops it, unless a node
\* that is behind has saved.
THEOREM AnswersStored == Spec => []AnswerIsStored
<1>1. PoolInv => AnswerIsStored
  BY DEF PoolInv, PurposeInv, AnswerInv, AnswerIsStored
<1> QED
  BY PoolInvariant, <1>1, PTL
=============================================================================
