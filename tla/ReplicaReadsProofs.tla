------------------------- MODULE ReplicaReadsProofs -------------------------
(***************************************************************************)
(* Reads are answered once, in the order of the two queues, and see every  *)
(* write that a client could know of.  The argument:                       *)
(*                                                                         *)
(*  - every step of ReplicaReads is a step of the pipeline or leaves it    *)
(*    alone, so that PipelineInv holds here too;                           *)
(*  - a read is in one queue, and not answered, until it leaves it         *)
(*    (HomesInv), and one that raft has heard of never comes back          *)
(*    (GivenInv);                                                          *)
(*  - a leader starts its leadership with empty queues, because the Ready  *)
(*    of its candidacy cleared them (RoundInv), and from then on raft and  *)
(*    the replica hold the same reads in the same order (AgreeInv);        *)
(*  - what clients know is chosen, and the leader knows of it or waits for *)
(*    the first entry of its term (KnownInv), so that the index of a       *)
(*    confirmed read covers what was known when it came in (CoverInv);     *)
(*  - the data are at least those of the applied index (FreshInv), unless  *)
(*    a snapshot failed; then the replica follows, with no read to execute *)
(*    (TickInv).                                                           *)
(***************************************************************************)
EXTENDS PipelineLogProofs, ReplicaReads, FiniteSetTheorems

----------------------------------------------------------------------------
(* The invariant.                                                          *)

\* A read is in one place of one queue, and has no answer until it leaves it.
HomesInv ==
    /\ \A i, j \in DOMAIN readReqs : readReqs[i] = readReqs[j] => i = j
    /\ \A i, j \in DOMAIN readBatch : readBatch[i] = readBatch[j] => i = j
    /\ \A i, j \in DOMAIN pendingReads : pendingReads[i].read = pendingReads[j].read => i = j
    /\ ToSet(readReqs) \cap ToSet(readBatch) = {}
    /\ (ToSet(readReqs) \cup ToSet(readBatch)) \cap readsOf(pendingReads) = {}
    /\ \A r \in Reads : taken(r) => readReplies[r] = <<>>
    /\ \A r \in Reads : Len(readReplies[r]) <= 1

\* The confirmed reads are those at the head of the queue, and an index that
\* raft gives out is not 0.
IndexInv ==
    /\ \A i \in DOMAIN pendingReads : pendingReads[i].index > 0 <=> i <= readyToRead
    /\ \A i \in DOMAIN readOnly : readOnly[i].index > 0
    /\ \A i \in DOMAIN readStates : readStates[i].index > 0
    /\ \A m \in readNet : m.kind = "resp" => m.index > 0

\* The reads raft has heard of wait in the queue or are answered.
given == readsOf(readOnly) \cup readsOf(readStates) \cup dropped \cup {m.read : m \in readNet}

GivenInv ==
    \A r \in given : /\ r \notin ToSet(readReqs) \cup ToSet(readBatch)
                     /\ r \in readsOf(pendingReads) \/ readReplies[r] # <<>>

\* The Ready that sends the vote requests has cleared the reads of an earlier
\* leadership, and a new leader accepts none before its first Ready.
RoundInv ==
    /\ role # "leader" => readOnly = <<>>
    /\ prevSoft[1] # "leader" => pendingReads = <<>>
    /\ (role = "leader" /\ prevSoft[1] # "leader") => pc # "idle" /\ cachedLead # "self"
    /\ (role = "candidate" /\ asked) => prevSoft[1] = "candidate" /\ readStates = <<>>

\* f lists the numbers of K, m of them, in increasing order.
Lists(f, m, K) ==
    /\ f \in [1 .. m -> K]
    /\ \A i, j \in 1 .. m : i < j => f[i] < f[j]
    /\ \A k \in K : \E i \in 1 .. m : f[i] = k

\* The reads the replica waits for, those raft will report, and that they are
\* the same in the same order.
expectedAt(q, n, D) == {i \in n + 1 .. Len(q) : q[i].read \notin D}

Agree(q, n, D, c) ==
    \E f \in [1 .. Len(c) -> expectedAt(q, n, D)] :
        /\ Lists(f, Len(c), expectedAt(q, n, D))
        /\ \A j \in 1 .. Len(c) : q[f[j]].read = c[j].read

AgreeInv ==
    (role = "leader" /\ running) =>
        Agree(pendingReads, readyToRead, dropped, readStates \o readOnly)

\* No entry is of a term later than the newest leader's.
TermsUpTo(log, t) == \A i \in 1 .. Len(log) : log[i].term <= t

LogTermsInv ==
    /\ TermsUpTo(glog, gterm)
    /\ TermsUpTo(rlog, gterm)
    /\ role = "leader" => rterm <= gterm

\* The reads whose index is known: at the head of the queue, or in a ReadState.
settled == {pendingReads[i] : i \in 1 .. readyToRead}
           \cup {readStates[i] : i \in 1 .. Len(readStates)}

\* A quorum has acknowledged the read, or a later one of the leader's queue.
hasAck(r) == [kind |-> "ack", read |-> r] \in readNet
acked(i) == \E j \in i .. Len(readOnly) : hasAck(readOnly[j].read)

\* What clients may know is chosen; the leader of the group has learned it,
\* or it is from before its term.
KnownInv ==
    /\ told <= gcommit
    /\ (gself /\ role = "leader") =>
          told <= rcommit \/ \A i \in 1 .. told : rlog[i].term < rterm
    /\ \A r \in Reads : toldAt[r] <= told

\* The index of a read covers what was known when the read was submitted,
\* once a quorum confirms it.
CoverInv ==
    /\ \A i \in DOMAIN readOnly :
          (gself \/ acked(i)) => toldAt[readOnly[i].read] <= readOnly[i].index
    /\ \A m \in readNet : m.kind = "resp" => toldAt[m.read] <= m.index
    /\ \A x \in settled : toldAt[x.read] <= x.index

\* The data are those of a state of the shard at least as new as what the
\* event worker takes for applied, or will, unless a snapshot is coming or the
\* last one failed.
FreshAt(b) ==
    /\ data = after(gshards, b).data
    /\ ~Queued(jobs, "snapshot") =>
          psApplied <= b /\ \A i \in 1 .. Len(results) : results[i].applied <= b

FreshInv == intact => \E b \in 0 .. gcommit : FreshAt(b)

\* A replica whose tick is stopped follows, and executes no read: the reads of
\* its leadership are answered, or will be before anything is applied.
TickInv ==
    stopRaftTick => /\ role = "follower"
                    /\ \/ prevSoft[1] # "leader"
                       \/ snapPend # 0 /\ psCommit = psApplied

----------------------------------------------------------------------------
(* The pipeline under the reads.                                           *)

\* What a step does to the pipeline is a step of the pipeline.
LEMMA ReadNextIsNext == ReadNext => [Next]_vars
<1>1. SUFFICES ASSUME ReadNext PROVE [Next]_vars
  OBVIOUS
<1>2. CASE \E r \in Reads : SubmitRead(r)
  BY <1>2 DEF SubmitRead
<1>3. CASE \E r \in Reads : SendReadAck(r)
  BY <1>3 DEF SendReadAck
<1>4. CASE \E r \in Reads : RecvReadAck(r)
  BY <1>4 DEF RecvReadAck
<1>5. CASE \E r \in Reads : AnswerForwarded(r)
  BY <1>5 DEF AnswerForwarded
<1>6. CASE RecvReadIndexResp
  BY <1>6 DEF RecvReadIndexResp
<1>7. CASE StepWithReads
  BY <1>7 DEF StepWithReads, Next
<1>8. CASE ReadLoop
  BY <1>8 DEF ReadLoop, StopWithReads, ApplyResultWithReads, RequestWithReads, ReadRefused,
     ReadForwarded, ReadAccepted, ReadyWithReads, SnapshotReadyWithReads, Next, Loop
<1>9. CASE ReadWorker
  BY <1>9 DEF ReadWorker, ApplyWithReads, Next, Worker
<1>10. CASE GroupWithReads
  BY <1>10 DEF GroupWithReads, Next
<1>11. CASE (\E c \in Cmds : Submit(c)) \/ HandleGCPeerMsg
  BY <1>11 DEF Next
<1>12. QED
  BY <1>1, <1>2, <1>3, <1>4, <1>5, <1>6, <1>7, <1>8, <1>9, <1>10, <1>11 DEF ReadNext

\* The replica with its reads implements the pipeline: execReadIndex,
\* doApplyReads and the read index messages of raft change nothing of the log,
\* the jobs and the callbacks of writes, and what is done on the way of a
\* write is all done, so that everything proved of the pipeline holds here.
THEOREM ReadsRefinePipeline == ReadSpec => Spec
<1>1. ReadInit => Init
  BY DEF ReadInit
<1>2. [ReadNext]_<<vars, readVars>> => [Next]_vars
  BY ReadNextIsNext
<1>3. QED
  BY <1>1, <1>2, PTL DEF ReadSpec, Spec

----------------------------------------------------------------------------
(* The numbers of a set in increasing order.                               *)

upTo(K, i) == {k \in K : k <= i}

\* An increasing list is one to one.
LEMMA ListInjective ==
    ASSUME NEW K \in SUBSET Nat, NEW m \in Nat, NEW f, Lists(f, m, K)
    PROVE  /\ \A i \in 1 .. m : f[i] \in K /\ f[i] \in Nat
           /\ \A i, j \in 1 .. m : f[i] = f[j] => i = j
           /\ \A i, j \in 1 .. m : f[i] <= f[j] => i <= j
           /\ \A i, j \in 1 .. m : f[i] < f[j] => i < j
<1>1. \A i \in 1 .. m : f[i] \in K /\ f[i] \in Nat
  BY DEF Lists
<1>2. \A i, j \in 1 .. m : i < j => f[i] < f[j]
  BY DEF Lists
<1>3. QED
  BY <1>1, <1>2

\* There are as many numbers in the set as in the list, and the j-th of the
\* list has j numbers of the set up to it.
LEMMA ListCounts ==
    ASSUME NEW K \in SUBSET Nat, NEW m \in Nat, NEW f, Lists(f, m, K)
    PROVE  /\ IsFiniteSet(K) /\ Cardinality(K) = m
           /\ \A j \in 1 .. m : Cardinality(upTo(K, f[j])) = j
<1>0. /\ \A i \in 1 .. m : f[i] \in K /\ f[i] \in Nat
      /\ \A i, j \in 1 .. m : f[i] = f[j] => i = j
  BY ListInjective
<1>1. IsFiniteSet(1 .. m) /\ Cardinality(1 .. m) = m
  BY FS_Interval
<1>2. f \in Bijection(1 .. m, K)
  <2>1. f \in [1 .. m -> K] /\ (\A k \in K : \E i \in 1 .. m : f[i] = k)
    BY DEF Lists
  <2>2. \A i, j \in 1 .. m : f[i] = f[j] => i = j
    BY ListInjective
  <2>3. QED
    BY <2>1, <2>2 DEF Bijection, Injection, Surjection, IsInjective
<1>3. IsFiniteSet(K) /\ Cardinality(K) = m
  BY <1>1, <1>2, FS_Bijection DEF ExistsBijection
<1>4. ASSUME NEW j \in 1 .. m PROVE Cardinality(upTo(K, f[j])) = j
  <2> DEFINE g == [i \in 1 .. j |-> f[i]]
  <2>1. \A i \in 1 .. j : i \in 1 .. m /\ f[i] \in upTo(K, f[j])
    <3>1. SUFFICES ASSUME NEW i \in 1 .. j PROVE i \in 1 .. m /\ f[i] \in upTo(K, f[j])
      OBVIOUS
    <3>2. i \in 1 .. m /\ f[i] \in K /\ f[i] \in Nat /\ f[j] \in Nat
      BY <1>0
    <3>3. i < j => f[i] < f[j]
      BY <3>2 DEF Lists
    <3>4. f[i] <= f[j]
      BY <3>2, <3>3
    <3>5. QED
      BY <3>2, <3>4 DEF upTo
  <2>2. \A k \in upTo(K, f[j]) : \E i \in 1 .. j : f[i] = k
    <3>1. SUFFICES ASSUME NEW k \in K, k <= f[j] PROVE \E i \in 1 .. j : f[i] = k
      BY DEF upTo
    <3>2. PICK i \in 1 .. m : f[i] = k
      BY DEF Lists
    <3>3. i <= j
      BY <3>1, <3>2, ListInjective
    <3>4. QED
      BY <3>2, <3>3
  <2>3. g \in Bijection(1 .. j, upTo(K, f[j]))
    <3>1. g \in [1 .. j -> upTo(K, f[j])]
      BY <2>1
    <3>2. \A a, b \in 1 .. j : g[a] = g[b] => a = b
      BY <1>0, <2>1
    <3>3. \A k \in upTo(K, f[j]) : \E i \in 1 .. j : g[i] = k
      BY <2>2
    <3>4. QED
      BY <3>1, <3>2, <3>3 DEF Bijection, Injection, Surjection, IsInjective
  <2>4. IsFiniteSet(1 .. j) /\ Cardinality(1 .. j) = j
    BY FS_Interval
  <2>5. QED
    BY <2>3, <2>4, FS_Bijection DEF ExistsBijection
<1>5. QED
  BY <1>3, <1>4

\* A larger bound, more numbers.
LEMMA UpToGrows ==
    ASSUME NEW K \in SUBSET Nat, IsFiniteSet(K), NEW i \in K
    PROVE  /\ Cardinality(upTo(K, i)) \in 1 .. Cardinality(K)
           /\ \A j \in K : i < j => Cardinality(upTo(K, i)) < Cardinality(upTo(K, j))
<1>1. \A j \in K : /\ IsFiniteSet(upTo(K, j)) /\ Cardinality(upTo(K, j)) \in Nat
                   /\ Cardinality(upTo(K, j)) <= Cardinality(K)
  <2>1. SUFFICES ASSUME NEW j \in K
                 PROVE  /\ IsFiniteSet(upTo(K, j)) /\ Cardinality(upTo(K, j)) \in Nat
                        /\ Cardinality(upTo(K, j)) <= Cardinality(K)
    OBVIOUS
  <2>2. upTo(K, j) \in SUBSET K
    BY DEF upTo
  <2>3. QED
    BY <2>2, FS_Subset, FS_CardinalityType
<1>2. Cardinality(upTo(K, i)) # 0
  <2>1. i \in upTo(K, i)
    BY DEF upTo
  <2>2. QED
    BY <1>1, <2>1, FS_EmptySet
<1>3. Cardinality(upTo(K, i)) \in 1 .. Cardinality(K)
  <2>1. Cardinality(K) \in Nat
    BY FS_CardinalityType
  <2>2. QED
    BY <1>1, <1>2, <2>1
<1>4. ASSUME NEW j \in K, i < j PROVE Cardinality(upTo(K, i)) < Cardinality(upTo(K, j))
  <2>1. upTo(K, i) \in SUBSET upTo(K, j)
    <3>1. \A k \in K : k \in Nat /\ i \in Nat /\ j \in Nat
      OBVIOUS
    <3>2. \A k \in K : k <= i => k <= j
      BY <1>4, <3>1
    <3>3. QED
      BY <3>2 DEF upTo
  <2>2. j \in upTo(K, j) /\ j \notin upTo(K, i)
    BY <1>4 DEF upTo
  <2>3. /\ Cardinality(upTo(K, i)) <= Cardinality(upTo(K, j))
        /\ Cardinality(upTo(K, j)) # Cardinality(upTo(K, i))
    BY <1>1, <2>1, <2>2, FS_Subset
  <2>4. QED
    BY <1>1, <2>3
<1>5. QED
  BY <1>3, <1>4

\* nth lists every finite set of numbers.
LEMMA NthLists ==
    ASSUME NEW K \in SUBSET Nat, IsFiniteSet(K)
    PROVE  Lists([j \in 1 .. Cardinality(K) |-> nth(K, j)], Cardinality(K), K)
<1> DEFINE m == Cardinality(K)
           c == [i \in K |-> Cardinality(upTo(K, i))]
           f == [j \in 1 .. m |-> nth(K, j)]
<1>1. m \in Nat /\ IsFiniteSet(1 .. m) /\ Cardinality(1 .. m) = m
  BY FS_CardinalityType, FS_Interval
<1>2. \A i \in K : c[i] \in 1 .. m
  BY UpToGrows
<1>3. \A i, j \in K : i < j => c[i] < c[j]
  BY UpToGrows
<1> HIDE DEF m
<1>4. \A i, j \in K : c[i] = c[j] => i = j
  <2>1. SUFFICES ASSUME NEW i \in K, NEW j \in K, c[i] = c[j], i # j PROVE FALSE
    OBVIOUS
  <2>2. i \in Nat /\ j \in Nat /\ c[i] \in Nat
    BY <1>1, <1>2
  <2> HIDE DEF c
  <2>3. i < j \/ j < i
    BY <2>1, <2>2
  <2>4. QED
    BY <1>3, <2>1, <2>2, <2>3
<1>5. c \in Injection(K, 1 .. m)
  <2>1. c \in [K -> 1 .. m]
    BY <1>2
  <2>2. QED
    BY <1>4, <2>1 DEF Injection, IsInjective
<1>6. c \in Surjection(K, 1 .. m)
  <2>1. Cardinality(K) = Cardinality(1 .. m)
    BY <1>1 DEF m
  <2>2. QED
    BY <1>1, <1>5, <2>1, FS_Injection
<1>7. \A j \in 1 .. m : \E i \in K : c[i] = j
  BY <1>6 DEF Surjection
<1>8. \A j \in 1 .. m : nth(K, j) \in K /\ c[nth(K, j)] = j
  <2>1. SUFFICES ASSUME NEW j \in 1 .. m PROVE nth(K, j) \in K /\ c[nth(K, j)] = j
    OBVIOUS
  <2>2. \E i \in K : Cardinality({k \in K : k <= i}) = j
    BY <1>7 DEF upTo
  <2>3. nth(K, j) \in K /\ Cardinality({k \in K : k <= nth(K, j)}) = j
    BY <2>2 DEF nth
  <2>4. QED
    BY <2>3 DEF upTo
<1> HIDE DEF c
<1>9. \A i, j \in 1 .. m : i < j => nth(K, i) < nth(K, j)
  <2>1. SUFFICES ASSUME NEW i \in 1 .. m, NEW j \in 1 .. m, i < j, ~(nth(K, i) < nth(K, j))
                 PROVE  FALSE
    OBVIOUS
  <2>2. /\ nth(K, i) \in Nat /\ nth(K, j) \in Nat /\ i \in Nat /\ j \in Nat
        /\ nth(K, i) \in K /\ nth(K, j) \in K /\ c[nth(K, i)] = i /\ c[nth(K, j)] = j
    <3>1. nth(K, i) \in K /\ nth(K, j) \in K /\ c[nth(K, i)] = i /\ c[nth(K, j)] = j
      BY <1>8, Zenon
    <3>2. nth(K, i) \in Nat /\ nth(K, j) \in Nat
      BY <3>1, Zenon
    <3>3. i \in Nat /\ j \in Nat
      BY <1>1
    <3>4. QED
      BY <3>1, <3>2, <3>3, Zenon
  <2>3. nth(K, j) = nth(K, i) \/ nth(K, j) < nth(K, i)
    BY <2>1, <2>2
  <2>4. QED
    BY <1>3, <2>1, <2>2, <2>3
<1>10. \A k \in K : \E i \in 1 .. m : nth(K, i) = k
  BY <1>2, <1>4, <1>8
<1>11. Lists(f, m, K)
  BY <1>8, <1>9, <1>10 DEF Lists
<1>12. QED
  BY <1>11 DEF m

\* Any list of the set is nth.
LEMMA ListIsNth ==
    ASSUME NEW K \in SUBSET Nat, NEW m \in Nat, NEW f, Lists(f, m, K)
    PROVE  Cardinality(K) = m /\ \A j \in 1 .. m : nth(K, j) = f[j]
<1>1. /\ IsFiniteSet(K) /\ Cardinality(K) = m
      /\ \A j \in 1 .. m : Cardinality(upTo(K, f[j])) = j
  BY ListCounts
<1>2. ASSUME NEW j \in 1 .. m PROVE nth(K, j) = f[j]
  <2> DEFINE g == [i \in 1 .. m |-> nth(K, i)]
  <2>1. Lists(g, m, K)
    BY <1>1, NthLists
  <2>2. Cardinality(upTo(K, g[j])) = j
    BY <2>1, ListCounts
  <2>3. f[j] \in K /\ g[j] \in K /\ f[j] \in Nat /\ g[j] \in Nat
    <3>1. f[j] \in K /\ g[j] \in K
      BY <2>1 DEF Lists
    <3>2. QED
      BY <3>1
  <2> HIDE DEF g
  <2>4. f[j] = g[j]
    <3>1. SUFFICES ASSUME f[j] < g[j] \/ g[j] < f[j] PROVE FALSE
      BY <2>3
    <3>2. Cardinality(upTo(K, f[j])) = j /\ j \in Nat
      BY <1>1
    <3>3. QED
      BY <1>1, <2>2, <2>3, <3>1, <3>2, UpToGrows
  <2>5. QED
    BY <2>4 DEF g
<1>3. QED
  BY <1>1, <1>2

----------------------------------------------------------------------------
(* What executing reads leaves of a queue.                                 *)

\* A queue whose first n reads are confirmed.
QueueOK(q, n) ==
    /\ q \in Seq(ReadState)
    /\ n \in 0 .. Len(q)
    /\ \A i, j \in 1 .. Len(q) : q[i].read = q[j].read => i = j
    /\ \A i \in 1 .. Len(q) : q[i].index > 0 <=> i <= n

\* The positions that are executed, and those kept.
doneAt(q, a) == {i \in 1 .. Len(q) : mayRead(q[i], a)}
keptAt(q, a) == {i \in 1 .. Len(q) : ~mayRead(q[i], a)}

LEMMA QueueType ==
    ASSUME NEW q, NEW n, QueueOK(q, n)
    PROVE  /\ Len(q) \in Nat /\ DOMAIN q = 1 .. Len(q) /\ n \in Nat /\ n <= Len(q)
           /\ \A i \in 1 .. Len(q) : q[i] \in ReadState /\ q[i].read \in Reads /\ q[i].index \in Nat
<1>1. q \in Seq(ReadState) /\ n \in 0 .. Len(q)
  BY DEF QueueOK
<1>2. Len(q) \in Nat /\ DOMAIN q = 1 .. Len(q)
  BY <1>1, LenProperties
<1>3. \A i \in 1 .. Len(q) : q[i] \in ReadState
  BY <1>1, ElementOfSeq
<1>4. QED
  BY <1>1, <1>2, <1>3 DEF ReadState

\* As many reads are executed as positions, all of them confirmed.
LEMMA DoneCounts ==
    ASSUME NEW q, NEW n, QueueOK(q, n), NEW a \in Nat
    PROVE  /\ doneAt(q, a) \in SUBSET (1 .. n)
           /\ executable(q, a) = {q[i].read : i \in doneAt(q, a)}
           /\ Cardinality(executable(q, a)) \in 0 .. n
           /\ IsFiniteSet(keptAt(q, a) \cap 1 .. n)
           /\ Cardinality(keptAt(q, a) \cap 1 .. n) = n - Cardinality(executable(q, a))
<1> DEFINE E == doneAt(q, a)
           S == executable(q, a)
<1>0. /\ Len(q) \in Nat /\ DOMAIN q = 1 .. Len(q) /\ n \in Nat /\ n <= Len(q)
      /\ \A i \in 1 .. Len(q) : q[i].read \in Reads /\ q[i].index \in Nat
  BY QueueType
<1>1. E \in SUBSET (1 .. n)
  <2>1. SUFFICES ASSUME NEW i \in 1 .. Len(q), mayRead(q[i], a) PROVE i \in 1 .. n
    BY DEF doneAt
  <2>2. q[i].index > 0
    BY <2>1 DEF mayRead
  <2>3. i <= n
    BY <2>2 DEF QueueOK
  <2>4. QED
    BY <1>0, <2>3
<1>2. S = {q[i].read : i \in E}
  BY <1>0 DEF executable, doneAt
<1>3. IsFiniteSet(1 .. n) /\ Cardinality(1 .. n) = n
  BY <1>0, FS_Interval
<1>4. IsFiniteSet(E) /\ Cardinality(E) \in Nat /\ Cardinality(E) <= n
  BY <1>1, <1>3, FS_Subset, FS_CardinalityType
<1>5. Cardinality(S) = Cardinality(E)
  <2> DEFINE g == [i \in E |-> q[i].read]
  <2>1. g \in [E -> S]
    BY <1>2
  <2>2. \A i, j \in E : g[i] = g[j] => i = j
    <3>1. \A i \in E : i \in 1 .. Len(q)
      BY DEF doneAt
    <3>2. QED
      BY <3>1 DEF QueueOK
  <2>3. \A r \in S : \E i \in E : g[i] = r
    BY <1>2
  <2>4. g \in Bijection(E, S)
    BY <2>1, <2>2, <2>3 DEF Bijection, Injection, Surjection, IsInjective
  <2>5. QED
    BY <1>4, <2>4, FS_Bijection DEF ExistsBijection
<1>6. keptAt(q, a) \cap 1 .. n = (1 .. n) \ E
  <2>1. \A i \in 1 .. n : i \in 1 .. Len(q)
    BY <1>0
  <2>2. QED
    BY <2>1 DEF keptAt, doneAt
<1>7. (1 .. n) \cap E = E
  BY <1>1
<1>8. /\ IsFiniteSet((1 .. n) \ E)
      /\ Cardinality((1 .. n) \ E) = Cardinality(1 .. n) - Cardinality((1 .. n) \cap E)
  BY <1>3, FS_Difference
<1> HIDE DEF E, S
<1>9. Cardinality(S) \in 0 .. n
  BY <1>0, <1>4, <1>5
<1>10. /\ IsFiniteSet(keptAt(q, a) \cap 1 .. n)
       /\ Cardinality(keptAt(q, a) \cap 1 .. n) = n - Cardinality(S)
  BY <1>3, <1>5, <1>6, <1>7, <1>8
<1>11. QED
  BY <1>1, <1>2, <1>9, <1>10 DEF E, S

\* The positions that stay: those among the first n, then all the others.
LEMMA KeptList ==
    ASSUME NEW q, NEW n, QueueOK(q, n), NEW a \in Nat,
           NEW d, d = Cardinality(executable(q, a))
    PROVE  \E h \in [1 .. Len(q) - d -> keptAt(q, a)] :
              /\ Lists(h, Len(q) - d, keptAt(q, a))
              /\ \A j \in 1 .. n - d : h[j] \in 1 .. n
              /\ \A j \in n - d + 1 .. Len(q) - d : h[j] = j + d
<1> DEFINE K == keptAt(q, a)
           L == K \cap 1 .. n
           g == [j \in 1 .. Cardinality(L) |-> nth(L, j)]
           h == [j \in 1 .. Len(q) - d |-> IF j <= n - d THEN g[j] ELSE j + d]
<1>0. Len(q) \in Nat /\ n \in Nat /\ n <= Len(q)
  BY QueueType
<1>1. /\ doneAt(q, a) \in SUBSET (1 .. n)
      /\ d \in 0 .. n
      /\ IsFiniteSet(L)
      /\ Cardinality(L) = n - d
  BY DoneCounts
<1>2. L \in SUBSET Nat /\ K \in SUBSET Nat /\ L \in SUBSET (1 .. n) /\ L \in SUBSET K
  BY DEF keptAt
<1>3. Lists(g, n - d, L)
  BY <1>1, <1>2, NthLists
<1>4. \A i \in n + 1 .. Len(q) : i \in K
  BY <1>0, <1>1 DEF keptAt, doneAt
<1>5. \A k \in K : k \in 1 .. Len(q)
  BY DEF keptAt
<1>6. n - d \in Nat /\ d \in Nat /\ Len(q) - d \in Nat
  BY <1>0, <1>1
<1> HIDE DEF K, L, g
<1>7. \A j \in 1 .. n - d : g[j] \in L /\ g[j] \in 1 .. n /\ g[j] \in K
  <2>1. \A j \in 1 .. n - d : g[j] \in L
    BY <1>3 DEF Lists
  <2>2. QED
    BY <1>2, <2>1, Zenon
<1>8. \A i, j \in 1 .. n - d : i < j => g[i] < g[j]
  BY <1>3 DEF Lists
<1>9. /\ \A j \in 1 .. n - d : h[j] = g[j]
      /\ \A j \in n - d + 1 .. Len(q) - d : h[j] = j + d /\ j + d \in n + 1 .. Len(q)
  BY SMTT(30), <1>0, <1>6
<1>10. \A j \in 1 .. Len(q) - d : j \in 1 .. n - d \/ j \in n - d + 1 .. Len(q) - d
  BY <1>6
<1>11. h \in [1 .. Len(q) - d -> K]
  <2>1. \A j \in 1 .. Len(q) - d : h[j] \in K
    BY <1>4, <1>7, <1>9, <1>10
  <2>2. QED
    BY <2>1
<1> HIDE DEF h
<1>12. \A i, j \in 1 .. Len(q) - d : i < j => h[i] < h[j]
  <2>1. SUFFICES ASSUME NEW i \in 1 .. Len(q) - d, NEW j \in 1 .. Len(q) - d, i < j
                 PROVE  h[i] < h[j]
    OBVIOUS
  <2>2. CASE j \in 1 .. n - d
    <3>1. i \in 1 .. n - d
      BY <1>6, <2>1, <2>2
    <3>2. QED
      BY <1>8, <1>9, <2>1, <2>2, <3>1
  <2>3. CASE j \in n - d + 1 .. Len(q) - d
    <3>1. h[j] = j + d /\ j + d \in n + 1 .. Len(q)
      BY <1>9, <2>3
    <3>2. CASE i \in 1 .. n - d
      <4>1. h[i] \in 1 .. n
        BY <1>7, <1>9, <3>2
      <4>2. QED
        BY <1>0, <3>1, <4>1
    <3>3. CASE i \in n - d + 1 .. Len(q) - d
      <4>1. h[i] = i + d
        BY <1>9, <3>3
      <4>2. QED
        BY <1>6, <2>1, <3>1, <4>1
    <3>4. QED
      BY <1>10, <3>2, <3>3
  <2>4. QED
    BY <1>10, <2>2, <2>3
<1>13. \A k \in K : \E i \in 1 .. Len(q) - d : h[i] = k
  <2>1. SUFFICES ASSUME NEW k \in K PROVE \E i \in 1 .. Len(q) - d : h[i] = k
    OBVIOUS
  <2>2. CASE k \in 1 .. n
    <3>1. k \in L
      BY <2>2 DEF L
    <3>2. PICK i \in 1 .. n - d : g[i] = k
      BY <1>3, <3>1 DEF Lists
    <3>3. i \in 1 .. Len(q) - d
      BY <1>0, <1>6
    <3>4. QED
      BY <1>9, <3>2, <3>3
  <2>3. CASE k \in n + 1 .. Len(q)
    <3>1. k - d \in n - d + 1 .. Len(q) - d /\ k - d \in 1 .. Len(q) - d /\ (k - d) + d = k
      BY <1>0, <1>6, <2>3
    <3>2. h[k - d] = k
      BY <1>9, <3>1
    <3>3. QED
      BY <3>1, <3>2
  <2>4. k \in 1 .. n \/ k \in n + 1 .. Len(q)
    BY <1>0, <1>5
  <2>5. QED
    BY <2>2, <2>3, <2>4
<1>14. Lists(h, Len(q) - d, K)
  BY <1>11, <1>12, <1>13 DEF Lists
<1>15. \A j \in 1 .. n - d : h[j] \in 1 .. n
  BY <1>7, <1>9
<1>16. QED
  BY <1>9, <1>11, <1>14, <1>15 DEF K

\* What is left of a queue: the reads that were not executed, in order, those
\* confirmed still at its head, and the others d places further.
LEMMA RemainingQueue ==
    ASSUME NEW q, NEW n, QueueOK(q, n), NEW a \in Nat,
           NEW d, d = Cardinality(executable(q, a))
    PROVE  /\ d \in 0 .. n
           /\ QueueOK(remaining(q, a), n - d)
           /\ Len(remaining(q, a)) = Len(q) - d
           /\ \A i \in n + 1 .. Len(q) : remaining(q, a)[i - d] = q[i]
           /\ \A j \in 1 .. Len(remaining(q, a)) : \E i \in 1 .. Len(q) :
                 remaining(q, a)[j] = q[i] /\ ~mayRead(q[i], a) /\ (j <= n - d => i <= n)
           /\ executable(q, a) \in SUBSET readsOf(q)
           /\ readsOf(remaining(q, a)) = readsOf(q) \ executable(q, a)
<1> DEFINE rem == remaining(q, a)
           K == keptAt(q, a)
           m == Len(q) - d
<1>0. /\ Len(q) \in Nat /\ n \in Nat /\ n <= Len(q) /\ DOMAIN q = 1 .. Len(q)
      /\ \A i \in 1 .. Len(q) : q[i] \in ReadState
  BY QueueType
<1>1. d \in 0 .. n /\ executable(q, a) = {q[i].read : i \in doneAt(q, a)}
      /\ doneAt(q, a) \in SUBSET (1 .. n)
  BY DoneCounts
<1>2. PICK h \in [1 .. m -> K] :
         /\ Lists(h, m, K)
         /\ \A j \in 1 .. n - d : h[j] \in 1 .. n
         /\ \A j \in n - d + 1 .. m : h[j] = j + d
  BY KeptList
<1>3. m \in Nat /\ n - d \in Nat /\ n - d <= m /\ d \in Nat
  BY <1>0, <1>1
<1>4. K \in SUBSET Nat /\ \A k \in K : k \in 1 .. Len(q) /\ ~mayRead(q[k], a)
  BY DEF keptAt
<1>5. Cardinality(K) = m /\ \A j \in 1 .. m : nth(K, j) = h[j]
  BY <1>2, <1>3, <1>4, ListIsNth
<1>6. rem = [j \in 1 .. m |-> q[h[j]]]
  <2>1. rem = [j \in 1 .. Cardinality(K) |-> q[nth(K, j)]]
    BY <1>0 DEF remaining, selectAt, keptAt
  <2>2. QED
    BY <1>5, <2>1
<1> HIDE DEF K, m, rem
<1>7. \A j \in 1 .. m : h[j] \in K /\ h[j] \in 1 .. Len(q) /\ ~mayRead(q[h[j]], a)
  BY <1>2, <1>4
<1>8. rem \in Seq(ReadState) /\ Len(rem) = m /\ \A j \in 1 .. m : rem[j] = q[h[j]]
  <2>1. \A j \in 1 .. m : q[h[j]] \in ReadState
    BY <1>0, <1>7
  <2>2. QED
    BY <1>3, <1>6, <2>1, IsASeq, LenProperties
<1>9. \A i \in n + 1 .. Len(q) : rem[i - d] = q[i]
  <2>1. SUFFICES ASSUME NEW i \in n + 1 .. Len(q) PROVE rem[i - d] = q[i]
    OBVIOUS
  <2>2. i - d \in n - d + 1 .. m /\ i - d \in 1 .. m /\ (i - d) + d = i
    BY <1>0, <1>1, <1>3 DEF m
  <2>3. h[i - d] = i
    BY <1>2, <2>2
  <2>4. QED
    BY <1>8, <2>2, <2>3
<1>10. \A i, j \in 1 .. m : h[i] = h[j] => i = j
  BY <1>2, <1>3, <1>4, ListInjective
<1>11. \A i, j \in 1 .. m : rem[i].read = rem[j].read => i = j
  BY <1>7, <1>8, <1>10 DEF QueueOK
<1>12. \A j \in 1 .. m : rem[j].index > 0 <=> j <= n - d
  <2>1. SUFFICES ASSUME NEW j \in 1 .. m PROVE q[h[j]].index > 0 <=> j <= n - d
    BY <1>8
  <2>2. q[h[j]].index > 0 <=> h[j] <= n
    BY <1>7 DEF QueueOK
  <2>3. CASE j <= n - d
    <3>1. j \in 1 .. n - d
      BY <1>3, <2>3
    <3>2. h[j] <= n
      BY <1>0, <1>2, <3>1
    <3>3. QED
      BY <2>2, <2>3, <3>2
  <2>4. CASE ~(j <= n - d)
    <3>1. j \in n - d + 1 .. m
      BY <1>3, <2>4
    <3>2. h[j] = j + d
      BY <1>2, <3>1
    <3>3. ~(h[j] <= n)
      BY <1>0, <1>3, <2>4, <3>2
    <3>4. QED
      BY <2>2, <2>4, <3>3
  <2>5. QED
    BY <2>3, <2>4
<1>13. QueueOK(rem, n - d)
  <2>1. n - d \in 0 .. Len(rem)
    BY <1>3, <1>8
  <2>2. QED
    BY <1>8, <1>11, <1>12, <2>1 DEF QueueOK
<1>14. \A j \in 1 .. Len(rem) : \E i \in 1 .. Len(q) :
          rem[j] = q[i] /\ ~mayRead(q[i], a) /\ (j <= n - d => i <= n)
  <2>1. SUFFICES ASSUME NEW j \in 1 .. m
                 PROVE  \E i \in 1 .. Len(q) :
                           rem[j] = q[i] /\ ~mayRead(q[i], a) /\ (j <= n - d => i <= n)
    BY <1>8
  <2>2. j <= n - d => h[j] <= n
    <3>1. SUFFICES ASSUME j <= n - d PROVE h[j] <= n
      OBVIOUS
    <3>2. j \in 1 .. n - d
      BY <1>3, <3>1
    <3>3. QED
      BY <1>0, <1>2, <3>2
  <2>3. QED
    BY <1>7, <1>8, <2>2
<1>15. executable(q, a) \in SUBSET readsOf(q)
  <2>1. \A i \in doneAt(q, a) : i \in DOMAIN q
    BY <1>0 DEF doneAt
  <2>2. QED
    BY <1>1, <2>1 DEF readsOf
<1>16. readsOf(rem) = readsOf(q) \ executable(q, a)
  <2>0. DOMAIN rem = 1 .. m
    BY <1>8, LenProperties
  <2>1. ASSUME NEW r \in readsOf(rem) PROVE r \in readsOf(q) /\ r \notin executable(q, a)
    <3>1. PICK j \in 1 .. m : rem[j].read = r
      BY <2>0 DEF readsOf
    <3>2. h[j] \in 1 .. Len(q) /\ q[h[j]].read = r /\ ~mayRead(q[h[j]], a)
      BY <1>7, <1>8, <3>1
    <3>3. r \in readsOf(q)
      BY <1>0, <3>2 DEF readsOf
    <3>4. ASSUME r \in executable(q, a) PROVE FALSE
      <4>1. PICK i \in doneAt(q, a) : q[i].read = r
        BY <1>1, <3>4
      <4>2. i \in 1 .. Len(q) /\ mayRead(q[i], a)
        BY DEF doneAt
      <4>3. i = h[j]
        BY <3>2, <4>1, <4>2 DEF QueueOK
      <4>4. QED
        BY <3>2, <4>2, <4>3
    <3>5. QED
      BY <3>3, <3>4
  <2>2. ASSUME NEW r \in readsOf(q), r \notin executable(q, a) PROVE r \in readsOf(rem)
    <3>1. PICK i \in 1 .. Len(q) : q[i].read = r
      BY <1>0 DEF readsOf
    <3>2. i \in K
      BY <1>1, <2>2, <3>1 DEF K, keptAt, doneAt
    <3>3. PICK j \in 1 .. m : h[j] = i
      BY <1>2, <3>2 DEF Lists
    <3>4. rem[j].read = r
      BY <1>8, <3>1, <3>3
    <3>5. QED
      BY <2>0, <3>4 DEF readsOf
  <2>3. QED
    BY <2>1, <2>2
<1>17. QED
  BY <1>1, <1>8, <1>9, <1>13, <1>14, <1>15, <1>16 DEF rem, m

\* The queue once the ReadStates of a Ready are noted in it.
LEMMA ConfirmedQueue ==
    ASSUME QueueOK(pendingReads, readyToRead), readStates \in Seq(ReadState), inOrder,
           \A i \in 1 .. Len(readStates) : readStates[i].index > 0
    PROVE  /\ QueueOK(confirmed, readyToRead + Len(readStates))
           /\ Len(confirmed) = Len(pendingReads)
           /\ readyToRead + Len(readStates) <= Len(pendingReads)
           /\ \A i \in 1 .. Len(pendingReads) : confirmed[i].read = pendingReads[i].read
           /\ \A i \in 1 .. readyToRead : confirmed[i] = pendingReads[i]
           /\ \A i \in 1 .. Len(readStates) :
                 /\ confirmed[readyToRead + i].index = readStates[i].index
                 /\ pendingReads[readyToRead + i].read = readStates[i].read
<1> DEFINE q == pendingReads
           n == readyToRead
           l == Len(readStates)
<1>0. /\ Len(q) \in Nat /\ DOMAIN q = 1 .. Len(q) /\ n \in Nat /\ n <= Len(q)
      /\ \A i \in 1 .. Len(q) : q[i] \in ReadState
  BY QueueType
<1>1. l \in Nat /\ DOMAIN readStates = 1 .. l /\ \A i \in 1 .. l : readStates[i] \in ReadState
  BY LenProperties, ElementOfSeq
<1>2. \A i \in 1 .. l : n + i <= Len(q) /\ q[n + i].read = readStates[i].read
  BY <1>1 DEF inOrder, slot
<1>3. n + l <= Len(q)
  BY <1>0, <1>1, <1>2
<1>4. confirmed = [i \in 1 .. Len(q) |->
                     IF i \in n + 1 .. n + l
                     THEN [q[i] EXCEPT !.index = readStates[i - n].index] ELSE q[i]]
  BY <1>0 DEF confirmed
<1>5. \A i \in 1 .. Len(q) :
         /\ i \in n + 1 .. n + l => /\ i - n \in 1 .. l
                                    /\ confirmed[i] \in ReadState
                                    /\ confirmed[i].read = q[i].read
                                    /\ confirmed[i].index = readStates[i - n].index
         /\ i \notin n + 1 .. n + l => confirmed[i] = q[i]
  <2>1. SUFFICES ASSUME NEW i \in 1 .. Len(q), i \in n + 1 .. n + l
                 PROVE  /\ i - n \in 1 .. l
                        /\ confirmed[i] \in ReadState
                        /\ confirmed[i].read = q[i].read
                        /\ confirmed[i].index = readStates[i - n].index
    BY <1>4
  <2>2. i - n \in 1 .. l
    BY <1>0, <1>1, <2>1
  <2>3. readStates[i - n].index \in Nat /\ q[i] \in ReadState
    BY <1>0, <1>1, <2>2 DEF ReadState
  <2>4. confirmed[i] = [q[i] EXCEPT !.index = readStates[i - n].index]
    BY <1>4, <2>1
  <2>5. QED
    BY <2>2, <2>3, <2>4 DEF ReadState
<1>6. confirmed \in Seq(ReadState) /\ Len(confirmed) = Len(q)
  <2>1. \A i \in 1 .. Len(q) : confirmed[i] \in ReadState
    BY <1>0, <1>5
  <2>2. confirmed = [i \in 1 .. Len(q) |-> confirmed[i]]
    BY <1>4
  <2>3. QED
    BY <1>0, <2>1, <2>2, IsASeq, LenProperties
<1>7. \A i \in 1 .. Len(q) : confirmed[i].read = q[i].read
  BY <1>5
<1>8. \A i \in 1 .. n : confirmed[i] = q[i]
  BY <1>0, <1>1, <1>5
<1>9. \A i \in 1 .. l : confirmed[n + i].index = readStates[i].index
  <2>1. SUFFICES ASSUME NEW i \in 1 .. l PROVE confirmed[n + i].index = readStates[i].index
    OBVIOUS
  <2>2. n + i \in 1 .. Len(q) /\ n + i \in n + 1 .. n + l /\ (n + i) - n = i
    BY <1>0, <1>1, <1>3
  <2>3. QED
    BY <1>5, <2>2
<1>10. \A i \in 1 .. Len(q) : confirmed[i].index > 0 <=> i <= n + l
  <2>1. SUFFICES ASSUME NEW i \in 1 .. Len(q) PROVE confirmed[i].index > 0 <=> i <= n + l
    OBVIOUS
  <2>2. CASE i \in n + 1 .. n + l
    <3>1. i - n \in 1 .. l /\ confirmed[i].index = readStates[i - n].index
      BY <1>5, <2>2
    <3>2. QED
      BY <1>0, <1>1, <2>2, <3>1
  <2>3. CASE i \notin n + 1 .. n + l
    <3>1. confirmed[i].index > 0 <=> i <= n
      BY <1>5, <2>3 DEF QueueOK
    <3>2. QED
      BY <1>0, <1>1, <2>3, <3>1
  <2>4. QED
    BY <2>2, <2>3
<1>11. QueueOK(confirmed, n + l)
  <2>1. \A i, j \in 1 .. Len(q) : confirmed[i].read = confirmed[j].read => i = j
    BY <1>7 DEF QueueOK
  <2>2. n + l \in 0 .. Len(confirmed)
    BY <1>0, <1>1, <1>3, <1>6
  <2>3. QED
    BY <1>6, <1>10, <2>1, <2>2 DEF QueueOK
<1>12. QED
  BY <1>2, <1>3, <1>6, <1>7, <1>8, <1>9, <1>11

----------------------------------------------------------------------------
(* The two queues.                                                         *)

\* Executing reads leaves the expected ones alone.
LEMMA AgreeRemaining ==
    ASSUME NEW q, NEW n, QueueOK(q, n), NEW a \in Nat, NEW D, NEW c \in Seq(ReadState),
           Agree(q, n, D, c), NEW d, d = Cardinality(executable(q, a))
    PROVE  Agree(remaining(q, a), n - d, D, c)
<1> DEFINE rem == remaining(q, a)
           P == expectedAt(q, n, D)
           R == expectedAt(rem, n - d, D)
           m == Len(c)
<1>0. Len(q) \in Nat /\ n \in Nat /\ n <= Len(q) /\ m \in Nat
  BY QueueType, LenProperties
<1>1. /\ d \in 0 .. n /\ Len(rem) = Len(q) - d
      /\ \A i \in n + 1 .. Len(q) : rem[i - d] = q[i]
  BY RemainingQueue
<1>2. PICK f \in [1 .. m -> P] : Lists(f, m, P) /\ \A j \in 1 .. m : q[f[j]].read = c[j].read
  BY DEF Agree
<1>3. P \in SUBSET Nat /\ \A k \in P : k \in n + 1 .. Len(q) /\ q[k].read \notin D
  BY <1>0 DEF expectedAt
<1> DEFINE g == [j \in 1 .. m |-> f[j] - d]
<1> HIDE DEF rem, P, m
<1>4. \A k \in P : k - d \in R /\ rem[k - d] = q[k] /\ k \in Nat
  <2>1. SUFFICES ASSUME NEW k \in P PROVE k - d \in R /\ rem[k - d] = q[k] /\ k \in Nat
    OBVIOUS
  <2>2. k \in n + 1 .. Len(q) /\ q[k].read \notin D /\ rem[k - d] = q[k]
    BY <1>1, <1>3
  <2>3. k - d \in n - d + 1 .. Len(rem) /\ k \in Nat
    BY <1>0, <1>1, <2>2
  <2>4. QED
    BY <2>2, <2>3 DEF expectedAt
<1>5. \A k \in R : k + d \in P /\ (k + d) - d = k
  <2>1. SUFFICES ASSUME NEW k \in R PROVE k + d \in P /\ (k + d) - d = k
    OBVIOUS
  <2>2. k \in n - d + 1 .. Len(rem) /\ rem[k].read \notin D
    BY DEF expectedAt
  <2>3. k + d \in n + 1 .. Len(q) /\ (k + d) - d = k
    BY <1>0, <1>1, <2>2
  <2>4. rem[(k + d) - d] = q[k + d]
    BY <1>1, <2>3
  <2>5. QED
    BY <2>2, <2>3, <2>4 DEF P, expectedAt
<1>6. \A j \in 1 .. m : f[j] \in P /\ g[j] = f[j] - d
  OBVIOUS
<1> HIDE DEF R
<1>7. g \in [1 .. m -> R]
  BY <1>4, <1>6
<1>8. \A i, j \in 1 .. m : i < j => g[i] < g[j]
  <2>1. SUFFICES ASSUME NEW i \in 1 .. m, NEW j \in 1 .. m, i < j PROVE g[i] < g[j]
    OBVIOUS
  <2>2. f[i] < f[j]
    BY <1>2, <2>1 DEF Lists
  <2>3. f[i] \in Nat /\ f[j] \in Nat /\ d \in Nat
    BY <1>0, <1>1, <1>4, <1>6
  <2>4. f[i] - d < f[j] - d
    BY <2>2, <2>3
  <2>5. QED
    BY <1>6, <2>4
<1>9. \A k \in R : \E i \in 1 .. m : g[i] = k
  <2>1. SUFFICES ASSUME NEW k \in R PROVE \E i \in 1 .. m : g[i] = k
    OBVIOUS
  <2>2. PICK i \in 1 .. m : f[i] = k + d
    BY <1>2, <1>5 DEF Lists
  <2>3. g[i] = k
    BY <1>5, <1>6, <2>2
  <2>4. QED
    BY <2>3
<1>10. \A j \in 1 .. m : rem[g[j]].read = c[j].read
  BY <1>2, <1>4, <1>6
<1>11. Lists(g, m, R)
  BY <1>7, <1>8, <1>9 DEF Lists
<1>12. QED
  BY <1>7, <1>10, <1>11 DEF Agree, rem, R, m

\* The reads of ReadStates that are thrown away are expected no more.
LEMMA AgreeDropped ==
    ASSUME NEW q, NEW n, QueueOK(q, n), NEW D, NEW s \in Seq(ReadState),
           NEW c \in Seq(ReadState), Agree(q, n, D, s \o c)
    PROVE  /\ Agree(q, n, D \cup readsOf(s), c)
           /\ \A j \in 1 .. Len(s) : s[j].read \notin D
<1> DEFINE l == Len(s)
           m == Len(c)
           P == expectedAt(q, n, D)
           R == expectedAt(q, n, D \cup readsOf(s))
<1>0. /\ Len(q) \in Nat /\ n \in Nat /\ n <= Len(q) /\ m \in Nat /\ l \in Nat
      /\ DOMAIN s = 1 .. l
  BY QueueType, LenProperties
<1>a. PICK t \in Nat : t = l + m
  BY <1>0
<1>1. /\ Len(s \o c) = t
      /\ \A j \in 1 .. l : (s \o c)[j] = s[j]
      /\ \A j \in 1 .. m : (s \o c)[l + j] = c[j]
  BY <1>0, <1>a, ConcatProperties
<1>2. PICK f \in [1 .. t -> P] :
         Lists(f, t, P) /\ \A j \in 1 .. t : q[f[j]].read = (s \o c)[j].read
  BY <1>1 DEF Agree
<1>3. P \in SUBSET Nat /\ \A k \in P : k \in n + 1 .. Len(q) /\ k \in 1 .. Len(q)
                                       /\ q[k].read \notin D
  BY <1>0 DEF expectedAt
<1> DEFINE g == [j \in 1 .. m |-> f[l + j]]
<1>4. readsOf(s) = {s[j].read : j \in 1 .. l}
  BY <1>0 DEF readsOf
<1> HIDE DEF P, m, l
<1>5. \A j \in 1 .. l : j \in 1 .. t /\ f[j] \in P /\ q[f[j]].read = s[j].read
  BY <1>0, <1>a, <1>1, <1>2
<1>6. \A j \in 1 .. m : l + j \in 1 .. t /\ f[l + j] \in P /\ q[f[l + j]].read = c[j].read
  <2>1. SUFFICES ASSUME NEW j \in 1 .. m
                 PROVE  l + j \in 1 .. t /\ f[l + j] \in P /\ q[f[l + j]].read = c[j].read
    OBVIOUS
  <2>2. l + j \in 1 .. t
    BY <1>0, <1>a
  <2>3. f[l + j] \in P /\ q[f[l + j]].read = (s \o c)[l + j].read
    BY <1>2, <2>2
  <2>4. (s \o c)[l + j] = c[j]
    BY <1>1
  <2>5. QED
    BY <2>2, <2>3, <2>4
<1>7. \A i, j \in 1 .. t : f[i] = f[j] => i = j
  BY <1>2, <1>3, ListInjective
<1>8. \A j \in 1 .. m : f[l + j] \in R
  <2>1. SUFFICES ASSUME NEW j \in 1 .. m, q[f[l + j]].read \in readsOf(s) PROVE FALSE
    BY <1>3, <1>6 DEF expectedAt
  <2>2. PICK i \in 1 .. l : s[i].read = q[f[l + j]].read
    BY <1>4, <2>1
  <2>3. f[i] = f[l + j]
    <3>1. f[i] \in 1 .. Len(q) /\ f[l + j] \in 1 .. Len(q)
      BY <1>3, <1>5, <1>6
    <3>2. q[f[i]].read = q[f[l + j]].read
      BY <1>5, <2>2
    <3>3. QED
      BY <3>1, <3>2 DEF QueueOK
  <2>4. i = l + j
    BY <1>5, <1>6, <1>7, <2>3
  <2>5. QED
    BY <1>0, <2>4
<1>9. \A k \in R : k \in P /\ q[k].read \notin readsOf(s)
  BY DEF expectedAt, P
<1> HIDE DEF R
<1>10. g \in [1 .. m -> R]
  BY <1>8
<1>11. \A i, j \in 1 .. m : i < j => g[i] < g[j]
  <2>1. SUFFICES ASSUME NEW i \in 1 .. m, NEW j \in 1 .. m, i < j PROVE f[l + i] < f[l + j]
    OBVIOUS
  <2>2. l + i \in 1 .. t /\ l + j \in 1 .. t /\ l + i < l + j
    BY <1>0, <1>a, <2>1
  <2>3. QED
    BY <1>2, <2>2 DEF Lists
<1>12. \A k \in R : \E i \in 1 .. m : g[i] = k
  <2>1. SUFFICES ASSUME NEW k \in R PROVE \E i \in 1 .. m : f[l + i] = k
    OBVIOUS
  <2>2. PICK i \in 1 .. t : f[i] = k
    BY <1>2, <1>9 DEF Lists
  <2>3. i \notin 1 .. l
    BY <1>4, <1>5, <1>9, <2>2
  <2>4. i - l \in 1 .. m /\ l + (i - l) = i
    BY <1>0, <1>a, <2>3
  <2>5. QED
    BY <2>2, <2>4
<1>13. Lists(g, m, R)
  BY <1>10, <1>11, <1>12 DEF Lists
<1>14. \A j \in 1 .. m : q[g[j]].read = c[j].read
  BY <1>6
<1>15. Agree(q, n, D \cup readsOf(s), c)
  BY <1>10, <1>13, <1>14 DEF Agree, R, m
<1>16. QED
  BY <1>3, <1>5, <1>15 DEF l

\* Nor are those that ReadStates confirm, if they come in order.
LEMMA AgreeConfirmed ==
    ASSUME QueueOK(pendingReads, readyToRead), readStates \in Seq(ReadState), inOrder,
           \A i \in 1 .. Len(readStates) : readStates[i].index > 0,
           NEW D, NEW c \in Seq(ReadState), Agree(pendingReads, readyToRead, D, readStates \o c)
    PROVE  Agree(confirmed, readyToRead + Len(readStates), D, c)
<1> DEFINE q == pendingReads
           n == readyToRead
           l == Len(readStates)
           P == expectedAt(q, n, D \cup readsOf(readStates))
           R == expectedAt(confirmed, n + l, D)
<1>0. /\ Len(q) \in Nat /\ n \in Nat /\ n <= Len(q) /\ l \in Nat /\ DOMAIN readStates = 1 .. l
  BY QueueType, LenProperties
<1>1. /\ Len(confirmed) = Len(q) /\ n + l <= Len(q)
      /\ \A i \in 1 .. Len(q) : confirmed[i].read = q[i].read
      /\ \A i \in 1 .. l : q[n + i].read = readStates[i].read
  BY ConfirmedQueue
<1>2. Agree(q, n, D \cup readsOf(readStates), c)
  BY AgreeDropped
<1>3. \A k \in 1 .. Len(q) : k \in n + 1 .. n + l => q[k].read \in readsOf(readStates)
  <2>1. SUFFICES ASSUME NEW k \in n + 1 .. n + l PROVE q[k].read \in readsOf(readStates)
    OBVIOUS
  <2>2. k - n \in 1 .. l /\ n + (k - n) = k
    BY <1>0
  <2>3. q[k].read = readStates[k - n].read
    BY <1>1, <2>2
  <2>4. QED
    BY <1>0, <2>2, <2>3 DEF readsOf
<1>4. \A k \in n + l + 1 .. Len(q) : q[k].read \notin readsOf(readStates)
  <2>1. SUFFICES ASSUME NEW k \in n + l + 1 .. Len(q), NEW i \in 1 .. l,
                        q[k].read = readStates[i].read
                 PROVE  FALSE
    BY <1>0 DEF readsOf
  <2>2. n + i \in 1 .. Len(q) /\ k \in 1 .. Len(q) /\ n + i # k
    BY <1>0, <1>1
  <2>3. q[n + i].read = q[k].read
    BY <1>1, <2>1
  <2>4. QED
    BY <2>2, <2>3 DEF QueueOK
<1>5. P = R
  <2>1. ASSUME NEW k \in P PROVE k \in R
    <3>1. k \in n + 1 .. Len(q) /\ q[k].read \notin D /\ q[k].read \notin readsOf(readStates)
      BY DEF expectedAt
    <3>2. k \in 1 .. Len(q) /\ k \notin n + 1 .. n + l
      BY <1>0, <1>3, <3>1
    <3>3. k \in n + l + 1 .. Len(confirmed)
      BY <1>0, <1>1, <3>1, <3>2
    <3>4. QED
      BY <1>1, <3>1, <3>2, <3>3 DEF expectedAt
  <2>2. ASSUME NEW k \in R PROVE k \in P
    <3>1. k \in n + l + 1 .. Len(q) /\ confirmed[k].read \notin D
      BY <1>1 DEF expectedAt
    <3>2. k \in n + 1 .. Len(q) /\ k \in 1 .. Len(q)
      BY <1>0, <3>1
    <3>3. QED
      BY <1>1, <1>4, <3>1, <3>2 DEF expectedAt
  <2>3. QED
    BY <2>1, <2>2
<1>6. PICK f \in [1 .. Len(c) -> P] :
         Lists(f, Len(c), P) /\ \A j \in 1 .. Len(c) : q[f[j]].read = c[j].read
  BY <1>2 DEF Agree
<1>7. \A j \in 1 .. Len(c) : confirmed[f[j]].read = c[j].read
  <2>1. \A k \in P : k \in 1 .. Len(q)
    BY <1>0 DEF expectedAt
  <2>2. QED
    BY <1>1, <1>6, <2>1
<1>8. QED
  BY <1>5, <1>6, <1>7 DEF Agree

\* A read that raft and the queue accept is at the end of both.
LEMMA AgreeAppended ==
    ASSUME NEW q, NEW n, QueueOK(q, n), NEW D, NEW s \in Seq(ReadState),
           NEW c \in Seq(ReadState), Agree(q, n, D, s \o c),
           NEW x \in ReadState, NEW y \in ReadState, x.read = y.read, x.read \notin D
    PROVE  Agree(Append(q, x), n, D, s \o Append(c, y))
<1> DEFINE z == s \o c
           m == Len(z)
           e == s \o Append(c, y)
           p == Append(q, x)
           P == expectedAt(q, n, D)
           R == expectedAt(p, n, D)
           b == Len(q) + 1
<1>0. Len(q) \in Nat /\ n \in Nat /\ n <= Len(q) /\ q \in Seq(ReadState)
  BY QueueType DEF QueueOK
<1>1. Len(p) = b /\ p[b] = x /\ (\A i \in 1 .. Len(q) : p[i] = q[i]) /\ b \in Nat
  BY <1>0, AppendProperties
<1>2. m \in Nat /\ z \in Seq(ReadState)
  BY ConcatProperties, LenProperties
<1>3. e = Append(z, y)
  <2>1. Append(c, y) = c \o <<y>> /\ Append(z, y) = z \o <<y>> /\ <<y>> \in Seq(ReadState)
    BY <1>2, AppendIsConcat
  <2>2. QED
    BY <2>1, ConcatAssociative
<1>4. Len(e) = m + 1 /\ e[m + 1] = y /\ \A i \in 1 .. m : e[i] = z[i]
  BY <1>2, <1>3, AppendProperties
<1>5. PICK f \in [1 .. m -> P] : Lists(f, m, P) /\ \A j \in 1 .. m : q[f[j]].read = z[j].read
  BY DEF Agree
<1>6. R = P \cup {b}
  BY <1>0, <1>1 DEF expectedAt
<1>7. \A k \in P : k \in 1 .. Len(q) /\ k < b
  BY <1>0 DEF expectedAt
<1> DEFINE g == [j \in 1 .. m + 1 |-> IF j = m + 1 THEN b ELSE f[j]]
<1> HIDE DEF z, m, e, p, P, R, b
<1>8. /\ \A j \in 1 .. m : j \in 1 .. m + 1 /\ g[j] = f[j] /\ f[j] \in P
      /\ m + 1 \in 1 .. m + 1 /\ g[m + 1] = b
      /\ \A j \in 1 .. m + 1 : j \in 1 .. m \/ j = m + 1
  BY <1>2
<1> HIDE DEF g
<1>9. \A j \in 1 .. m + 1 : g[j] \in R
  BY <1>6, <1>8
<1>10. \A i, j \in 1 .. m + 1 : i < j => g[i] < g[j]
  <2>1. SUFFICES ASSUME NEW i \in 1 .. m + 1, NEW j \in 1 .. m + 1, i < j PROVE g[i] < g[j]
    OBVIOUS
  <2>2. i \in 1 .. m
    BY <1>2, <2>1
  <2>3. CASE j \in 1 .. m
    BY <1>5, <1>8, <2>1, <2>2, <2>3 DEF Lists
  <2>4. CASE j = m + 1
    BY <1>7, <1>8, <2>2, <2>4
  <2>5. QED
    BY <1>8, <2>3, <2>4
<1>11. \A k \in R : \E i \in 1 .. m + 1 : g[i] = k
  <2>1. SUFFICES ASSUME NEW k \in R PROVE \E i \in 1 .. m + 1 : g[i] = k
    OBVIOUS
  <2>2. CASE k \in P
    <3>1. PICK i \in 1 .. m : f[i] = k
      BY <1>5, <2>2 DEF Lists
    <3>2. QED
      BY <1>8, <3>1
  <2>3. CASE k = b
    BY <1>8, <2>3
  <2>4. QED
    BY <1>6, <2>2, <2>3
<1>12. g \in [1 .. m + 1 -> R]
  BY <1>9 DEF g
<1>13. Lists(g, m + 1, R)
  BY <1>10, <1>11, <1>12 DEF Lists
<1>14. \A j \in 1 .. m + 1 : p[g[j]].read = e[j].read
  <2>1. SUFFICES ASSUME NEW j \in 1 .. m + 1 PROVE p[g[j]].read = e[j].read
    OBVIOUS
  <2>2. CASE j \in 1 .. m
    <3>1. g[j] = f[j] /\ f[j] \in 1 .. Len(q)
      BY <1>7, <1>8, <2>2
    <3>2. p[g[j]] = q[f[j]]
      BY <1>1, <3>1
    <3>3. QED
      BY <1>4, <1>5, <2>2, <3>2
  <2>3. CASE j = m + 1
    BY <1>1, <1>4, <1>8, <2>3
  <2>4. QED
    BY <1>8, <2>2, <2>3
<1>15. QED
  BY <1>4, <1>12, <1>13, <1>14 DEF Agree, e, p, R

\* What Agree says is that the two lists are equal.
SameReads(w, c) == Len(w) = Len(c) /\ \A i \in DOMAIN w : w[i].read = c[i].read

LEMMA AgreeMeans ==
    ASSUME NEW q, NEW n, QueueOK(q, n), NEW D, NEW c \in Seq(ReadState), Agree(q, n, D, c)
    PROVE  SameReads(selectAt(q, expectedAt(q, n, D)), c)
<1> DEFINE P == expectedAt(q, n, D)
           m == Len(c)
           w == selectAt(q, P)
<1>0. n \in Nat /\ Len(q) \in Nat /\ m \in Nat
  BY QueueType, LenProperties
<1>1. PICK f \in [1 .. m -> P] : Lists(f, m, P) /\ \A j \in 1 .. m : q[f[j]].read = c[j].read
  BY DEF Agree
<1>2. P \in SUBSET Nat
  BY <1>0 DEF expectedAt
<1> HIDE DEF P, m
<1>3. Cardinality(P) = m /\ \A j \in 1 .. m : nth(P, j) = f[j]
  BY <1>0, <1>1, <1>2, ListIsNth
<1>4. w = [j \in 1 .. m |-> q[f[j]]]
  BY <1>3 DEF selectAt
<1>5. DOMAIN w = 1 .. m /\ Len(w) = m
  BY <1>0, <1>4
<1>6. \A i \in DOMAIN w : w[i].read = c[i].read
  BY <1>1, <1>4
<1>7. QED
  BY <1>5, <1>6 DEF P, m, SameReads

----------------------------------------------------------------------------
(* What handling a Ready or an apply result does to the queue.             *)

\* The reads of S are executed on data d, a of the log being applied, those of
\* T are told that leadership is lost, and all of them leave the queue.
Served(S, T, a, d) ==
    /\ S \in SUBSET readsOf(pendingReads) /\ T \in SUBSET readsOf(pendingReads)
    /\ S \cap T = {}
    /\ QueueOK(pendingReads', readyToRead')
    /\ readsOf(pendingReads') = readsOf(pendingReads) \ (S \cup T)
    /\ readReplies' = [r \in Reads |-> IF r \in S THEN Append(readReplies[r], "ok")
                                       ELSE IF r \in T THEN Append(readReplies[r], "stale")
                                       ELSE readReplies[r]]
    /\ readSeen' = [r \in Reads |-> IF r \in S THEN d ELSE readSeen[r]]
    /\ \A r \in S : \E x \in settled : x.read = r /\ x.index <= a
    /\ \A i \in 1 .. readyToRead' : pendingReads'[i] \in settled

QueueInv == ReadTypeOK /\ HomesInv /\ IndexInv

LEMMA QueueInvParts ==
    ASSUME QueueInv
    PROVE  /\ ReadTypeOK /\ HomesInv /\ IndexInv
           /\ QueueOK(pendingReads, readyToRead)
           /\ readStates \in Seq(ReadState) /\ readOnly \in Seq(ReadState)
           /\ DOMAIN readStates = 1 .. Len(readStates) /\ Len(readStates) \in Nat
           /\ DOMAIN readOnly = 1 .. Len(readOnly) /\ Len(readOnly) \in Nat
           /\ \A i \in 1 .. Len(readStates) : readStates[i].index > 0
           /\ \A i \in 1 .. Len(readOnly) : readOnly[i].index > 0
           /\ readsOf(pendingReads) \in SUBSET Reads
<1>1. ReadTypeOK /\ HomesInv /\ IndexInv
  BY DEF QueueInv
<1>2. /\ pendingReads \in Seq(ReadState) /\ readyToRead \in 0 .. Len(pendingReads)
      /\ readStates \in Seq(ReadState) /\ readOnly \in Seq(ReadState)
  BY <1>1 DEF ReadTypeOK
<1>3. /\ DOMAIN pendingReads = 1 .. Len(pendingReads)
      /\ DOMAIN readStates = 1 .. Len(readStates) /\ Len(readStates) \in Nat
      /\ DOMAIN readOnly = 1 .. Len(readOnly) /\ Len(readOnly) \in Nat
  BY <1>2, LenProperties
<1>4. QueueOK(pendingReads, readyToRead)
  BY <1>1, <1>2, <1>3 DEF QueueOK, HomesInv, IndexInv
<1>5. readsOf(pendingReads) \in SUBSET Reads
  BY <1>3, <1>4, QueueType DEF readsOf
<1>6. QED
  BY <1>1, <1>2, <1>3, <1>4, <1>5 DEF IndexInv

\* A read executed from a queue q with n settled ones.
LEMMA ExecutableSettled ==
    ASSUME NEW q, NEW n, QueueOK(q, n), NEW a \in Nat
    PROVE  \A r \in executable(q, a) : \E i \in 1 .. n : q[i].read = r /\ q[i].index <= a
<1>1. SUFFICES ASSUME NEW r \in executable(q, a)
               PROVE  \E i \in 1 .. n : q[i].read = r /\ q[i].index <= a
  OBVIOUS
<1>2. doneAt(q, a) \in SUBSET (1 .. n) /\ executable(q, a) = {q[i].read : i \in doneAt(q, a)}
  BY DoneCounts
<1>3. PICK i \in doneAt(q, a) : q[i].read = r
  BY <1>1, <1>2
<1>4. q[i].index <= a
  BY DEF doneAt, mayRead
<1>5. QED
  BY <1>2, <1>3, <1>4

\* The reads a queue with settled reads serves, and what it keeps.
LEMMA ServedFromQueue ==
    ASSUME NEW q, NEW n, QueueOK(q, n), NEW a \in Nat,
           \A i \in 1 .. n : q[i] \in settled
    PROVE  LET S == executable(q, a)
               p == remaining(q, a)
               m == n - Cardinality(S)
           IN /\ S \in SUBSET readsOf(q) /\ QueueOK(p, m)
              /\ readsOf(p) = readsOf(q) \ S
              /\ \A r \in S : \E x \in settled : x.read = r /\ x.index <= a
              /\ \A i \in 1 .. m : p[i] \in settled
<1> DEFINE S == executable(q, a)
           p == remaining(q, a)
           m == n - Cardinality(S)
<1>1. /\ QueueOK(p, m)
      /\ \A j \in 1 .. Len(p) : \E i \in 1 .. Len(q) : p[j] = q[i] /\ (j <= m => i <= n)
      /\ S \in SUBSET readsOf(q)
      /\ readsOf(p) = readsOf(q) \ S
  BY RemainingQueue
<1>2. \A r \in S : \E x \in settled : x.read = r /\ x.index <= a
  BY ExecutableSettled
<1>3. \A i \in 1 .. m : p[i] \in settled
  <2>1. m \in Nat /\ m <= Len(p) /\ Len(p) \in Nat /\ n \in Nat
    BY <1>1, QueueType
  <2> HIDE DEF m, p
  <2>2. SUFFICES ASSUME NEW j \in 1 .. m PROVE p[j] \in settled
    OBVIOUS
  <2>3. j \in 1 .. Len(p) /\ j <= m
    BY <2>1
  <2>4. PICK i \in 1 .. Len(q) : p[j] = q[i] /\ (j <= m => i <= n)
    BY <1>1, <2>3
  <2>5. i \in 1 .. n
    BY <2>1, <2>3, <2>4
  <2>6. QED
    BY <2>4, <2>5
<1>4. QED
  BY <1>1, <1>2, <1>3

\* handleApplyResult serves the reads that waited for the applied index.
LEMMA ApplyResultServes ==
    ASSUME QueueInv, ApplyResultWithReads, psApplied' \in Nat
    PROVE  /\ \E S : Served(S, {}, psApplied', data) /\ (results = <<>> => S = {})
           /\ AgreeInv => AgreeInv'
<1>0. /\ ReadTypeOK /\ QueueOK(pendingReads, readyToRead) /\ readOnly \in Seq(ReadState)
      /\ readStates \in Seq(ReadState)
  BY QueueInvParts
<1>1. /\ UNCHANGED <<role, readStates, readOnly, readFatal, dropped>>
  BY DEF ApplyResultWithReads, HandleApplyResult, raftVars, nodeVars, raftReadVars
<1> DEFINE S == executable(pendingReads, psApplied')
<1>2. CASE results # <<>> /\ readyToRead > 0 /\ readyToHandleRead(psTerm')
  <2>1. /\ pendingReads' = remaining(pendingReads, psApplied')
        /\ readyToRead' = readyToRead - Cardinality(S)
        /\ readReplies' = respReads(S, "ok")
        /\ see(S, data)
    BY <1>2 DEF ApplyResultWithReads
  <2>2. \A i \in 1 .. readyToRead : pendingReads[i] \in settled
    BY DEF settled
  <2>3. /\ S \in SUBSET readsOf(pendingReads) /\ QueueOK(pendingReads', readyToRead')
        /\ readsOf(pendingReads') = readsOf(pendingReads) \ S
        /\ \A r \in S : \E x \in settled : x.read = r /\ x.index <= psApplied'
        /\ \A i \in 1 .. readyToRead' : pendingReads'[i] \in settled
    BY <1>0, <2>1, <2>2, ServedFromQueue
  <2>4. Served(S, {}, psApplied', data)
    <3> HIDE DEF S
    <3>1. readReplies' = [r \in Reads |-> IF r \in S THEN Append(readReplies[r], "ok")
                                       ELSE IF r \in {} THEN Append(readReplies[r], "stale")
                                       ELSE readReplies[r]]
      BY <2>1 DEF respReads
    <3>2. QED
      BY <2>1, <2>3, <3>1, Zenon DEF Served, see
  <2>5. ASSUME AgreeInv PROVE AgreeInv'
    <3>1. SUFFICES ASSUME role = "leader", running
                   PROVE  Agree(pendingReads', readyToRead', dropped, readStates \o readOnly)
      BY <1>1 DEF AgreeInv, running
    <3>2. Agree(pendingReads, readyToRead, dropped, readStates \o readOnly)
      BY <2>5, <3>1 DEF AgreeInv
    <3>3. readStates \o readOnly \in Seq(ReadState)
      BY <1>0, ConcatProperties
    <3>4. QED
      BY <1>0, <2>1, <3>2, <3>3, AgreeRemaining
  <2>6. QED
    BY <1>2, <2>4, <2>5
<1>3. CASE ~(results # <<>> /\ readyToRead > 0 /\ readyToHandleRead(psTerm'))
  <2>1. UNCHANGED <<pendingReads, readyToRead, readReplies, readSeen>>
    BY <1>3 DEF ApplyResultWithReads
  <2>2. \A i \in 1 .. readyToRead' : pendingReads'[i] \in settled
    BY <2>1 DEF settled
  <2>3. /\ readReplies' = [r \in Reads |-> readReplies[r]]
        /\ readSeen' = [r \in Reads |-> readSeen[r]]
    BY <1>0, <2>1 DEF ReadTypeOK
  <2>4. Served({}, {}, psApplied', data)
    <3>1. /\ readReplies' = [r \in Reads |-> IF r \in {} THEN Append(readReplies[r], "ok")
                                       ELSE IF r \in {} THEN Append(readReplies[r], "stale")
                                       ELSE readReplies[r]]
          /\ readSeen' = [r \in Reads |-> IF r \in {} THEN data ELSE readSeen[r]]
      BY <2>3
    <3>2. readsOf(pendingReads') = readsOf(pendingReads) \ ({} \cup {})
      BY <2>1
    <3>3. QED
      BY <1>0, <2>1, <2>2, <3>1, <3>2 DEF Served
  <2>5. AgreeInv => AgreeInv'
    BY <1>1, <2>1 DEF AgreeInv, running
  <2>6. QED
    BY <2>4, <2>5
<1>4. QED
  BY <1>2, <1>3

\* What the first half of doApplyReads leaves: a queue q with n settled reads,
\* and the reads S it executes.
LEMMA ReadStatesHandled ==
    ASSUME QueueInv, NEW a \in Nat, NEW d, NEW q, NEW n, NEW S, handleReadStates(a, d, q, n, S)
    PROVE  /\ S \in SUBSET readsOf(pendingReads) /\ QueueOK(q, n)
           /\ readsOf(q) = readsOf(pendingReads) \ S
           /\ \A r \in S : \E x \in settled : x.read = r /\ x.index <= a
           /\ \A i \in 1 .. n : q[i] \in settled
           /\ readSeen' = [r \in Reads |-> IF r \in S THEN d ELSE readSeen[r]]
           /\ dropped' \in {dropped, dropped \cup readsOf(readStates)}
           /\ readFatal' \in {readFatal, "out of range", "uuid not match"}
           /\ (/\ readFatal' = "no"
               /\ Agree(pendingReads, readyToRead, dropped, readStates \o readOnly))
              => Agree(q, n, dropped', readOnly)
<1>0. /\ ReadTypeOK /\ QueueOK(pendingReads, readyToRead) /\ readOnly \in Seq(ReadState)
      /\ readStates \in Seq(ReadState) /\ Len(readStates) \in Nat
      /\ DOMAIN readStates = 1 .. Len(readStates)
      /\ \A i \in 1 .. Len(readStates) : readStates[i].index > 0
  BY QueueInvParts
<1>1. \A i \in 1 .. readyToRead : pendingReads[i] \in settled
  BY DEF settled
<1>2. ASSUME q = pendingReads, n = readyToRead, S = {}, UNCHANGED readSeen
      PROVE  /\ S \in SUBSET readsOf(pendingReads) /\ QueueOK(q, n)
             /\ readsOf(q) = readsOf(pendingReads) \ S
             /\ \A r \in S : \E x \in settled : x.read = r /\ x.index <= a
             /\ \A i \in 1 .. n : q[i] \in settled
             /\ readSeen' = [r \in Reads |-> IF r \in S THEN d ELSE readSeen[r]]
  <2>1. readSeen = [r \in Reads |-> readSeen[r]]
    BY <1>0 DEF ReadTypeOK
  <2>2. readSeen' = [r \in Reads |-> IF r \in S THEN d ELSE readSeen[r]]
    BY <1>2, <2>1
  <2>3. QED
    BY <1>0, <1>1, <1>2, <2>2
<1>3. CASE ~readyToHandleRead(psTerm) \/ readStates = <<>>
  <2>1. /\ q = pendingReads /\ n = readyToRead /\ S = {}
        /\ dropped' = dropped \cup readsOf(readStates)
        /\ UNCHANGED <<readSeen, readFatal>>
    BY <1>3 DEF handleReadStates
  <2>2. Agree(pendingReads, readyToRead, dropped, readStates \o readOnly)
        => Agree(q, n, dropped', readOnly)
    BY <1>0, <2>1, AgreeDropped
  <2>3. QED
    BY <1>2, <2>1, <2>2
<1>4. CASE ~(~readyToHandleRead(psTerm) \/ readStates = <<>>) /\ inOrder
  <2> DEFINE c == confirmed
             l == readyToRead + Len(readStates)
  <2>1. /\ QueueOK(c, l) /\ Len(c) = Len(pendingReads)
        /\ readyToRead + Len(readStates) <= Len(pendingReads)
        /\ \A i \in 1 .. Len(pendingReads) : c[i].read = pendingReads[i].read
        /\ \A i \in 1 .. readyToRead : c[i] = pendingReads[i]
        /\ \A i \in 1 .. Len(readStates) :
                 /\ c[readyToRead + i].index = readStates[i].index
                 /\ pendingReads[readyToRead + i].read = readStates[i].read
    BY <1>0, <1>4, ConfirmedQueue
  <2>2. /\ S = executable(c, a) /\ q = remaining(c, a) /\ n = l - Cardinality(S)
        /\ see(S, d) /\ UNCHANGED <<readFatal, dropped>>
    <3>1. IF inOrder
          THEN /\ S = executable(confirmed, a)
               /\ q = remaining(confirmed, a)
               /\ n = readyToRead + Len(readStates) - Cardinality(S)
               /\ see(S, d)
               /\ UNCHANGED <<readFatal, dropped>>
          ELSE n = readyToRead
      BY <1>4, Zenon DEF handleReadStates
    <3>2. /\ S = executable(confirmed, a) /\ q = remaining(confirmed, a)
          /\ n = readyToRead + Len(readStates) - Cardinality(S)
      BY <1>4, <3>1
    <3>3. see(S, d)
      BY <1>4, <3>1 DEF see
    <3>4. UNCHANGED <<readFatal, dropped>>
      BY <1>4, <3>1 DEF see
    <3>5. Cardinality(executable(c, a)) \in Nat
      <4>1. l \in Nat
        BY <2>1, QueueType
      <4>2. Cardinality(executable(c, a)) \in 0 .. l
        BY <2>1, RemainingQueue
      <4>3. QED
        BY <4>1, <4>2
    <3>6. n = l - Cardinality(S)
      <4>1. readyToRead \in Nat
        BY <1>0, QueueType
      <4>2. QED
        BY <1>0, <3>2, <3>5, <4>1
    <3>7. QED
      BY <3>2, <3>3, <3>4, <3>6 DEF see
  <2>3. /\ Len(pendingReads) \in Nat /\ DOMAIN pendingReads = 1 .. Len(pendingReads)
        /\ readyToRead \in Nat /\ DOMAIN c = 1 .. Len(pendingReads)
        /\ \A i \in 1 .. Len(pendingReads) : c[i] \in ReadState
    BY <1>0, <2>1, QueueType
  <2>4. readsOf(c) = readsOf(pendingReads)
    BY <2>1, <2>3 DEF readsOf
  <2>5. \A i \in 1 .. Len(readStates) : c[readyToRead + i] = readStates[i]
    <3>1. SUFFICES ASSUME NEW i \in 1 .. Len(readStates)
                   PROVE  c[readyToRead + i] = readStates[i]
      OBVIOUS
    <3>2. readyToRead + i \in 1 .. Len(pendingReads)
      BY <1>0, <2>1, <2>3
    <3>3. c[readyToRead + i].read = readStates[i].read
      BY <2>1, <3>2
    <3>4. c[readyToRead + i] \in ReadState /\ readStates[i] \in ReadState
      BY <1>0, <2>3, <3>2
    <3>5. QED
      BY <2>1, <3>3, <3>4 DEF ReadState
  <2> HIDE DEF c
  <2>6. \A i \in 1 .. l : c[i] \in settled
    <3>1. SUFFICES ASSUME NEW i \in 1 .. l PROVE c[i] \in settled
      OBVIOUS
    <3>2. CASE i \in 1 .. readyToRead
      BY <1>1, <2>1, <3>2
    <3>3. CASE i \notin 1 .. readyToRead
      <4>1. i - readyToRead \in 1 .. Len(readStates) /\ readyToRead + (i - readyToRead) = i
        BY <1>0, <2>3, <3>3
      <4>2. c[i] = readStates[i - readyToRead]
        BY <2>5, <4>1
      <4>3. QED
        BY <4>1, <4>2 DEF settled
    <3>4. QED
      BY <3>2, <3>3
  <2> HIDE DEF l
  <2>7. /\ S \in SUBSET readsOf(c) /\ QueueOK(q, n)
        /\ readsOf(q) = readsOf(c) \ S
        /\ \A r \in S : \E x \in settled : x.read = r /\ x.index <= a
        /\ \A i \in 1 .. n : q[i] \in settled
    BY <2>2, <2>1, <2>6, ServedFromQueue
  <2>8. ASSUME Agree(pendingReads, readyToRead, dropped, readStates \o readOnly)
        PROVE  Agree(q, n, dropped', readOnly)
    <3>1. Agree(c, l, dropped, readOnly)
      BY <1>0, <1>4, <2>8, AgreeConfirmed DEF c, l
    <3>2. Agree(q, n, dropped, readOnly)
      BY <1>0, <2>2, <2>1, <3>1, AgreeRemaining
    <3>3. QED
      BY <2>2, <3>2
  <2>9. QED
    BY <2>2, <2>4, <2>7, <2>8 DEF see
<1>5. CASE ~(~readyToHandleRead(psTerm) \/ readStates = <<>>) /\ ~inOrder
  <2>1. /\ q = pendingReads /\ n = readyToRead /\ S = {}
        /\ readFatal' \in {"out of range", "uuid not match"}
        /\ UNCHANGED <<readSeen, dropped>>
    BY <1>5 DEF handleReadStates
  <2>2. readFatal' # "no"
    BY <2>1
  <2>3. QED
    BY <1>2, <2>1, <2>2
<1>6. QED
  BY <1>3, <1>4, <1>5

\* handleReady serves reads, and answers all that are left if leadership is
\* lost.
LEMMA ReadyServes ==
    ASSUME QueueInv, NEW a \in Nat, NEW d, doApplyReads(a, d)
    PROVE  \E S, T :
              /\ Served(S, T, a, d)
              /\ leaderLost => pendingReads' = <<>>
              /\ dropped' \in {dropped, dropped \cup readsOf(readStates)}
              /\ readFatal' \in {readFatal, "out of range", "uuid not match"}
              /\ (/\ readFatal' = "no" /\ ~leaderLost
                  /\ Agree(pendingReads, readyToRead, dropped, readStates \o readOnly))
                 => Agree(pendingReads', readyToRead', dropped', readOnly)
<1>1. PICK S \in SUBSET Reads, q \in {pendingReads, remaining(confirmed, a)},
           n \in 0 .. Len(pendingReads) :
          /\ handleReadStates(a, d, q, n, S)
          /\ pendingReads' = IF leaderLost THEN <<>> ELSE q
          /\ readyToRead' = IF leaderLost THEN 0 ELSE n
          /\ readReplies' = [r \in Reads |->
                CASE r \in S -> Append(readReplies[r], "ok")
                  [] leaderLost /\ r \in readsOf(q) -> Append(readReplies[r], "stale")
                  [] OTHER -> readReplies[r]]
  BY DEF doApplyReads
<1>2. /\ S \in SUBSET readsOf(pendingReads) /\ QueueOK(q, n)
      /\ readsOf(q) = readsOf(pendingReads) \ S
      /\ \A r \in S : \E x \in settled : x.read = r /\ x.index <= a
      /\ \A i \in 1 .. n : q[i] \in settled
      /\ readSeen' = [r \in Reads |-> IF r \in S THEN d ELSE readSeen[r]]
      /\ dropped' \in {dropped, dropped \cup readsOf(readStates)}
      /\ readFatal' \in {readFatal, "out of range", "uuid not match"}
      /\ (/\ readFatal' = "no"
          /\ Agree(pendingReads, readyToRead, dropped, readStates \o readOnly))
         => Agree(q, n, dropped', readOnly)
  BY <1>1, ReadStatesHandled
<1>a. PICK T : (leaderLost => T = readsOf(q)) /\ (~leaderLost => T = {})
  OBVIOUS
<1>3. readReplies' = [r \in Reads |-> IF r \in S THEN Append(readReplies[r], "ok")
                                       ELSE IF r \in T THEN Append(readReplies[r], "stale")
                                       ELSE readReplies[r]]
  <2>1. \A r : (leaderLost /\ r \in readsOf(q)) <=> r \in T
    BY <1>a
  <2>2. \A r \in Reads : /\ r \in S => readReplies'[r] = Append(readReplies[r], "ok")
                         /\ (r \notin S /\ r \in T) =>
                               readReplies'[r] = Append(readReplies[r], "stale")
                         /\ (r \notin S /\ r \notin T) => readReplies'[r] = readReplies[r]
    BY <1>1, <1>2, <2>1
  <2>3. readReplies' = [r \in Reads |-> readReplies'[r]]
    BY <1>1
  <2>4. QED
    BY <2>2, <2>3
<1>4. QueueOK(<<>>, 0) /\ readsOf(<<>>) = {}
  <2>1. Len(<<>>) = 0 /\ <<>> \in Seq(ReadState) /\ DOMAIN <<>> = {}
    OBVIOUS
  <2>2. QED
    BY <2>1 DEF QueueOK, readsOf
<1>5. /\ QueueOK(pendingReads', readyToRead')
      /\ readsOf(pendingReads') = readsOf(pendingReads) \ (S \cup T)
      /\ \A i \in 1 .. readyToRead' : pendingReads'[i] \in settled
  <2>1. CASE leaderLost
    <3>1. pendingReads' = <<>> /\ readyToRead' = 0 /\ T = readsOf(q)
      BY <1>a, <1>1, <2>1
    <3>2. readsOf(pendingReads) \ (S \cup T) = {}
      BY <1>2, <3>1, Zenon
    <3>3. 1 .. 0 = {}
      OBVIOUS
    <3>4. QED
      BY <1>4, <3>1, <3>2, <3>3
  <2>2. CASE ~leaderLost
    <3>1. pendingReads' = q /\ readyToRead' = n /\ T = {}
      BY <1>a, <1>1, <2>2
    <3>2. QED
      BY <1>2, <3>1
  <2>3. QED
    BY <2>1, <2>2
<1>6. S \cap T = {} /\ T \in SUBSET readsOf(pendingReads)
  BY <1>a, <1>2
<1>7. Served(S, T, a, d)
  BY <1>2, <1>3, <1>5, <1>6, Zenon DEF Served
<1>8. QED
  BY <1>1, <1>2, <1>7

----------------------------------------------------------------------------
(* Types, one home for every read, and indexes.                            *)

\* The reads of A are answered and leave their homes.
LEMMA AnsweredOnce ==
    ASSUME QueueInv, NEW A \in SUBSET Reads, \A r \in A : taken(r),
           \A r \in Reads : taken(r)' => taken(r) /\ r \notin A,
           \A r \in Reads : r \notin A => readReplies'[r] = readReplies[r],
           \A r \in A : \E x : readReplies'[r] = Append(readReplies[r], x)
    PROVE  /\ \A r \in Reads : taken(r)' => readReplies'[r] = <<>>
           /\ \A r \in Reads : Len(readReplies'[r]) <= 1
<1>1. /\ \A r \in Reads : taken(r) => readReplies[r] = <<>>
      /\ \A r \in Reads : Len(readReplies[r]) <= 1
  BY DEF QueueInv, HomesInv
<1>2. \A r \in Reads : taken(r)' => readReplies'[r] = <<>>
  BY <1>1
<1>3. ASSUME NEW r \in A PROVE Len(readReplies'[r]) <= 1
  <2>1. readReplies[r] = <<>>
    BY <1>1
  <2>2. PICK x : readReplies'[r] = Append(<<>>, x)
    BY <2>1
  <2>3. QED
    BY <2>2
<1>4. QED
  BY <1>1, <1>2, <1>3

\* Nothing happens to the queues of the replica and the answers.
LEMMA HomesFrame ==
    ASSUME HomesInv, UNCHANGED <<readReqs, readBatch, pendingReads, readReplies>>
    PROVE  HomesInv'
BY DEF HomesInv, taken

\* Reads are served.
LEMMA ServedKeepsHomes ==
    ASSUME QueueInv, NEW S, NEW T, NEW a, NEW d, Served(S, T, a, d),
           UNCHANGED <<readReqs, readBatch>>
    PROVE  /\ HomesInv' /\ QueueOK(pendingReads', readyToRead')
           /\ readReplies' \in [Reads -> Seq({"ok", "notLeader", "stale", "shardNotFound",
                                              "storeNotMatch"})]
           /\ d \in Seq(Cmds \cup Others) => readSeen' \in [Reads -> Seq(Cmds \cup Others)]
           /\ \A i \in DOMAIN pendingReads' : pendingReads'[i].index > 0 <=> i <= readyToRead'
<1>0. /\ HomesInv /\ ReadTypeOK /\ readsOf(pendingReads) \in SUBSET Reads
  BY QueueInvParts
<1>1. /\ S \in SUBSET readsOf(pendingReads) /\ T \in SUBSET readsOf(pendingReads)
      /\ QueueOK(pendingReads', readyToRead')
      /\ readsOf(pendingReads') = readsOf(pendingReads) \ (S \cup T)
      /\ readReplies' = [r \in Reads |-> IF r \in S THEN Append(readReplies[r], "ok")
                                       ELSE IF r \in T THEN Append(readReplies[r], "stale")
                                       ELSE readReplies[r]]
      /\ readSeen' = [r \in Reads |-> IF r \in S THEN d ELSE readSeen[r]]
  BY Zenon DEF Served
<1>2. DOMAIN pendingReads' = 1 .. Len(pendingReads')
  BY <1>1, QueueType
<1> DEFINE A == S \cup T
<1>3. A \in SUBSET Reads /\ \A r \in A : taken(r)
  BY <1>0, <1>1, Zenon DEF taken
<1>4. \A r \in Reads : taken(r)' => taken(r) /\ r \notin A
  <2>1. SUFFICES ASSUME NEW r \in Reads, taken(r)' PROVE taken(r) /\ r \notin A
    OBVIOUS
  <2>2. \/ r \in ToSet(readReqs) \cup ToSet(readBatch)
        \/ r \in readsOf(pendingReads) \ A
    BY <1>1, <2>1 DEF taken
  <2>3. (ToSet(readReqs) \cup ToSet(readBatch)) \cap readsOf(pendingReads) = {}
    BY <1>0 DEF HomesInv
  <2>4. QED
    BY <1>1, <2>2, <2>3 DEF taken
<1>5. \A r \in Reads : r \notin A => readReplies'[r] = readReplies[r]
  BY <1>1
<1>6. \A r \in A : \E x : readReplies'[r] = Append(readReplies[r], x)
  BY <1>1, <1>3
<1>7. /\ \A r \in Reads : taken(r)' => readReplies'[r] = <<>>
      /\ \A r \in Reads : Len(readReplies'[r]) <= 1
  BY <1>3, <1>4, <1>5, <1>6, AnsweredOnce
<1>8. HomesInv'
  <2>1. (ToSet(readReqs) \cup ToSet(readBatch)) \cap readsOf(pendingReads') = {}
    BY <1>0, <1>1 DEF HomesInv
  <2>2. \A i, j \in DOMAIN pendingReads' : pendingReads'[i].read = pendingReads'[j].read => i = j
    BY <1>1, <1>2 DEF QueueOK
  <2>3. QED
    BY <1>0, <1>7, <2>1, <2>2 DEF HomesInv
<1>9. readReplies' \in [Reads -> Seq({"ok", "notLeader", "stale", "shardNotFound",
                                      "storeNotMatch"})]
  <2> DEFINE W == {"ok", "notLeader", "stale", "shardNotFound", "storeNotMatch"}
  <2>1. readReplies \in [Reads -> Seq(W)]
    BY <1>0 DEF ReadTypeOK
  <2>2. "ok" \in W /\ "stale" \in W
    OBVIOUS
  <2> HIDE DEF W
  <2>3. \A r \in Reads : Append(readReplies[r], "ok") \in Seq(W)
                         /\ Append(readReplies[r], "stale") \in Seq(W)
    BY <2>1, <2>2, AppendProperties
  <2>4. QED
    BY <1>1, <2>1, <2>3 DEF W
<1>10. d \in Seq(Cmds \cup Others) => readSeen' \in [Reads -> Seq(Cmds \cup Others)]
  BY <1>0, <1>1 DEF ReadTypeOK
<1>11. \A i \in DOMAIN pendingReads' : pendingReads'[i].index > 0 <=> i <= readyToRead'
  BY <1>1, <1>2 DEF QueueOK
<1>12. QED
  BY <1>1, <1>8, <1>9, <1>10, <1>11

\* Two parts of a sequence.
LEMMA SplitParts ==
    ASSUME NEW V, NEW t \in Seq(V), NEW i \in 1 .. Len(t)
    PROVE  LET c == SubSeq(t, 1, i)
               e == SubSeq(t, i + 1, Len(t))
           IN /\ c \in Seq(V) /\ Len(c) = i /\ (\A j \in 1 .. i : c[j] = t[j])
              /\ e \in Seq(V) /\ Len(e) = Len(t) - i
              /\ \A j \in 1 .. Len(t) - i : i + j \in 1 .. Len(t) /\ e[j] = t[i + j]
              /\ c \o e = t
<1> DEFINE c == SubSeq(t, 1, i)
           e == SubSeq(t, i + 1, Len(t))
<1>0. Len(t) \in Nat /\ i \in 0 .. Len(t)
  BY LenProperties
<1>1. /\ c \in Seq(V) /\ Len(c) = i /\ \A j \in 1 .. i : c[j] = t[j]
  BY <1>0, PrefixElements
<1>a. PICK m \in Nat : m = i + 1
  BY <1>0
<1>b. PICK l \in Nat : l = Len(t)
  BY <1>0
<1>c. /\ e \in Seq(V) /\ Len(e) = (IF m <= l THEN l - m + 1 ELSE 0)
      /\ \A j \in 1 .. l - m + 1 : e[j] = t[m + j - 1]
  <2>1. \A k \in m .. l : t[k] \in V
    <3>1. \A k \in m .. l : k \in 1 .. Len(t)
      BY <1>a, <1>b
    <3>2. QED
      BY <3>1, ElementOfSeq
  <2>2. e = SubSeq(t, m, l)
    BY <1>a, <1>b
  <2>3. m \in Int /\ l \in Int
    OBVIOUS
  <2>4. QED
    BY <2>1, <2>2, <2>3, SubSeqProperties
<1>2. e \in Seq(V) /\ Len(e) = Len(t) - i
  BY <1>a, <1>b, <1>c
<1>3. \A j \in 1 .. Len(t) - i : i + j \in 1 .. Len(t) /\ e[j] = t[i + j]
  <2>1. SUFFICES ASSUME NEW j \in 1 .. Len(t) - i
                 PROVE  i + j \in 1 .. Len(t) /\ e[j] = t[i + j]
    OBVIOUS
  <2>2. j \in 1 .. l - m + 1 /\ m + j - 1 = i + j /\ i + j \in 1 .. Len(t)
    BY <1>0, <1>a, <1>b
  <2>3. e[j] = t[m + j - 1]
    BY <1>c, <2>2
  <2>4. QED
    BY <2>2, <2>3
<1>4. c \o e = t
  <2>1. /\ 1 \in 1 .. Len(t) + 1 /\ i \in 1 - 1 .. Len(t) /\ Len(t) \in i .. Len(t)
    BY <1>0
  <2>2. c \o e = SubSeq(t, 1, Len(t))
    BY <2>1, ConcatAdjacentSubSeq
  <2>3. QED
    BY <2>2, SubSeqFull
<1>5. QED
  BY <1>1, <1>2, <1>3, <1>4

\* A sequence p that is s with c behind it.
LEMMA ConcatParts ==
    ASSUME NEW V, NEW s \in Seq(V), NEW c \in Seq(V)
    PROVE  /\ s \o c \in Seq(V) /\ Len(s \o c) = Len(s) + Len(c)
           /\ \A j \in 1 .. Len(s) : (s \o c)[j] = s[j]
           /\ \A j \in 1 .. Len(s \o c) : j \notin 1 .. Len(s) =>
                 \E k \in 1 .. Len(c) : j = Len(s) + k /\ (s \o c)[j] = c[k]
<1>0. Len(s) \in Nat /\ Len(c) \in Nat
  BY LenProperties
<1>1. /\ s \o c \in Seq(V) /\ Len(s \o c) = Len(s) + Len(c)
      /\ \A j \in 1 .. Len(s) : (s \o c)[j] = s[j]
      /\ \A k \in 1 .. Len(c) : (s \o c)[Len(s) + k] = c[k]
  BY <1>0, ConcatProperties
<1>2. ASSUME NEW j \in 1 .. Len(s \o c), j \notin 1 .. Len(s)
      PROVE  \E k \in 1 .. Len(c) : j = Len(s) + k /\ (s \o c)[j] = c[k]
  <2>1. j - Len(s) \in 1 .. Len(c) /\ j = Len(s) + (j - Len(s))
    BY <1>0, <1>1, <1>2
  <2>2. (s \o c)[j] = c[j - Len(s)]
    BY <1>1, <2>1
  <2>3. QED
    BY <2>1, <2>2
<1>3. QED
  BY <1>1, <1>2

\* The first i elements of t go to the end of s, which becomes p; q is left.
Moves(V, s, t, p, q, i) ==
    /\ p \in Seq(V) /\ q \in Seq(V)
    /\ p \o q = s \o t
    /\ Len(q) = Len(t) - i /\ Len(p) = Len(s) + i
    /\ \A j \in 1 .. Len(t) - i : i + j \in 1 .. Len(t) /\ q[j] = t[i + j]
    /\ \A j \in 1 .. Len(s) : p[j] = s[j]
    /\ \A j \in 1 .. Len(p) :
          j \notin 1 .. Len(s) => \E k \in 1 .. i : j = Len(s) + k /\ p[j] = t[k]

LEMMA AckSplits ==
    ASSUME NEW V, NEW s \in Seq(V), NEW t \in Seq(V), NEW i \in 1 .. Len(t)
    PROVE  Moves(V, s, t, s \o SubSeq(t, 1, i), SubSeq(t, i + 1, Len(t)), i)
<1> DEFINE c == SubSeq(t, 1, i)
           q == SubSeq(t, i + 1, Len(t))
<1>1. /\ c \in Seq(V) /\ Len(c) = i /\ \A j \in 1 .. i : c[j] = t[j]
  BY SplitParts
<1>2. /\ q \in Seq(V) /\ Len(q) = Len(t) - i
      /\ \A j \in 1 .. Len(t) - i : i + j \in 1 .. Len(t) /\ q[j] = t[i + j]
  BY SplitParts
<1>3. c \o q = t
  BY SplitParts
<1> HIDE DEF c, q
<1>4. c \in Seq(V) /\ q \in Seq(V)
  BY <1>1, <1>2
<1>5. /\ s \o c \in Seq(V) /\ Len(s \o c) = Len(s) + Len(c)
      /\ \A j \in 1 .. Len(s) : (s \o c)[j] = s[j]
      /\ \A j \in 1 .. Len(s \o c) : j \notin 1 .. Len(s) =>
            \E k \in 1 .. Len(c) : j = Len(s) + k /\ (s \o c)[j] = c[k]
  BY <1>4, ConcatParts
<1>6. (s \o c) \o q = s \o t
  <2>1. PICK x \in Seq(V), y \in Seq(V) : x = c /\ y = q
    BY <1>4
  <2>2. (s \o x) \o y = s \o (x \o y)
    BY SMTT(30), ConcatAssociative
  <2>3. QED
    BY <1>3, <2>1, <2>2, Zenon
<1>7. PICK p : p = s \o c
  OBVIOUS
<1>8. /\ p \in Seq(V) /\ Len(p) = Len(s) + i /\ p \o q = s \o t
      /\ \A j \in 1 .. Len(s) : p[j] = s[j]
      /\ \A j \in 1 .. Len(p) : j \notin 1 .. Len(s) =>
            \E k \in 1 .. i : j = Len(s) + k /\ p[j] = c[k]
  BY <1>1, <1>5, <1>6, <1>7, Zenon
<1>9. \A j \in 1 .. Len(p) : j \notin 1 .. Len(s) =>
            \E k \in 1 .. i : j = Len(s) + k /\ p[j] = t[k]
  BY <1>1, <1>8, Zenon
<1>10. p = s \o SubSeq(t, 1, i) /\ q = SubSeq(t, i + 1, Len(t))
  BY <1>7 DEF c, q
<1>11. Moves(V, s, t, p, q, i)
  BY <1>2, <1>8, <1>9, Zenon DEF Moves
<1>12. QED
  BY <1>10, <1>11, Zenon

\* What an acknowledgement does to the reads raft holds.
LEMMA AckMoves ==
    ASSUME readStates \in Seq(ReadState), readOnly \in Seq(ReadState), NEW r, RecvReadAck(r)
    PROVE  \E i \in 1 .. Len(readOnly) :
              readOnly[i].read = r
              /\ Moves(ReadState, readStates, readOnly, readStates', readOnly', i)
<1>1. PICK i \in DOMAIN readOnly :
         /\ readOnly[i].read = r
         /\ readStates' = readStates \o SubSeq(readOnly, 1, i)
         /\ readOnly' = SubSeq(readOnly, i + 1, Len(readOnly))
  BY DEF RecvReadAck
<1>2. i \in 1 .. Len(readOnly)
  BY LenProperties
<1>3. Moves(ReadState, readStates, readOnly, readStates \o SubSeq(readOnly, 1, i),
            SubSeq(readOnly, i + 1, Len(readOnly)), i)
  BY <1>2, AckSplits
<1>4. QED
  BY <1>1, <1>2, <1>3, Zenon

\* The steps of raft and of the apply worker, and those that do not touch the
\* reads.
LEMMA RaftReadsKeepQueueInv ==
    ASSUME QueueInv, TypeInv, TypeInv',
           UNCHANGED <<readReqs, readBatch, pendingReads, readyToRead, prevSoft, psTerm,
                       readReplies, readSeen, readFatal, dropped, overtaken, toldAt>>,
           \/ /\ UNCHANGED <<told, dTerm>>
              /\ \/ \E r \in Reads : SendReadAck(r) \/ RecvReadAck(r) \/ AnswerForwarded(r)
                 \/ RecvReadIndexResp
           \/ /\ UNCHANGED <<readStates, readNet>>
              /\ resetReadOnly \/ UNCHANGED readOnly
              /\ \/ updateTold /\ UNCHANGED dTerm
                 \/ UNCHANGED told /\ ApplyWithReads
                 \/ UNCHANGED <<told, dTerm>>
    PROVE  QueueInv'
<1>0. /\ HomesInv /\ ReadTypeOK /\ IndexInv
      /\ readStates \in Seq(ReadState) /\ readOnly \in Seq(ReadState)
      /\ DOMAIN readStates = 1 .. Len(readStates) /\ Len(readStates) \in Nat
      /\ DOMAIN readOnly = 1 .. Len(readOnly) /\ Len(readOnly) \in Nat
      /\ \A i \in 1 .. Len(readStates) : readStates[i].index > 0
      /\ \A i \in 1 .. Len(readOnly) : readOnly[i].index > 0
      /\ readNet \in SUBSET ReadMsg /\ told \in Nat /\ dTerm \in Nat
  BY QueueInvParts DEF ReadTypeOK
<1>1. HomesInv'
  BY <1>0, HomesFrame
<1>2. /\ readOnly' \in Seq(ReadState) /\ readStates' \in Seq(ReadState)
      /\ readNet' \in SUBSET ReadMsg
      /\ \A i \in DOMAIN readOnly' : readOnly'[i].index > 0
      /\ \A i \in DOMAIN readStates' : readStates'[i].index > 0
      /\ \A m \in readNet' : m.kind = "resp" => m.index > 0
  <2>0. \A m \in readNet : m.kind = "resp" => m.index > 0
    BY <1>0 DEF IndexInv
  <2>1. CASE \E r \in Reads : SendReadAck(r)
    <3>1. PICK r \in Reads : readNet' = readNet \cup {[kind |-> "ack", read |-> r]}
      BY <2>1 DEF SendReadAck
    <3>2. UNCHANGED <<readOnly, readStates>>
      BY <2>1 DEF SendReadAck
    <3>3. [kind |-> "ack", read |-> r] \in ReadMsg /\ [kind |-> "ack", read |-> r].kind = "ack"
      BY DEF ReadMsg
    <3>4. QED
      BY <1>0, <2>0, <3>1, <3>2, <3>3
  <2>2. CASE \E r \in Reads : RecvReadAck(r)
    <3>1. PICK r \in Reads : RecvReadAck(r)
      BY <2>2
    <3>2. readStates \in Seq(ReadState) /\ readOnly \in Seq(ReadState)
      BY <1>0
    <3>3. readNet' \in SUBSET readNet
      BY <3>1 DEF RecvReadAck
    <3>4. PICK i \in 1 .. Len(readOnly) :
              Moves(ReadState, readStates, readOnly, readStates', readOnly', i)
      BY <3>1, <3>2, AckMoves, Zenon
    <3>5. /\ readStates' \in Seq(ReadState) /\ readOnly' \in Seq(ReadState)
          /\ Len(readOnly') = Len(readOnly) - i
          /\ \A j \in 1 .. Len(readOnly) - i :
                i + j \in 1 .. Len(readOnly) /\ readOnly'[j] = readOnly[i + j]
          /\ \A j \in 1 .. Len(readStates) : readStates'[j] = readStates[j]
          /\ \A j \in 1 .. Len(readStates') :
                j \notin 1 .. Len(readStates) =>
                   \E k \in 1 .. i : j = Len(readStates) + k /\ readStates'[j] = readOnly[k]
      BY <3>4, Zenon DEF Moves
    <3>6. /\ DOMAIN readStates' = 1 .. Len(readStates') /\ DOMAIN readOnly' = 1 .. Len(readOnly')
          /\ \A k \in 1 .. i : k \in 1 .. Len(readOnly)
      BY <1>0, <3>4, <3>5, LenProperties
    <3>7. \A j \in DOMAIN readStates' : readStates'[j].index > 0
      BY <1>0, <3>5, <3>6
    <3>8. \A j \in DOMAIN readOnly' : readOnly'[j].index > 0
      BY <1>0, <3>5, <3>6
    <3>9. QED
      BY <1>0, <2>0, <3>3, <3>5, <3>7, <3>8
  <2>3. CASE \E r \in Reads : AnswerForwarded(r)
    <3>1. PICK r \in Reads : AnswerForwarded(r)
      BY <2>3
    <3>2. gcommit \in Nat /\ gterm \in Nat
      BY DEF TypeInv, RaftInv, RaftTypeOK
    <3> DEFINE m == [kind |-> "resp", read |-> r, index |-> gcommit, term |-> gterm]
    <3>3. m \in ReadMsg /\ m.index = gcommit
      BY <3>2 DEF ReadMsg
    <3>4. /\ readNet' = (readNet \ {[kind |-> "readIndex", read |-> r]}) \cup {m}
          /\ UNCHANGED <<readOnly, readStates>> /\ gcommit > 0
      BY <3>1 DEF AnswerForwarded
    <3> HIDE DEF m
    <3>5. QED
      BY <1>0, <2>0, <3>3, <3>4
  <2>4. CASE RecvReadIndexResp
    <3>1. PICK m \in readNet :
             /\ m.kind = "resp"
             /\ readStates' = Append(readStates, [read |-> m.read, index |-> m.index])
             /\ readNet' = readNet \ {m}
      BY <2>4 DEF RecvReadIndexResp
    <3>2. m.read \in Reads /\ m.index \in Nat /\ m.index > 0
      BY <1>0, <2>0, <3>1 DEF ReadMsg
    <3> DEFINE x == [read |-> m.read, index |-> m.index]
    <3>3. x \in ReadState /\ x.index > 0
      BY <3>2 DEF ReadState
    <3>4. UNCHANGED readOnly
      BY <2>4 DEF RecvReadIndexResp
    <3>5. readStates' = Append(readStates, x)
      BY <3>1
    <3> HIDE DEF x
    <3>6. /\ readStates' \in Seq(ReadState) /\ DOMAIN readStates' = 1 .. Len(readStates) + 1
          /\ \A j \in 1 .. Len(readStates) : readStates'[j] = readStates[j]
          /\ readStates'[Len(readStates) + 1] = x
      <4>1. readStates \in Seq(ReadState) /\ x \in ReadState
        BY <1>0, <3>3
      <4>2. QED
        BY <3>5, <4>1, Appended
    <3>7. \A j \in DOMAIN readStates' : readStates'[j].index > 0
      BY <1>0, <3>3, <3>6
    <3>8. QED
      BY <1>0, <2>0, <3>1, <3>4, <3>6, <3>7
  <2>5. CASE UNCHANGED <<readStates, readNet>> /\ (resetReadOnly \/ UNCHANGED readOnly)
    <3>1. readOnly' \in {readOnly, <<>>}
      BY <2>5 DEF resetReadOnly
    <3>2. <<>> \in Seq(ReadState) /\ DOMAIN <<>> = {}
      OBVIOUS
    <3>3. QED
      BY <1>0, <2>0, <2>5, <3>1, <3>2
  <2>6. QED
    BY <2>1, <2>2, <2>3, <2>4, <2>5
<1>3. told' \in Nat /\ dTerm' \in Nat
  <2>1. ASSUME updateTold PROVE told' \in Nat
    <3>1. knownNow' \in Nat
      <4>1. gcommit' \in Nat /\ rcommit' \in Nat
        BY DEF TypeInv, RaftInv, RaftTypeOK
      <4>2. knownNow' \in {gcommit', rcommit', 0}
        BY DEF knownNow
      <4>3. QED
        BY <4>1, <4>2
    <3>2. QED
      BY <1>0, <2>1, <3>1 DEF updateTold
  <2>2. ASSUME ApplyWithReads PROVE dTerm' \in Nat
    <3>1. CASE dApplied' # dApplied
      <4>1. nextJob("apply")
        BY <2>2 DEF ApplyWithReads, DoApplyCommittedEntries
      <4>2. Head(jobs).entries \in Seq(Entry) /\ Head(jobs).entries # <<>>
        <5>1. jobs \in Seq(Job) /\ jobs # <<>> /\ Head(jobs).kind = "apply"
          BY <4>1 DEF nextJob, TypeInv, TypeOK
        <5>2. Head(jobs) \in Job
          BY <5>1, HeadTailProperties
        <5>3. QED
          BY <5>1, <5>2, JobType
      <4>3. Head(Head(jobs).entries).term \in Nat
        <5>1. Head(Head(jobs).entries) \in Entry
          BY <4>2, HeadTailProperties
        <5>2. QED
          BY <5>1 DEF Entry
      <4>4. QED
        BY <1>0, <2>2, <4>3 DEF ApplyWithReads
    <3>2. CASE dApplied' = dApplied
      BY <1>0, <2>2, <3>2 DEF ApplyWithReads
    <3>3. QED
      BY <3>1, <3>2
  <2>3. QED
    BY <1>0, <2>1, <2>2
<1>4. ReadTypeOK'
  BY <1>0, <1>2, <1>3 DEF ReadTypeOK
<1>5. IndexInv'
  BY <1>0, <1>2 DEF IndexInv
<1>6. QED
  BY <1>1, <1>4, <1>5 DEF QueueInv

\* Lists without repetition.
Distinct(s) == \A i, j \in DOMAIN s : s[i] = s[j] => i = j

LEMMA DistinctTail ==
    ASSUME NEW V, NEW s \in Seq(V), s # <<>>, Distinct(s)
    PROVE  /\ Tail(s) \in Seq(V) /\ Distinct(Tail(s)) /\ Head(s) \in V
           /\ ToSet(Tail(s)) = ToSet(s) \ {Head(s)} /\ Head(s) \in ToSet(s)
<1>1. /\ Len(s) \in Nat \ {0} /\ DOMAIN s = 1 .. Len(s) /\ Head(s) = s[1]
      /\ DOMAIN Tail(s) = 1 .. Len(s) - 1 /\ Tail(s) \in Seq(V) /\ Head(s) \in V
      /\ \A i \in 1 .. Len(s) - 1 : Tail(s)[i] = s[i + 1]
  BY EmptySeq, LenProperties, HeadTailProperties
<1>2. Distinct(Tail(s))
  BY <1>1 DEF Distinct
<1>3. Head(s) \in ToSet(s)
  BY <1>1 DEF ToSet
<1>4. ASSUME NEW c \in ToSet(Tail(s)) PROVE c \in ToSet(s) /\ c # Head(s)
  <2>1. PICK i \in DOMAIN Tail(s) : c = Tail(s)[i]
    BY <1>4 DEF ToSet
  <2>2. i + 1 \in DOMAIN s /\ c = s[i + 1] /\ i + 1 # 1 /\ 1 \in DOMAIN s
    BY <1>1, <2>1
  <2>3. QED
    BY <1>1, <2>2 DEF ToSet, Distinct
<1>5. ASSUME NEW c \in ToSet(s), c # Head(s) PROVE c \in ToSet(Tail(s))
  <2>1. PICK i \in DOMAIN s : c = s[i]
    BY <1>5 DEF ToSet
  <2>2. i \in 1 .. Len(s) /\ i # 1
    BY <1>1, <1>5, <2>1
  <2>3. i - 1 \in 1 .. Len(s) - 1 /\ (i - 1) + 1 = i
    BY <1>1, <2>2
  <2>4. i - 1 \in DOMAIN Tail(s) /\ Tail(s)[i - 1] = s[i]
    BY <1>1, <2>3
  <2>5. QED
    BY <2>1, <2>4 DEF ToSet
<1>6. QED
  BY <1>1, <1>2, <1>3, <1>4, <1>5

LEMMA DistinctAppend ==
    ASSUME NEW V, NEW s \in Seq(V), NEW x \in V, Distinct(s), x \notin ToSet(s)
    PROVE  /\ Append(s, x) \in Seq(V) /\ Distinct(Append(s, x))
           /\ ToSet(Append(s, x)) = ToSet(s) \cup {x}
<1>0. PICK p : p = Append(s, x)
  OBVIOUS
<1>1. /\ p \in Seq(V) /\ Len(s) \in Nat /\ Len(p) = Len(s) + 1
      /\ DOMAIN p = 1 .. Len(s) + 1 /\ DOMAIN s = 1 .. Len(s)
      /\ \A i \in 1 .. Len(s) : p[i] = s[i]
      /\ p[Len(s) + 1] = x
  BY <1>0, Appended
<1>2. PICK l \in Nat : l = Len(s) + 1
  BY <1>1
<1>3. /\ \A i \in DOMAIN p : (i \in DOMAIN s /\ p[i] = s[i]) \/ (i = l /\ p[i] = x)
      /\ \A i \in DOMAIN s : i \in DOMAIN p /\ p[i] = s[i]
      /\ l \in DOMAIN p /\ p[l] = x
  BY <1>1, <1>2
<1>4. \A i \in DOMAIN s : s[i] \in ToSet(s)
  BY DEF ToSet
<1>5. Distinct(p)
  BY <1>3, <1>4 DEF Distinct
<1>6. ToSet(p) = ToSet(s) \cup {x}
  BY <1>3 DEF ToSet
<1>7. QED
  BY <1>0, <1>1, <1>5, <1>6, Zenon

LEMMA DistinctConcat ==
    ASSUME NEW V, NEW s \in Seq(V), NEW t \in Seq(V), Distinct(s), Distinct(t),
           ToSet(s) \cap ToSet(t) = {}
    PROVE  /\ s \o t \in Seq(V) /\ Distinct(s \o t)
           /\ ToSet(s \o t) = ToSet(s) \cup ToSet(t)
<1>0. Len(s) \in Nat /\ Len(t) \in Nat /\ DOMAIN s = 1 .. Len(s) /\ DOMAIN t = 1 .. Len(t)
  BY LenProperties
<1>1. /\ s \o t \in Seq(V) /\ Len(s \o t) = Len(s) + Len(t)
      /\ \A j \in 1 .. Len(s) : (s \o t)[j] = s[j]
      /\ \A j \in 1 .. Len(s \o t) : j \notin 1 .. Len(s) =>
            \E k \in 1 .. Len(t) : j = Len(s) + k /\ (s \o t)[j] = t[k]
      /\ \A k \in 1 .. Len(t) : (s \o t)[Len(s) + k] = t[k]
  BY <1>0, ConcatParts, ConcatProperties
<1>2. PICK p \in Seq(V) : p = s \o t
  BY <1>1
<1>3. DOMAIN p = 1 .. Len(p)
  BY LenProperties
<1>4. /\ \A j \in DOMAIN p : \/ j \in DOMAIN s /\ p[j] = s[j]
                             \/ \E k \in DOMAIN t : j = Len(s) + k /\ p[j] = t[k]
      /\ \A j \in DOMAIN s : j \in DOMAIN p /\ p[j] = s[j]
      /\ \A k \in DOMAIN t : Len(s) + k \in DOMAIN p /\ p[Len(s) + k] = t[k]
  <2>1. /\ Len(p) = Len(s) + Len(t)
        /\ \A j \in 1 .. Len(s) : p[j] = s[j]
        /\ \A j \in 1 .. Len(p) : j \notin 1 .. Len(s) =>
              \E k \in 1 .. Len(t) : j = Len(s) + k /\ p[j] = t[k]
        /\ \A k \in 1 .. Len(t) : p[Len(s) + k] = t[k]
    BY <1>1, <1>2, Zenon
  <2>2. /\ \A j \in 1 .. Len(s) : j \in 1 .. Len(p)
        /\ \A k \in 1 .. Len(t) : Len(s) + k \in 1 .. Len(p)
    BY <1>0, <2>1
  <2>3. QED
    BY <1>0, <1>3, <2>1, <2>2, Zenon
<1>5. (\A i \in DOMAIN s : s[i] \in ToSet(s)) /\ (\A i \in DOMAIN t : t[i] \in ToSet(t))
  BY DEF ToSet
<1>6. Distinct(p)
  <2>1. SUFFICES ASSUME NEW i \in DOMAIN p, NEW j \in DOMAIN p, p[i] = p[j] PROVE i = j
    BY DEF Distinct
  <2>2. CASE i \in DOMAIN s /\ p[i] = s[i]
    BY <1>4, <1>5, <2>1, <2>2 DEF Distinct
  <2>3. CASE \E k \in DOMAIN t : i = Len(s) + k /\ p[i] = t[k]
    BY <1>4, <1>5, <2>1, <2>3 DEF Distinct
  <2>4. QED
    BY <1>4, <2>2, <2>3
<1>7. ToSet(p) = ToSet(s) \cup ToSet(t)
  <2>1. \A x \in ToSet(p) : x \in ToSet(s) \cup ToSet(t)
    <3>1. SUFFICES ASSUME NEW x \in ToSet(p) PROVE x \in ToSet(s) \cup ToSet(t)
      OBVIOUS
    <3>2. PICK j \in DOMAIN p : x = p[j]
      BY <3>1 DEF ToSet
    <3>3. QED
      BY <1>4, <1>5, <3>2
  <2>2. \A x \in ToSet(s) : x \in ToSet(p)
    BY <1>4 DEF ToSet
  <2>3. \A x \in ToSet(t) : x \in ToSet(p)
    BY <1>4 DEF ToSet
  <2>4. QED
    BY <2>1, <2>2, <2>3
<1>8. QED
  BY <1>2, <1>6, <1>7, Zenon

\* The answers of reads, and that one more answer is one of them.
ReadAnswers == {"ok", "notLeader", "stale", "shardNotFound", "storeNotMatch"}

LEMMA HomesParts ==
    ASSUME QueueInv
    PROVE  /\ readReqs \in Seq(Reads) /\ readBatch \in Seq(Reads)
           /\ readReplies \in [Reads -> Seq(ReadAnswers)]
           /\ Distinct(readReqs) /\ Distinct(readBatch)
           /\ ToSet(readReqs) \cap ToSet(readBatch) = {}
           /\ (ToSet(readReqs) \cup ToSet(readBatch)) \cap readsOf(pendingReads) = {}
           /\ ToSet(readReqs) \in SUBSET Reads /\ ToSet(readBatch) \in SUBSET Reads
<1>1. ReadTypeOK /\ HomesInv
  BY DEF QueueInv
<1>2. readReqs \in Seq(Reads) /\ readBatch \in Seq(Reads)
  BY <1>1 DEF ReadTypeOK
<1>3. ToSet(readReqs) \in SUBSET Reads /\ ToSet(readBatch) \in SUBSET Reads
  BY <1>2, LenProperties, ElementOfSeq DEF ToSet
<1>4. QED
  BY <1>1, <1>2, <1>3 DEF ReadTypeOK, HomesInv, Distinct, ReadAnswers

\* One more answer to a set of reads.
LEMMA RespReadsAnswers ==
    ASSUME QueueInv, NEW A \in SUBSET Reads, NEW x \in ReadAnswers,
           readReplies' = respReads(A, x)
    PROVE  /\ readReplies' \in [Reads -> Seq(ReadAnswers)]
           /\ \A r \in Reads : r \notin A => readReplies'[r] = readReplies[r]
           /\ \A r \in A : readReplies'[r] = Append(readReplies[r], x)
<1>1. readReplies \in [Reads -> Seq(ReadAnswers)]
  BY HomesParts
<1>2. \A r \in Reads : Append(readReplies[r], x) \in Seq(ReadAnswers)
  BY <1>1, AppendProperties
<1>3. readReplies' = [r \in Reads |-> IF r \in A THEN Append(readReplies[r], x)
                                      ELSE readReplies[r]]
  BY DEF respReads
<1>4. QED
  BY <1>1, <1>2, <1>3

\* One more answer to one read.
LEMMA RespReadAnswers ==
    ASSUME QueueInv, NEW r \in Reads, NEW x \in ReadAnswers, readReplies' = respRead(r, x)
    PROVE  readReplies' = respReads({r}, x)
<1>1. readReplies \in [Reads -> Seq(ReadAnswers)]
  BY HomesParts
<1>2. QED
  BY <1>1 DEF respRead, respReads

\* The homes of the reads, part by part.
LEMMA HomesFrom ==
    ASSUME QueueInv, Distinct(readReqs'), Distinct(readBatch'),
           \A i, j \in DOMAIN pendingReads' : pendingReads'[i].read = pendingReads'[j].read => i = j,
           ToSet(readReqs') \cap ToSet(readBatch') = {},
           (ToSet(readReqs') \cup ToSet(readBatch')) \cap readsOf(pendingReads') = {},
           NEW A \in SUBSET Reads, \A r \in A : taken(r) \/ readReplies[r] = <<>>,
           \A r \in Reads : taken(r)' => (taken(r) \/ readReplies[r] = <<>>) /\ r \notin A,
           \A r \in Reads : r \notin A => readReplies'[r] = readReplies[r],
           \A r \in A : \E x : readReplies'[r] = Append(readReplies[r], x)
    PROVE  HomesInv'
<1>1. /\ \A r \in Reads : taken(r) => readReplies[r] = <<>>
      /\ \A r \in Reads : Len(readReplies[r]) <= 1
  BY DEF QueueInv, HomesInv
<1>2. \A r \in Reads : taken(r)' => readReplies'[r] = <<>>
  BY <1>1
<1>3. ASSUME NEW r \in A PROVE Len(readReplies'[r]) <= 1
  <2>1. readReplies[r] = <<>>
    BY <1>1
  <2>2. PICK x : readReplies'[r] = Append(<<>>, x)
    BY <2>1
  <2>3. QED
    BY <2>2
<1>4. \A r \in Reads : Len(readReplies'[r]) <= 1
  BY <1>1, <1>3
<1>5. QED
  BY <1>2, <1>4, Zenon DEF HomesInv, Distinct

\* A client sends a read.
LEMMA SubmitReadKeepsQueueInv ==
    ASSUME QueueInv, NEW r \in Reads, SubmitRead(r)
    PROVE  QueueInv'
<1>0. /\ ReadTypeOK /\ HomesInv /\ IndexInv
      /\ UNCHANGED <<readBatch, pendingReads, readyToRead, prevSoft, psTerm, dTerm, readOnly,
                     readStates, readNet, readSeen, readFatal, dropped, overtaken, told>>
      /\ readReplies[r] = <<>> /\ r \notin ToSet(readReqs) \cup ToSet(readBatch)
      /\ r \notin readsOf(pendingReads)
  BY DEF QueueInv, SubmitRead, raftReadVars
<1>1. toldAt' \in [Reads -> Nat]
  BY <1>0 DEF SubmitRead, ReadTypeOK
<1>2. IndexInv'
  BY <1>0 DEF IndexInv
<1>3. /\ readReqs \in Seq(Reads) /\ readBatch \in Seq(Reads)
      /\ readReplies \in [Reads -> Seq(ReadAnswers)]
      /\ Distinct(readReqs) /\ Distinct(readBatch)
      /\ ToSet(readReqs) \cap ToSet(readBatch) = {}
      /\ (ToSet(readReqs) \cup ToSet(readBatch)) \cap readsOf(pendingReads) = {}
  BY HomesParts
<1>4. \A i, j \in DOMAIN pendingReads : pendingReads[i].read = pendingReads[j].read => i = j
  BY <1>0 DEF HomesInv
<1>5. CASE live /\ ~stopped
  <2>1. readReqs' = Append(readReqs, r) /\ UNCHANGED readReplies
    BY <1>5 DEF SubmitRead
  <2>2. /\ readReqs' \in Seq(Reads) /\ Distinct(readReqs')
        /\ ToSet(readReqs') = ToSet(readReqs) \cup {r}
    <3>1. /\ readReqs \in Seq(Reads) /\ Distinct(readReqs) /\ r \notin ToSet(readReqs)
          /\ readReqs' = Append(readReqs, r)
      BY <1>0, <1>3, <2>1
    <3>2. /\ Append(readReqs, r) \in Seq(Reads) /\ Distinct(Append(readReqs, r))
          /\ ToSet(Append(readReqs, r)) = ToSet(readReqs) \cup {r}
      BY <3>1, DistinctAppend, ZenonT(60)
    <3>3. QED
      BY <3>1, <3>2, Zenon
  <2>3. \A s \in Reads : taken(s)' => taken(s) \/ readReplies[s] = <<>>
    BY <1>0, <2>2 DEF taken
  <2>4. HomesInv'
    BY <1>0, <1>3, <1>4, <2>1, <2>2, <2>3 DEF HomesInv, Distinct
  <2>5. ReadTypeOK'
    BY <1>0, <1>1, <2>1, <2>2 DEF ReadTypeOK
  <2>6. QED
    BY <1>2, <2>4, <2>5 DEF QueueInv
<1>6. CASE ~(live /\ ~stopped)
  <2>1. readReplies' = respRead(r, "storeNotMatch") /\ UNCHANGED readReqs
    BY <1>6 DEF SubmitRead
  <2>2. "storeNotMatch" \in ReadAnswers /\ {r} \in SUBSET Reads
    BY DEF ReadAnswers
  <2>3. readReplies' = respReads({r}, "storeNotMatch")
    BY <2>1, <2>2, RespReadAnswers
  <2>4. /\ readReplies' \in [Reads -> Seq(ReadAnswers)]
        /\ \A s \in Reads : s \notin {r} => readReplies'[s] = readReplies[s]
        /\ \A s \in {r} : readReplies'[s] = Append(readReplies[s], "storeNotMatch")
    BY <2>2, <2>3, RespReadsAnswers
  <2>5. \A s \in Reads : taken(s)' => taken(s) /\ s \notin {r}
    BY <1>0, <2>1 DEF taken
  <2>6. Distinct(readReqs') /\ Distinct(readBatch')
    BY <1>0, <1>3, <2>1
  <2>7. HomesInv'
    BY <1>0, <1>3, <1>4, <2>1, <2>2, <2>4, <2>5, <2>6, HomesFrom
  <2>8. ReadTypeOK'
    BY <1>0, <1>1, <2>1, <2>4 DEF ReadTypeOK, ReadAnswers
  <2>9. QED
    BY <1>2, <2>7, <2>8 DEF QueueInv
<1>7. QED
  BY <1>5, <1>6

\* The replica stops and answers the queue and the batch.
LEMMA StopKeepsQueueInv ==
    ASSUME QueueInv, StopWithReads
    PROVE  QueueInv'
<1>0. /\ ReadTypeOK /\ HomesInv /\ IndexInv
      /\ UNCHANGED <<pendingReads, readyToRead, prevSoft, psTerm, dTerm, readOnly, readStates,
                     readNet, readSeen, readFatal, dropped, overtaken, told, toldAt>>
      /\ readReplies' = respReads(ToSet(readReqs) \cup ToSet(readBatch), "storeNotMatch")
      /\ readReqs' = <<>> /\ readBatch' = <<>>
  BY DEF QueueInv, StopWithReads, raftReadVars
<1>1. IndexInv'
  BY <1>0 DEF IndexInv
<1>2. PICK A \in SUBSET Reads : A = ToSet(readReqs) \cup ToSet(readBatch)
  BY HomesParts
<1>3. "storeNotMatch" \in ReadAnswers
  BY DEF ReadAnswers
<1>4. /\ readReplies' \in [Reads -> Seq(ReadAnswers)]
      /\ \A s \in Reads : s \notin A => readReplies'[s] = readReplies[s]
      /\ \A s \in A : readReplies'[s] = Append(readReplies[s], "storeNotMatch")
  BY <1>0, <1>2, <1>3, RespReadsAnswers
<1>5. ToSet(readReqs') = {} /\ ToSet(readBatch') = {} /\ Distinct(readReqs') /\ Distinct(readBatch')
      /\ readReqs' \in Seq(Reads) /\ readBatch' \in Seq(Reads)
  BY <1>0 DEF ToSet, Distinct
<1>6. \A s \in Reads : taken(s)' => taken(s) /\ s \notin A
  <2>1. (ToSet(readReqs) \cup ToSet(readBatch)) \cap readsOf(pendingReads) = {}
    BY HomesParts
  <2>2. QED
    BY <1>0, <1>2, <1>5, <2>1 DEF taken
<1>7. \A s \in A : taken(s)
  BY <1>2 DEF taken
<1>8. \A i, j \in DOMAIN pendingReads' : pendingReads'[i].read = pendingReads'[j].read => i = j
  BY <1>0 DEF HomesInv
<1>9. HomesInv'
  BY <1>4, <1>5, <1>6, <1>7, <1>8, HomesFrom
<1>10. ReadTypeOK'
  BY <1>0, <1>4, <1>5 DEF ReadTypeOK, ReadAnswers
<1>11. QED
  BY <1>1, <1>9, <1>10 DEF QueueInv

\* The queue is drained into the batch.
LEMMA RequestKeepsQueueInv ==
    ASSUME QueueInv, RequestWithReads
    PROVE  QueueInv'
<1>0. /\ ReadTypeOK /\ HomesInv /\ IndexInv
      /\ UNCHANGED <<pendingReads, readyToRead, prevSoft, psTerm, dTerm, readOnly, readStates,
                     readNet, readReplies, readSeen, readFatal, dropped, overtaken, told, toldAt>>
      /\ readBatch' = readBatch \o readReqs /\ readReqs' = <<>>
  BY DEF QueueInv, RequestWithReads, raftReadVars, answerVars
<1>1. IndexInv'
  BY <1>0 DEF IndexInv
<1>2. /\ readReqs \in Seq(Reads) /\ readBatch \in Seq(Reads)
      /\ Distinct(readReqs) /\ Distinct(readBatch)
      /\ ToSet(readBatch) \cap ToSet(readReqs) = {}
  BY HomesParts
<1>3. /\ readBatch \o readReqs \in Seq(Reads) /\ Distinct(readBatch \o readReqs)
      /\ ToSet(readBatch \o readReqs) = ToSet(readBatch) \cup ToSet(readReqs)
  BY <1>2, DistinctConcat, ZenonT(60)
<1>4. /\ readBatch' \in Seq(Reads) /\ Distinct(readBatch')
      /\ ToSet(readBatch') = ToSet(readBatch) \cup ToSet(readReqs)
  BY <1>0, <1>3, Zenon
<1>5. ToSet(readReqs') = {} /\ Distinct(readReqs') /\ readReqs' \in Seq(Reads)
  BY <1>0 DEF ToSet, Distinct
<1>6. \A s \in Reads : taken(s)' => taken(s)
  BY <1>0, <1>4, <1>5 DEF taken
<1>7. HomesInv'
  BY <1>0, <1>4, <1>5, <1>6, Zenon DEF HomesInv, Distinct
<1>8. ReadTypeOK'
  BY <1>0, <1>4, <1>5 DEF ReadTypeOK
<1>9. QED
  BY <1>1, <1>7, <1>8 DEF QueueInv

\* The head of the batch is refused or forwarded.
LEMMA RefusedKeepsQueueInv ==
    ASSUME QueueInv, ReadRefused \/ ReadForwarded
    PROVE  QueueInv'
<1>0. /\ ReadTypeOK /\ HomesInv /\ IndexInv
      /\ UNCHANGED <<readReqs, pendingReads, readyToRead, prevSoft, psTerm, dTerm, readOnly,
                     readStates, readSeen, readFatal, dropped, overtaken, told, toldAt>>
      /\ readBatch # <<>> /\ readBatch' = Tail(readBatch)
  BY DEF QueueInv, ReadRefused, ReadForwarded, raftReadVars
<1>1. PICK x \in ReadAnswers : readReplies' = respRead(Head(readBatch), x)
  BY DEF ReadRefused, ReadForwarded, ReadAnswers
<1>2. /\ readReqs \in Seq(Reads) /\ readBatch \in Seq(Reads)
      /\ Distinct(readReqs) /\ Distinct(readBatch)
      /\ ToSet(readReqs) \cap ToSet(readBatch) = {}
      /\ (ToSet(readReqs) \cup ToSet(readBatch)) \cap readsOf(pendingReads) = {}
  BY HomesParts
<1>3. /\ readBatch' \in Seq(Reads) /\ Distinct(readBatch') /\ Head(readBatch) \in Reads
      /\ ToSet(readBatch') = ToSet(readBatch) \ {Head(readBatch)}
      /\ Head(readBatch) \in ToSet(readBatch)
  BY <1>0, <1>2, DistinctTail
<1>4. PICK r \in Reads : r = Head(readBatch)
  BY <1>3
<1>5. readReplies' = respReads({r}, x) /\ {r} \in SUBSET Reads
  BY <1>1, <1>4, RespReadAnswers
<1>6. /\ readReplies' \in [Reads -> Seq(ReadAnswers)]
      /\ \A s \in Reads : s \notin {r} => readReplies'[s] = readReplies[s]
      /\ \A s \in {r} : readReplies'[s] = Append(readReplies[s], x)
  BY <1>5, RespReadsAnswers
<1>7. \A s \in Reads : taken(s)' => taken(s) /\ s \notin {r}
  BY <1>0, <1>2, <1>3, <1>4 DEF taken
<1>8. \A s \in {r} : taken(s)
  BY <1>3, <1>4 DEF taken
<1>9. \A i, j \in DOMAIN pendingReads' : pendingReads'[i].read = pendingReads'[j].read => i = j
  BY <1>0 DEF HomesInv
<1>10. HomesInv'
  <2>1. /\ Distinct(readReqs') /\ ToSet(readReqs') \cap ToSet(readBatch') = {}
        /\ (ToSet(readReqs') \cup ToSet(readBatch')) \cap readsOf(pendingReads') = {}
    BY <1>0, <1>2, <1>3
  <2>2. QED
    BY <1>3, <1>5, <1>6, <1>7, <1>8, <1>9, <2>1, HomesFrom
<1>11. readNet' \in SUBSET ReadMsg /\ \A m \in readNet' : m.kind = "resp" => m.index > 0
  <2>1. readNet \in SUBSET ReadMsg /\ \A m \in readNet : m.kind = "resp" => m.index > 0
    BY <1>0 DEF ReadTypeOK, IndexInv
  <2>2. PICK y : y = [kind |-> "readIndex", read |-> r]
    OBVIOUS
  <2>3. y \in ReadMsg /\ y.kind # "resp"
    BY <2>2 DEF ReadMsg
  <2>4. readNet' \in {readNet, readNet \cup {y}}
    BY <1>4, <2>2 DEF ReadRefused, ReadForwarded, raftReadVars
  <2>5. QED
    BY <2>1, <2>3, <2>4
<1>12. IndexInv'
  BY <1>0, <1>11 DEF IndexInv
<1>13. ReadTypeOK'
  BY <1>0, <1>3, <1>6, <1>11 DEF ReadTypeOK, ReadAnswers
<1>14. QED
  BY <1>10, <1>12, <1>13 DEF QueueInv

\* Raft and the queue take the head of the batch.
LEMMA AcceptedKeepsQueueInv ==
    ASSUME QueueInv, TypeInv, ReadAccepted
    PROVE  /\ QueueInv'
           /\ rcommit > 0 /\ Head(readBatch) \in ToSet(readBatch) /\ Head(readBatch) \in Reads
           /\ readsOf(pendingReads') = readsOf(pendingReads) \cup {Head(readBatch)}
           /\ ToSet(readBatch') = ToSet(readBatch) \ {Head(readBatch)}
<1>0. /\ ReadTypeOK /\ HomesInv /\ IndexInv
      /\ UNCHANGED <<readReqs, readyToRead, prevSoft, psTerm, dTerm, readStates, readNet,
                     readReplies, readSeen, readFatal, dropped, overtaken, told, toldAt>>
      /\ readBatch # <<>> /\ readBatch' = Tail(readBatch)
      /\ readOnly' = Append(readOnly, [read |-> Head(readBatch), index |-> rcommit])
      /\ pendingReads' = Append(pendingReads, [read |-> Head(readBatch), index |-> 0])
      /\ committedInTerm
  BY DEF QueueInv, ReadAccepted, answerVars
<1>1. rcommit \in Nat /\ rcommit > 0
  BY <1>0 DEF committedInTerm, TypeInv, RaftInv, RaftTypeOK
<1>2. /\ readReqs \in Seq(Reads) /\ readBatch \in Seq(Reads)
      /\ Distinct(readReqs) /\ Distinct(readBatch)
      /\ ToSet(readReqs) \cap ToSet(readBatch) = {}
      /\ (ToSet(readReqs) \cup ToSet(readBatch)) \cap readsOf(pendingReads) = {}
  BY HomesParts
<1>3. /\ readBatch' \in Seq(Reads) /\ Distinct(readBatch') /\ Head(readBatch) \in Reads
      /\ ToSet(readBatch') = ToSet(readBatch) \ {Head(readBatch)}
      /\ Head(readBatch) \in ToSet(readBatch)
  BY <1>0, <1>2, DistinctTail
<1>4. PICK r \in Reads : r = Head(readBatch)
  BY <1>3
<1>5. PICK x \in ReadState : x = [read |-> r, index |-> rcommit]
  BY <1>1 DEF ReadState
<1>6. PICK y \in ReadState : y = [read |-> r, index |-> 0]
  BY DEF ReadState
<1>7. /\ readOnly \in Seq(ReadState) /\ pendingReads \in Seq(ReadState)
      /\ readOnly' = Append(readOnly, x) /\ pendingReads' = Append(pendingReads, y)
      /\ readyToRead \in 0 .. Len(pendingReads)
  BY <1>0, <1>4, <1>5, <1>6 DEF ReadTypeOK
<1>8. /\ readOnly' \in Seq(ReadState) /\ DOMAIN readOnly' = 1 .. Len(readOnly) + 1
      /\ DOMAIN readOnly = 1 .. Len(readOnly)
      /\ \A i \in 1 .. Len(readOnly) : readOnly'[i] = readOnly[i]
      /\ readOnly'[Len(readOnly) + 1] = x
  BY <1>7, Appended
<1>9. /\ pendingReads' \in Seq(ReadState) /\ DOMAIN pendingReads' = 1 .. Len(pendingReads) + 1
      /\ Len(pendingReads) \in Nat /\ Len(pendingReads') = Len(pendingReads) + 1
      /\ DOMAIN pendingReads = 1 .. Len(pendingReads)
      /\ \A i \in 1 .. Len(pendingReads) : pendingReads'[i] = pendingReads[i]
      /\ pendingReads'[Len(pendingReads) + 1] = y
  BY <1>7, Appended
<1>10. PICK l \in Nat : l = Len(pendingReads) + 1
  BY <1>9
<1>11. /\ \A i \in DOMAIN pendingReads' : \/ i \in DOMAIN pendingReads /\ pendingReads'[i] = pendingReads[i]
                                          \/ i = l /\ pendingReads'[i] = y
       /\ \A i \in DOMAIN pendingReads : i \in DOMAIN pendingReads' /\ pendingReads'[i] = pendingReads[i]
       /\ l \in DOMAIN pendingReads' /\ pendingReads'[l] = y /\ y.read = r /\ y.index = 0
       /\ l > readyToRead
  BY <1>6, <1>7, <1>9, <1>10
<1>12. readsOf(pendingReads') = readsOf(pendingReads) \cup {r}
  <2>1. \A s \in readsOf(pendingReads') : s \in readsOf(pendingReads) \cup {r}
    BY <1>11 DEF readsOf
  <2>2. \A s \in readsOf(pendingReads) : s \in readsOf(pendingReads')
    BY <1>11 DEF readsOf
  <2>3. r \in readsOf(pendingReads')
    BY <1>11 DEF readsOf
  <2>4. QED
    BY <2>1, <2>2, <2>3
<1>13. \A i, j \in DOMAIN pendingReads' : pendingReads'[i].read = pendingReads'[j].read => i = j
  <2>1. r \notin readsOf(pendingReads)
    BY <1>2, <1>3, <1>4
  <2>2. \A i \in DOMAIN pendingReads : pendingReads[i].read # r
    BY <2>1 DEF readsOf
  <2>3. \A i, j \in DOMAIN pendingReads : pendingReads[i].read = pendingReads[j].read => i = j
    BY <1>0 DEF HomesInv
  <2>4. QED
    BY <1>11, <2>2, <2>3
<1>14. \A s \in Reads : taken(s)' => taken(s)
  BY <1>0, <1>3, <1>4, <1>12 DEF taken
<1>15. HomesInv'
  <2>1. /\ Distinct(readReqs') /\ ToSet(readReqs') \cap ToSet(readBatch') = {}
        /\ (ToSet(readReqs') \cup ToSet(readBatch')) \cap readsOf(pendingReads') = {}
    BY <1>0, <1>2, <1>3, <1>4, <1>12
  <2>2. QED
    BY <1>0, <1>3, <1>13, <1>14, <2>1, Zenon DEF HomesInv, Distinct
<1>16. IndexInv'
  <2>1. \A i \in DOMAIN readOnly' : readOnly'[i].index > 0
    <3>1. \A i \in 1 .. Len(readOnly) : readOnly[i].index > 0
      BY <1>0, <1>8 DEF IndexInv
    <3>2. x.index > 0
      BY <1>1, <1>5
    <3>3. Len(readOnly) \in Nat
      BY <1>7, LenProperties
    <3>4. QED
      BY <1>8, <3>1, <3>2, <3>3
  <2>2. \A i \in DOMAIN pendingReads' : pendingReads'[i].index > 0 <=> i <= readyToRead'
    <3>1. \A i \in DOMAIN pendingReads : pendingReads[i].index > 0 <=> i <= readyToRead
      BY <1>0 DEF IndexInv
    <3>2. ~(y.index > 0) /\ ~(l <= readyToRead) /\ readyToRead' = readyToRead
      BY <1>0, <1>7, <1>10, <1>11
    <3>3. QED
      BY <1>11, <3>1, <3>2, Zenon
  <2>3. QED
    BY <1>0, <2>1, <2>2 DEF IndexInv
<1>17. ReadTypeOK'
  <2>1. readyToRead' \in 0 .. Len(pendingReads')
    BY <1>0, <1>7, <1>9
  <2>2. QED
    BY <1>0, <1>3, <1>8, <1>9, <2>1 DEF ReadTypeOK
<1>18. QED
  BY <1>1, <1>3, <1>4, <1>12, <1>15, <1>16, <1>17 DEF QueueInv

LEMMA EmptyList == \A V : <<>> \in Seq(V) /\ DOMAIN <<>> = {}
OBVIOUS

\* Reads are served from the queue.
LEMMA ServedKeepsQueueInv ==
    ASSUME QueueInv, NEW S, NEW T, NEW a, NEW d \in Seq(Cmds \cup Others), Served(S, T, a, d),
           UNCHANGED <<readReqs, readBatch, dTerm, readOnly, readNet, told, toldAt>>,
           readStates' \in {readStates, <<>>}, psTerm' \in {psTerm, dTerm},
           prevSoft' \in {"follower", "candidate", "leader"} \X {"self", "other", "none"},
           readFatal' \in {readFatal, "out of range", "uuid not match"},
           dropped' \in {dropped, dropped \cup readsOf(readStates)},
           overtaken' \in SUBSET Reads
    PROVE  QueueInv'
<1>0. ReadTypeOK /\ IndexInv /\ readStates \in Seq(ReadState)
  BY QueueInvParts
<1>1. /\ HomesInv' /\ QueueOK(pendingReads', readyToRead')
      /\ readReplies' \in [Reads -> Seq(ReadAnswers)]
      /\ readSeen' \in [Reads -> Seq(Cmds \cup Others)]
      /\ \A i \in DOMAIN pendingReads' : pendingReads'[i].index > 0 <=> i <= readyToRead'
  <2>1. UNCHANGED <<readReqs, readBatch>>
    OBVIOUS
  <2>2. /\ HomesInv' /\ QueueOK(pendingReads', readyToRead')
        /\ readReplies' \in [Reads -> Seq({"ok", "notLeader", "stale", "shardNotFound",
                                           "storeNotMatch"})]
        /\ d \in Seq(Cmds \cup Others) => readSeen' \in [Reads -> Seq(Cmds \cup Others)]
        /\ \A i \in DOMAIN pendingReads' : pendingReads'[i].index > 0 <=> i <= readyToRead'
    BY <2>1, ServedKeepsHomes
  <2>3. QED
    BY <2>2 DEF ReadAnswers
<1>2. pendingReads' \in Seq(ReadState) /\ readyToRead' \in 0 .. Len(pendingReads')
  BY <1>1 DEF QueueOK
<1>3. readStates' \in Seq(ReadState) /\ \A i \in DOMAIN readStates' : readStates'[i].index > 0
  <2>1. <<>> \in Seq(ReadState) /\ DOMAIN <<>> = {}
    BY EmptyList
  <2>2. \A i \in DOMAIN readStates : readStates[i].index > 0
    BY <1>0, Zenon DEF IndexInv
  <2>3. CASE readStates' = readStates
    BY <1>0, <2>2, <2>3
  <2>4. CASE readStates' = <<>>
    BY <2>1, <2>4
  <2>5. QED
    BY <2>3, <2>4
<1>4. dropped' \in SUBSET Reads
  <2>1. readsOf(readStates) \in SUBSET Reads
    <3>0. \A i \in DOMAIN readStates : readStates[i] \in ReadState
      BY <1>0, LenProperties, ElementOfSeq
    <3>1. \A i \in DOMAIN readStates : readStates[i].read \in Reads
      BY <3>0 DEF ReadState
    <3>2. QED
      BY <3>1 DEF readsOf
  <2>2. QED
    BY <1>0, <2>1 DEF ReadTypeOK
<1>5. IndexInv'
  BY <1>0, <1>1, <1>3 DEF IndexInv
<1>6. ReadTypeOK'
  BY <1>0, <1>1, <1>2, <1>3, <1>4 DEF ReadTypeOK, ReadAnswers
<1>7. QED
  BY <1>1, <1>5, <1>6 DEF QueueInv

\* What handling a Ready leaves alone and changes, besides serving reads.
ReadyMeans ==
    /\ UNCHANGED <<role, rterm, rlead, rcommit, rlog, gself, gcommit, gterm, gshards>>
    /\ UNCHANGED <<readReqs, readBatch, psTerm, dTerm, readOnly, readNet, told, toldAt>>
    /\ readStates' = <<>> /\ prevSoft' = <<role, rlead>>
    /\ overtaken' \in SUBSET Reads
    /\ leaderLost => pendingReads' = <<>>
    /\ dropped' \in {dropped, dropped \cup readsOf(readStates)}
    /\ readFatal' \in {readFatal, "out of range", "uuid not match"}
    /\ (/\ readFatal' = "no" /\ ~leaderLost
        /\ Agree(pendingReads, readyToRead, dropped, readStates \o readOnly))
       => Agree(pendingReads', readyToRead', dropped', readOnly)

LEMMA ReadyMeansWhat ==
    ASSUME QueueInv, NEW a \in Nat, NEW d, doApplyReads(a, d),
           UNCHANGED <<role, rterm, rlead, rcommit, rlog, gself, gcommit, gterm, gshards>>,
           overtaken' \in SUBSET Reads
    PROVE  ReadyMeans /\ \E S, T : Served(S, T, a, d)
<1>1. PICK S, T :
          /\ Served(S, T, a, d)
          /\ leaderLost => pendingReads' = <<>>
          /\ dropped' \in {dropped, dropped \cup readsOf(readStates)}
          /\ readFatal' \in {readFatal, "out of range", "uuid not match"}
          /\ (/\ readFatal' = "no" /\ ~leaderLost
              /\ Agree(pendingReads, readyToRead, dropped, readStates \o readOnly))
             => Agree(pendingReads', readyToRead', dropped', readOnly)
  BY ReadyServes
<1>2. /\ UNCHANGED <<readReqs, readBatch, psTerm, dTerm, readOnly, readNet, told, toldAt>>
      /\ readStates' = <<>> /\ prevSoft' = <<role, rlead>>
  BY DEF doApplyReads
<1>3. ReadyMeans
  BY <1>1, <1>2, Zenon DEF ReadyMeans
<1>4. QED
  BY <1>1, <1>3

LEMMA ReadyStep ==
    ASSUME QueueInv, TypeInv, ReadyWithReads
    PROVE  ReadyMeans /\ \E S, T : Served(S, T, psApplied, data)
<1>1. psApplied \in Nat /\ doApplyReads(psApplied, data)
  BY DEF ReadyWithReads, TypeInv, TypeOK
<1>2. UNCHANGED <<role, rterm, rlead, rcommit, rlog, gself, gcommit, gterm, gshards>>
  BY DEF ReadyWithReads, HandleReady
<1>3. overtaken' \in SUBSET Reads
  BY DEF ReadyWithReads, QueueInv, ReadTypeOK
<1>4. QED
  BY <1>1, <1>2, <1>3, ReadyMeansWhat

LEMMA SnapshotReadyStep ==
    ASSUME QueueInv, TypeInv, SnapshotReadyWithReads
    PROVE  ReadyMeans /\ \E S, T : \E d \in Seq(Cmds \cup Others) :
              Served(S, T, snapPend, d) /\ S \in SUBSET overtaken' /\ overtaken \in SUBSET overtaken'
<1>1. PICK d \in {data, <<>>, shardAt(snapPend).data} : doApplyReads(snapPend, d)
  BY DEF SnapshotReadyWithReads
<1>2. snapPend \in Nat /\ snapPend <= Len(gshards) /\ data \in Seq(Cmds \cup Others)
  BY DEF TypeInv, TypeOK, RaftInv, RaftTypeOK
<1>3. d \in Seq(Cmds \cup Others)
  <2>1. shardAt(snapPend) \in Shard
    BY <1>2, ShardAtType DEF TypeInv, TypeOK
  <2>2. shardAt(snapPend).data \in Seq(Cmds \cup Others)
    BY <2>1 DEF Shard
  <2>3. <<>> \in Seq(Cmds \cup Others)
    BY EmptyList
  <2>4. QED
    BY <1>1, <1>2, <2>2, <2>3
<1>4. UNCHANGED <<role, rterm, rlead, rcommit, rlog, gself, gcommit, gterm, gshards>>
  BY DEF SnapshotReadyWithReads, SnapshotReady
<1>5. PICK W : W = {r \in Reads : readReplies'[r] # readReplies[r]}
  OBVIOUS
<1>6. overtaken' = overtaken \cup W /\ overtaken \in SUBSET Reads
  BY <1>5 DEF SnapshotReadyWithReads, QueueInv, ReadTypeOK
<1>7. overtaken' \in SUBSET Reads
  BY <1>5, <1>6
<1>8. ReadyMeans
  BY <1>1, <1>2, <1>4, <1>7, ReadyMeansWhat
<1>9. PICK S, T : Served(S, T, snapPend, d)
  BY <1>1, <1>2, <1>4, <1>7, ReadyMeansWhat
<1>10. S \in SUBSET W
  <2>1. /\ S \in SUBSET readsOf(pendingReads)
        /\ readReplies' = [r \in Reads |-> IF r \in S THEN Append(readReplies[r], "ok")
                                       ELSE IF r \in T THEN Append(readReplies[r], "stale")
                                       ELSE readReplies[r]]
    BY <1>9, Zenon DEF Served
  <2>2. /\ readsOf(pendingReads) \in SUBSET Reads
        /\ \A r \in Reads : taken(r) => readReplies[r] = <<>>
    BY QueueInvParts DEF HomesInv
  <2>3. ASSUME NEW r \in S PROVE r \in W
    <3>1. r \in Reads /\ readReplies[r] = <<>>
      BY <2>1, <2>2, <2>3 DEF taken
    <3>2. readReplies'[r] = Append(<<>>, "ok")
      BY <2>1, <2>3, <3>1
    <3>3. Append(<<>>, "ok") # <<>>
      OBVIOUS
    <3>4. QED
      BY <1>5, <3>1, <3>2, <3>3
  <2>4. QED
    BY <2>3
<1>11. S \in SUBSET overtaken' /\ overtaken \in SUBSET overtaken'
  BY <1>6, <1>10
<1>12. QED
  BY <1>3, <1>8, <1>9, <1>11

LEMMA ApplyResultStep ==
    ASSUME QueueInv, TypeInv, TypeInv', ApplyResultWithReads
    PROVE  /\ \E S : Served(S, {}, psApplied', data) /\ (results = <<>> => S = {})
           /\ AgreeInv => AgreeInv'
           /\ UNCHANGED <<nodeVars, groupVars, data>>
           /\ UNCHANGED <<readReqs, readBatch, prevSoft, dTerm, readOnly, readStates, readNet,
                          readFatal, dropped, overtaken, told, toldAt>>
           /\ psTerm' \in {psTerm, dTerm}
<1>1. psApplied' \in Nat
  BY DEF TypeInv, TypeOK
<1>2. /\ \E S : Served(S, {}, psApplied', data) /\ (results = <<>> => S = {})
      /\ AgreeInv => AgreeInv'
  BY <1>1, ApplyResultServes
<1>3. /\ UNCHANGED <<nodeVars, groupVars, data>>
      /\ UNCHANGED <<readReqs, readBatch, prevSoft, dTerm, readOnly, readStates, readNet,
                     readFatal, dropped, overtaken, told, toldAt>>
  BY DEF ApplyResultWithReads, HandleApplyResult, raftVars, delegateVars, raftReadVars
<1>4. psTerm' \in {psTerm, dTerm}
  BY DEF ApplyResultWithReads
<1>5. QED
  BY <1>2, <1>3, <1>4

LEMMA ServingKeepsQueueInv ==
    ASSUME QueueInv, TypeInv, TypeInv',
           ApplyResultWithReads \/ ReadyWithReads \/ SnapshotReadyWithReads
    PROVE  QueueInv'
<1>0. /\ data \in Seq(Cmds \cup Others) /\ rlead \in {"self", "other", "none"}
      /\ role \in {"follower", "candidate", "leader"} /\ ReadTypeOK
  BY DEF TypeInv, TypeOK, RaftTypeOK, QueueInv
<1>1. CASE ApplyResultWithReads
  <2>1. PICK S : Served(S, {}, psApplied', data)
    BY <1>1, ApplyResultStep
  <2>2. /\ UNCHANGED <<readReqs, readBatch, prevSoft, dTerm, readOnly, readStates, readNet,
                       readFatal, dropped, overtaken, told, toldAt>>
        /\ psTerm' \in {psTerm, dTerm}
    BY <1>1, ApplyResultStep
  <2>3. /\ UNCHANGED <<readReqs, readBatch, dTerm, readOnly, readNet, told, toldAt>>
        /\ readStates' \in {readStates, <<>>}
        /\ prevSoft' \in {"follower", "candidate", "leader"} \X {"self", "other", "none"}
        /\ readFatal' \in {readFatal, "out of range", "uuid not match"}
        /\ dropped' \in {dropped, dropped \cup readsOf(readStates)}
        /\ overtaken' \in SUBSET Reads
    BY <1>0, <2>2 DEF ReadTypeOK
  <2>4. QED
    BY <1>0, <2>1, <2>2, <2>3, ServedKeepsQueueInv
<1>2. CASE ReadyWithReads \/ SnapshotReadyWithReads
  <2>1. ReadyMeans
    BY <1>2, ReadyStep, SnapshotReadyStep
  <2>2. PICK S, T, a : \E d \in Seq(Cmds \cup Others) : Served(S, T, a, d)
    BY <1>0, <1>2, ReadyStep, SnapshotReadyStep
  <2>3. PICK d \in Seq(Cmds \cup Others) : Served(S, T, a, d)
    BY <2>2
  <2>4. /\ UNCHANGED <<readReqs, readBatch, psTerm, dTerm, readOnly, readNet, told, toldAt>>
        /\ readStates' = <<>> /\ prevSoft' = <<role, rlead>>
        /\ overtaken' \in SUBSET Reads
        /\ dropped' \in {dropped, dropped \cup readsOf(readStates)}
        /\ readFatal' \in {readFatal, "out of range", "uuid not match"}
    BY <2>1, Zenon DEF ReadyMeans
  <2>5. /\ UNCHANGED <<readReqs, readBatch, dTerm, readOnly, readNet, told, toldAt>>
        /\ readStates' \in {readStates, <<>>} /\ psTerm' \in {psTerm, dTerm}
        /\ prevSoft' \in {"follower", "candidate", "leader"} \X {"self", "other", "none"}
    BY <1>0, <2>4
  <2>6. QED
    BY <2>3, <2>4, <2>5, ServedKeepsQueueInv
<1>3. QED
  BY <1>1, <1>2

\* The steps that touch no read.
Quiet ==
    /\ UNCHANGED readVars
    /\ \/ LoopStart \/ ProposeRefused \/ ProposeForwarded \/ ProposeAppended
       \/ SkipReady /\ readBatch = <<>>
       \/ DoRegistrationJob \/ DoPropose \/ DoApplyingSnapshotJob \/ DoDestroy
       \/ RetryMustDestroy \/ RemovePR
       \/ HandleGCPeerMsg \/ \E c \in Cmds : Submit(c)
       \/ UNCHANGED vars

LEMMA QuietMeans ==
    ASSUME Quiet
    PROVE  /\ UNCHANGED <<readReqs, readBatch, pendingReads, readyToRead, prevSoft, psTerm>>
           /\ UNCHANGED <<dTerm, readOnly, readStates, readNet, readReplies, readSeen, readFatal,
                          dropped, overtaken, told, toldAt>>
           /\ UNCHANGED <<role, rterm, rlead, rcommit, asked, snapPend>>
           /\ UNCHANGED <<glog, gcommit, gterm, gself, gshards>>
<1>1. UNCHANGED readVars
  BY DEF Quiet
<1>2. /\ UNCHANGED <<role, rterm, rlead, rcommit, asked, snapPend>>
      /\ UNCHANGED <<glog, gcommit, gterm, gself, gshards>>
  BY DEF Quiet, LoopStart, ProposeRefused, ProposeForwarded, ProposeAppended, SkipReady,
     DoRegistrationJob, DoPropose, DoApplyingSnapshotJob, DoDestroy, RetryMustDestroy, RemovePR,
     HandleGCPeerMsg, Submit, vars, raftVars, nodeVars, groupVars
<1>3. QED
  BY <1>1, <1>2 DEF readVars, loopReadVars, raftReadVars, answerVars

\* The steps of raft's side of the protocol, in one formula.
RaftRead ==
    \/ \E r \in Reads : SendReadAck(r)
    \/ \E r \in Reads : RecvReadAck(r)
    \/ \E r \in Reads : AnswerForwarded(r)
    \/ RecvReadIndexResp

\* Every step is one of these.
LEMMA ReadCases ==
    ASSUME [ReadNext]_<<vars, readVars>>
    PROVE  \/ \E r \in Reads : SubmitRead(r)
           \/ StopWithReads \/ RequestWithReads
           \/ ReadRefused \/ ReadForwarded \/ ReadAccepted
           \/ ApplyResultWithReads \/ ReadyWithReads \/ SnapshotReadyWithReads
           \/ RaftRead \/ StepWithReads \/ ApplyWithReads \/ GroupWithReads
           \/ Quiet
<1>1. CASE ReadLoop
  BY <1>1 DEF ReadLoop, Quiet
<1>2. CASE ReadWorker
  BY <1>2 DEF ReadWorker, Quiet
<1>3. CASE UNCHANGED <<vars, readVars>>
  BY <1>3 DEF Quiet
<1>4. QED
  BY <1>1, <1>2, <1>3 DEF ReadNext, RaftRead, Quiet

\* Types, homes and indexes are inductive.
LEMMA NextKeepsQueueInv ==
    ASSUME TypeInv, QueueInv, [ReadNext]_<<vars, readVars>>
    PROVE  TypeInv' /\ QueueInv'
<1>1. [Next]_vars
  BY ReadNextIsNext
<1>2. TypeInv'
  BY <1>1, NextKeepsTypes
<1>3. CASE \E r \in Reads : SubmitRead(r)
  BY <1>2, <1>3, SubmitReadKeepsQueueInv
<1>4. CASE StopWithReads \/ RequestWithReads
  BY <1>2, <1>4, StopKeepsQueueInv, RequestKeepsQueueInv
<1>5. CASE ReadRefused \/ ReadForwarded
  BY <1>2, <1>5, RefusedKeepsQueueInv
<1>6. CASE ReadAccepted
  BY <1>2, <1>6, AcceptedKeepsQueueInv
<1>7. CASE ApplyResultWithReads \/ ReadyWithReads \/ SnapshotReadyWithReads
  BY <1>2, <1>7, ServingKeepsQueueInv
<1>8. CASE RaftRead \/ StepWithReads \/ ApplyWithReads \/ GroupWithReads \/ Quiet
  <2>1. UNCHANGED <<readReqs, readBatch, pendingReads, readyToRead, prevSoft, psTerm,
                    readReplies, readSeen, readFatal, dropped, overtaken, toldAt>>
    BY <1>8, QuietMeans DEF RaftRead, SendReadAck, RecvReadAck, AnswerForwarded,
       RecvReadIndexResp, StepWithReads, ApplyWithReads, GroupWithReads, loopReadVars, answerVars
  <2>2. \/ /\ UNCHANGED <<told, dTerm>>
           /\ \/ \E r \in Reads : SendReadAck(r) \/ RecvReadAck(r) \/ AnswerForwarded(r)
              \/ RecvReadIndexResp
        \/ /\ UNCHANGED <<readStates, readNet>>
           /\ resetReadOnly \/ UNCHANGED readOnly
           /\ \/ updateTold /\ UNCHANGED dTerm
              \/ UNCHANGED told /\ ApplyWithReads
              \/ UNCHANGED <<told, dTerm>>
    <3>1. CASE RaftRead
      <4>1. UNCHANGED <<told, dTerm>>
        BY <3>1 DEF RaftRead, SendReadAck, RecvReadAck, AnswerForwarded, RecvReadIndexResp
      <4>2. \/ \E r \in Reads : SendReadAck(r) \/ RecvReadAck(r) \/ AnswerForwarded(r)
            \/ RecvReadIndexResp
        BY <3>1 DEF RaftRead
      <4>3. QED
        BY <4>1, <4>2
    <3>2. CASE StepWithReads \/ GroupWithReads
      <4>1. UNCHANGED <<readStates, readNet, dTerm>> /\ updateTold
            /\ (resetReadOnly \/ UNCHANGED readOnly)
        BY <3>2 DEF StepWithReads, GroupWithReads, raftReadVars
      <4>2. QED
        BY <4>1
    <3>3. CASE ApplyWithReads
      <4>1. UNCHANGED <<readStates, readNet, readOnly, told>>
        BY <3>3 DEF ApplyWithReads, raftReadVars
      <4>2. QED
        BY <3>3, <4>1
    <3>4. CASE Quiet
      <4>1. UNCHANGED <<readStates, readNet, readOnly, told, dTerm>>
        BY <3>4, QuietMeans
      <4>2. QED
        BY <4>1
    <3>5. QED
      BY <1>8, <3>1, <3>2, <3>3, <3>4
  <2>3. QED
    BY <1>2, <2>1, <2>2, RaftReadsKeepQueueInv
<1>9. QED
  BY <1>2, <1>3, <1>4, <1>5, <1>6, <1>7, <1>8, ReadCases

LEMMA InitQueueInv == ReadInit => TypeInv /\ QueueInv
<1>1. SUFFICES ASSUME ReadInit PROVE TypeInv /\ QueueInv
  OBVIOUS
<1>2. TypeInv
  BY <1>1, InitTypeInv DEF ReadInit
<1>3. /\ readReqs = <<>> /\ readBatch = <<>> /\ pendingReads = <<>> /\ readyToRead = 0
      /\ prevSoft = <<"follower", "none">> /\ psTerm = 0 /\ dTerm = 0
      /\ readOnly = <<>> /\ readStates = <<>> /\ readNet = {}
      /\ readReplies = [r \in Reads |-> <<>>] /\ readFatal = "no"
      /\ told = 0 /\ toldAt = [r \in Reads |-> 0] /\ readSeen = [r \in Reads |-> <<>>]
      /\ dropped = {} /\ overtaken = {}
  BY <1>1 DEF ReadInit
<1>4. Len(<<>>) = 0 /\ \A V : <<>> \in Seq(V)
  OBVIOUS
<1>5. ReadTypeOK
  BY <1>3, <1>4 DEF ReadTypeOK
<1>6. ToSet(<<>>) = {} /\ readsOf(<<>>) = {}
  BY DEF ToSet, readsOf
<1>7. HomesInv
  BY <1>3, <1>4, <1>6 DEF HomesInv, taken
<1>8. IndexInv
  BY <1>3 DEF IndexInv
<1>9. QED
  BY <1>2, <1>5, <1>7, <1>8 DEF QueueInv

\* The queues of reads, the answers and what the clients are told keep their
\* types through every step of the event worker, the apply worker and raft.
THEOREM ReadTypes == ReadSpec => []ReadTypeOK
<1>1. (TypeInv /\ QueueInv) /\ [ReadNext]_<<vars, readVars>> => (TypeInv /\ QueueInv)'
  BY NextKeepsQueueInv
<1>2. TypeInv /\ QueueInv => ReadTypeOK
  BY DEF QueueInv
<1>3. QED
  BY InitQueueInv, <1>1, <1>2, PTL DEF ReadSpec

\* A read is answered at most once, and not while it waits in readIndexQueue:
\* a read that doApplyReads serves leaves the queue before leadership is lost,
\* one that is told of the loss is not found by a later ReadState, and what
\* the stop branch of handleEvent answers is in no other queue.
THEOREM ReadAnsweredOnce == ReadSpec => []OneReadReply
<1>1. (TypeInv /\ QueueInv) /\ [ReadNext]_<<vars, readVars>> => (TypeInv /\ QueueInv)'
  BY NextKeepsQueueInv
<1>2. TypeInv /\ QueueInv => OneReadReply
  BY DEF QueueInv, HomesInv, OneReadReply, taken
<1>3. QED
  BY InitQueueInv, <1>1, <1>2, PTL DEF ReadSpec

----------------------------------------------------------------------------
(* A read that raft has heard of does not come back.                       *)

heard(r) ==
    /\ r \notin ToSet(readReqs) \cup ToSet(readBatch)
    /\ r \in readsOf(pendingReads) \/ readReplies[r] # <<>>

LEMMA ReadsOfType ==
    ASSUME NEW q \in Seq(ReadState)
    PROVE  readsOf(q) \in SUBSET Reads
<1>1. \A i \in DOMAIN q : q[i] \in ReadState
  BY LenProperties, ElementOfSeq
<1>2. \A i \in DOMAIN q : q[i].read \in Reads
  BY <1>1 DEF ReadState
<1>3. QED
  BY <1>2 DEF readsOf

LEMMA GivenReads ==
    ASSUME QueueInv
    PROVE  given \in SUBSET Reads
<1>1. /\ readOnly \in Seq(ReadState) /\ readStates \in Seq(ReadState)
      /\ dropped \in SUBSET Reads /\ readNet \in SUBSET ReadMsg
  BY DEF QueueInv, ReadTypeOK
<1>2. readsOf(readOnly) \in SUBSET Reads /\ readsOf(readStates) \in SUBSET Reads
  BY <1>1, ReadsOfType
<1>3. \A m \in readNet : m.read \in Reads
  BY <1>1 DEF ReadMsg
<1>4. QED
  BY <1>1, <1>2, <1>3 DEF given

\* One more answer is an answer.
LEMMA AnswerAdded ==
    ASSUME QueueInv, NEW A \in SUBSET Reads, NEW x \in ReadAnswers,
           readReplies' = respReads(A, x)
    PROVE  \A r \in Reads : (readReplies[r] # <<>> \/ r \in A) => readReplies'[r] # <<>>
<1>1. SUFFICES ASSUME NEW r \in Reads, readReplies[r] # <<>> \/ r \in A
               PROVE  readReplies'[r] # <<>>
  OBVIOUS
<1>2. /\ r \notin A => readReplies'[r] = readReplies[r]
      /\ r \in A => readReplies'[r] = Append(readReplies[r], x)
  BY RespReadsAnswers
<1>3. readReplies[r] \in Seq(ReadAnswers)
  BY HomesParts
<1>4. Append(readReplies[r], x) # <<>>
  BY <1>3
<1>5. QED
  BY <1>1, <1>2, <1>4

\* Reads that are served are answered.
LEMMA ServedStayHeard ==
    ASSUME QueueInv, NEW S, NEW T, NEW a, NEW d, Served(S, T, a, d),
           UNCHANGED <<readReqs, readBatch>>
    PROVE  /\ \A r \in Reads : heard(r) => heard(r)'
           /\ \A r \in S : r \in Reads /\ readReplies[r] = <<>>
<1>1. /\ S \in SUBSET readsOf(pendingReads) /\ T \in SUBSET readsOf(pendingReads)
      /\ readsOf(pendingReads') = readsOf(pendingReads) \ (S \cup T)
      /\ readReplies' = [r \in Reads |-> IF r \in S THEN Append(readReplies[r], "ok")
                                       ELSE IF r \in T THEN Append(readReplies[r], "stale")
                                       ELSE readReplies[r]]
  BY Zenon DEF Served
<1>2. /\ readsOf(pendingReads) \in SUBSET Reads
      /\ \A r \in Reads : taken(r) => readReplies[r] = <<>>
  BY QueueInvParts DEF HomesInv
<1>3. ASSUME NEW r \in Reads, heard(r) PROVE heard(r)'
  <2>1. CASE r \in S \cup T
    <3>1. readReplies[r] = <<>>
      BY <1>1, <1>2, <2>1 DEF taken
    <3>2. readReplies'[r] = Append(<<>>, "ok") \/ readReplies'[r] = Append(<<>>, "stale")
      BY <1>1, <2>1, <3>1
    <3>3. Append(<<>>, "ok") # <<>> /\ Append(<<>>, "stale") # <<>>
      OBVIOUS
    <3>4. QED
      BY <1>3, <3>2, <3>3 DEF heard
  <2>2. CASE r \notin S \cup T
    <3>1. readReplies'[r] = readReplies[r]
      BY <1>1, <2>2
    <3>2. QED
      BY <1>1, <1>3, <2>2, <3>1 DEF heard
  <2>3. QED
    BY <2>1, <2>2
<1>4. \A r \in S : r \in Reads /\ readReplies[r] = <<>>
  BY <1>1, <1>2 DEF taken
<1>5. QED
  BY <1>3, <1>4

\* The serving steps, in one formula.
Serving == ApplyResultWithReads \/ ReadyWithReads \/ SnapshotReadyWithReads

LEMMA ServingMeans ==
    ASSUME QueueInv, TypeInv, TypeInv', Serving
    PROVE  /\ \E S, T, a, d : Served(S, T, a, d)
           /\ UNCHANGED <<readReqs, readBatch, readOnly, readNet, told, toldAt>>
           /\ readStates' \in {readStates, <<>>}
           /\ dropped' \in {dropped, dropped \cup readsOf(readStates)}
           /\ UNCHANGED <<role, rterm, rcommit, rlog, gself, gcommit, gterm, gshards>>
<1>1. CASE ApplyResultWithReads
  <2>1. PICK S : Served(S, {}, psApplied', data)
    BY <1>1, ApplyResultStep
  <2>2. /\ UNCHANGED <<nodeVars, groupVars>>
        /\ UNCHANGED <<readReqs, readBatch, readOnly, readNet, told, toldAt, readStates, dropped>>
    BY <1>1, ApplyResultStep
  <2>3. UNCHANGED <<role, rterm, rcommit, rlog, gself, gcommit, gterm, gshards>>
    BY <2>2 DEF nodeVars, groupVars
  <2>4. QED
    BY <2>1, <2>2, <2>3
<1>2. CASE ReadyWithReads \/ SnapshotReadyWithReads
  <2>1. ReadyMeans
    BY <1>2, ReadyStep, SnapshotReadyStep
  <2>2. \E S, T, a, d : Served(S, T, a, d)
    BY <1>2, ReadyStep, SnapshotReadyStep
  <2>3. /\ UNCHANGED <<role, rterm, rcommit, rlog, gself, gcommit, gterm, gshards>>
        /\ UNCHANGED <<readReqs, readBatch, readOnly, readNet, told, toldAt>>
        /\ readStates' = <<>>
        /\ dropped' \in {dropped, dropped \cup readsOf(readStates)}
    BY <2>1, Zenon DEF ReadyMeans
  <2>4. QED
    BY <2>2, <2>3
<1>3. QED
  BY <1>1, <1>2 DEF Serving

\* Raft's side of the protocol only passes on reads it has heard of.
LEMMA RaftReadGives ==
    ASSUME QueueInv, RaftRead
    PROVE  given' \in SUBSET given
<1>0. /\ readOnly \in Seq(ReadState) /\ readStates \in Seq(ReadState)
      /\ DOMAIN readOnly = 1 .. Len(readOnly) /\ DOMAIN readStates = 1 .. Len(readStates)
      /\ Len(readOnly) \in Nat /\ Len(readStates) \in Nat
  BY QueueInvParts
<1>1. dropped' = dropped
  BY DEF RaftRead, SendReadAck, RecvReadAck, AnswerForwarded, RecvReadIndexResp, answerVars
<1>2. CASE \E r \in Reads : SendReadAck(r)
  <2>1. PICK r \in Reads : SendReadAck(r)
    BY <1>2
  <2>a. PICK y : y = [kind |-> "ack", read |-> r]
    OBVIOUS
  <2>2. y = [kind |-> "ack", read |-> r] /\ y.read = r
    BY <2>a
  <2>3. readNet' = readNet \cup {y} /\ UNCHANGED <<readOnly, readStates>> /\ r \in readsOf(readOnly)
    BY <2>1, <2>2 DEF SendReadAck
  <2>4. QED
    BY <1>1, <2>2, <2>3 DEF given
<1>3. CASE \E r \in Reads : RecvReadAck(r)
  <2>1. PICK r \in Reads : RecvReadAck(r)
    BY <1>3
  <2>2. readNet' \in SUBSET readNet
    BY <2>1 DEF RecvReadAck
  <2>3. PICK i \in 1 .. Len(readOnly) :
            Moves(ReadState, readStates, readOnly, readStates', readOnly', i)
    <3>1. readStates \in Seq(ReadState) /\ readOnly \in Seq(ReadState)
      BY <1>0
    <3>2. QED
      BY <2>1, <3>1, AckMoves, Zenon
  <2>4. /\ readStates' \in Seq(ReadState) /\ readOnly' \in Seq(ReadState)
        /\ Len(readOnly') = Len(readOnly) - i
        /\ \A j \in 1 .. Len(readOnly) - i :
              i + j \in 1 .. Len(readOnly) /\ readOnly'[j] = readOnly[i + j]
        /\ \A j \in 1 .. Len(readStates) : readStates'[j] = readStates[j]
        /\ \A j \in 1 .. Len(readStates') :
              j \notin 1 .. Len(readStates) =>
                 \E k \in 1 .. i : j = Len(readStates) + k /\ readStates'[j] = readOnly[k]
    BY <2>3, Zenon DEF Moves
  <2>5. /\ DOMAIN readStates' = 1 .. Len(readStates') /\ DOMAIN readOnly' = 1 .. Len(readOnly')
        /\ \A k \in 1 .. i : k \in 1 .. Len(readOnly)
    BY <1>0, <2>3, <2>4, LenProperties
  <2>6. /\ \A k \in 1 .. Len(readOnly) : readOnly[k].read \in readsOf(readOnly)
        /\ \A k \in 1 .. Len(readStates) : readStates[k].read \in readsOf(readStates)
    BY <1>0 DEF readsOf
  <2>7. readsOf(readOnly') \in SUBSET readsOf(readOnly)
    <3>1. \A j \in DOMAIN readOnly' : readOnly'[j].read \in readsOf(readOnly)
      BY <2>4, <2>5, <2>6
    <3>2. QED
      BY <3>1 DEF readsOf
  <2>8. readsOf(readStates') \in SUBSET (readsOf(readOnly) \cup readsOf(readStates))
    <3>1. \A j \in DOMAIN readStates' : readStates'[j].read \in readsOf(readOnly) \cup readsOf(readStates)
      BY <2>4, <2>5, <2>6
    <3>2. QED
      BY <3>1 DEF readsOf
  <2>9. QED
    BY <1>1, <2>2, <2>7, <2>8 DEF given
<1>4. CASE \E r \in Reads : AnswerForwarded(r)
  <2>1. PICK r \in Reads : AnswerForwarded(r)
    BY <1>4
  <2>a. PICK x, y : /\ x = [kind |-> "readIndex", read |-> r]
                    /\ y = [kind |-> "resp", read |-> r, index |-> gcommit, term |-> gterm]
    OBVIOUS
  <2>2. /\ x = [kind |-> "readIndex", read |-> r] /\ x.read = r
        /\ y = [kind |-> "resp", read |-> r, index |-> gcommit, term |-> gterm] /\ y.read = r
    BY <2>a
  <2>3. x \in readNet /\ readNet' = (readNet \ {x}) \cup {y} /\ UNCHANGED <<readOnly, readStates>>
    BY <2>1, <2>2 DEF AnswerForwarded
  <2>4. \A m \in readNet' : \E k \in readNet : k.read = m.read
    BY <2>2, <2>3
  <2>5. QED
    BY <1>1, <2>3, <2>4 DEF given
<1>5. CASE RecvReadIndexResp
  <2>1. PICK m \in readNet :
           /\ m.kind = "resp"
           /\ readStates' = Append(readStates, [read |-> m.read, index |-> m.index])
           /\ readNet' = readNet \ {m}
    BY <1>5 DEF RecvReadIndexResp
  <2>2. UNCHANGED readOnly
    BY <1>5 DEF RecvReadIndexResp
  <2>3. m.read \in Reads /\ m.index \in Nat
    BY <2>1 DEF QueueInv, ReadTypeOK, ReadMsg
  <2>a. PICK x \in ReadState : x = [read |-> m.read, index |-> m.index]
    BY <2>3 DEF ReadState
  <2>4. x = [read |-> m.read, index |-> m.index] /\ x.read = m.read
    BY <2>a
  <2>5. readStates \in Seq(ReadState) /\ readStates' = Append(readStates, x)
    BY <1>0, <2>1, <2>4
  <2>6. /\ DOMAIN readStates' = 1 .. Len(readStates) + 1
        /\ \A j \in 1 .. Len(readStates) : readStates'[j] = readStates[j]
        /\ readStates'[Len(readStates) + 1] = x
    BY <2>5, Appended
  <2>7. \A j \in DOMAIN readStates' : readStates'[j].read \in readsOf(readStates) \cup {m.read}
    BY <1>0, <2>4, <2>6 DEF readsOf
  <2>8. readsOf(readStates') \in SUBSET (readsOf(readStates) \cup {m.read})
    BY <2>7 DEF readsOf
  <2>9. QED
    BY <1>1, <2>1, <2>2, <2>8 DEF given
<1>6. QED
  BY <1>2, <1>3, <1>4, <1>5 DEF RaftRead

LEMMA NextKeepsGiven ==
    ASSUME TypeInv, TypeInv', QueueInv, GivenInv, [ReadNext]_<<vars, readVars>>
    PROVE  GivenInv'
<1>0. /\ given \in SUBSET Reads /\ \A r \in given : heard(r)
      /\ \A r \in Reads : taken(r) => readReplies[r] = <<>>
      /\ readReqs \in Seq(Reads) /\ readBatch \in Seq(Reads)
      /\ Distinct(readReqs) /\ Distinct(readBatch)
      /\ ToSet(readReqs) \cap ToSet(readBatch) = {}
      /\ (ToSet(readReqs) \cup ToSet(readBatch)) \cap readsOf(pendingReads) = {}
  BY GivenReads, HomesParts DEF GivenInv, heard, QueueInv, HomesInv
<1>1. SUFFICES \A r \in given' : heard(r)'
  BY DEF GivenInv, heard
<1>2. CASE \E r \in Reads : SubmitRead(r)
  <2>1. PICK r \in Reads : SubmitRead(r)
    BY <1>2
  <2>2. /\ UNCHANGED <<readBatch, pendingReads, readOnly, readStates, readNet, dropped>>
        /\ readReplies[r] = <<>> /\ r \notin readsOf(pendingReads)
        /\ \/ readReqs' = Append(readReqs, r) /\ UNCHANGED readReplies
           \/ readReplies' = respRead(r, "storeNotMatch") /\ UNCHANGED readReqs
    BY <2>1 DEF SubmitRead, raftReadVars
  <2>3. given' = given /\ ~heard(r)
    BY <2>2 DEF given, heard
  <2>4. ASSUME NEW s \in Reads, s # r, heard(s) PROVE heard(s)'
    <3>1. ToSet(readReqs') \in SUBSET (ToSet(readReqs) \cup {r})
      <4>1. CASE readReqs' = Append(readReqs, r)
        <5>1. PICK p : p = readReqs'
          OBVIOUS
        <5>2. \A i \in DOMAIN p : p[i] = r \/ \E j \in DOMAIN readReqs : p[i] = readReqs[j]
          <6>1. /\ DOMAIN p = 1 .. Len(readReqs) + 1 /\ DOMAIN readReqs = 1 .. Len(readReqs)
                /\ \A i \in 1 .. Len(readReqs) : p[i] = readReqs[i]
                /\ p[Len(readReqs) + 1] = r /\ Len(readReqs) \in Nat
            BY <1>0, <4>1, <5>1, Appended
          <6>2. QED
            BY <6>1
        <5>3. QED
          BY <5>1, <5>2 DEF ToSet
      <4>2. QED
        BY <2>2, <4>1
    <3>2. readReplies'[s] = readReplies[s]
      <4>1. readReplies \in [Reads -> Seq(ReadAnswers)]
        BY HomesParts
      <4>2. QED
        BY <2>2, <2>4, <4>1 DEF respRead
    <3>3. QED
      BY <2>2, <2>4, <3>1, <3>2 DEF heard
  <2>5. QED
    BY <1>0, <2>3, <2>4
<1>3. CASE StopWithReads
  <2>1. /\ UNCHANGED <<pendingReads, readOnly, readStates, readNet, dropped>>
        /\ readReplies' = respReads(ToSet(readReqs) \cup ToSet(readBatch), "storeNotMatch")
        /\ readReqs' = <<>> /\ readBatch' = <<>>
    BY <1>3 DEF StopWithReads, raftReadVars
  <2>2. given' = given
    BY <2>1 DEF given
  <2>3. ToSet(readReqs') = {} /\ ToSet(readBatch') = {} /\ "storeNotMatch" \in ReadAnswers
    BY <2>1 DEF ToSet, ReadAnswers
  <2>4. PICK A \in SUBSET Reads : A = ToSet(readReqs) \cup ToSet(readBatch)
    BY HomesParts
  <2>5. \A r \in Reads : (readReplies[r] # <<>> \/ r \in A) => readReplies'[r] # <<>>
    BY <2>1, <2>3, <2>4, AnswerAdded
  <2>6. QED
    BY <1>0, <2>1, <2>2, <2>3, <2>5 DEF heard
<1>4. CASE RequestWithReads
  <2>1. /\ UNCHANGED <<pendingReads, readReplies, readOnly, readStates, readNet, dropped>>
        /\ readBatch' = readBatch \o readReqs /\ readReqs' = <<>>
    BY <1>4 DEF RequestWithReads, raftReadVars, answerVars
  <2>2. given' = given
    BY <2>1 DEF given
  <2>3. ToSet(readReqs') = {}
    BY <2>1 DEF ToSet
  <2>4. ToSet(readBatch \o readReqs) = ToSet(readBatch) \cup ToSet(readReqs)
    <3>1. ToSet(readBatch) \cap ToSet(readReqs) = {}
      BY <1>0
    <3>2. QED
      BY <1>0, <3>1, DistinctConcat, ZenonT(60)
  <2>5. ToSet(readBatch') = ToSet(readBatch) \cup ToSet(readReqs)
    BY <2>1, <2>4, Zenon
  <2>6. QED
    BY <1>0, <2>1, <2>2, <2>3, <2>5 DEF heard
<1>5. CASE ReadRefused \/ ReadForwarded
  <2>1. /\ UNCHANGED <<readReqs, pendingReads, readOnly, readStates, dropped>>
        /\ readBatch # <<>> /\ readBatch' = Tail(readBatch)
    BY <1>5 DEF ReadRefused, ReadForwarded, raftReadVars
  <2>2. PICK x \in ReadAnswers : readReplies' = respRead(Head(readBatch), x)
    BY <1>5 DEF ReadRefused, ReadForwarded, ReadAnswers
  <2>3. /\ Head(readBatch) \in Reads /\ ToSet(readBatch') = ToSet(readBatch) \ {Head(readBatch)}
        /\ Head(readBatch) \in ToSet(readBatch)
    BY <1>0, <2>1, DistinctTail
  <2>4. PICK r \in Reads : r = Head(readBatch)
    BY <2>3
  <2>5. readReplies' = respReads({r}, x) /\ {r} \in SUBSET Reads
    BY <2>2, <2>4, RespReadAnswers
  <2>6. \A s \in Reads : (readReplies[s] # <<>> \/ s \in {r}) => readReplies'[s] # <<>>
    BY <2>5, AnswerAdded
  <2>7. heard(r)' /\ \A s \in Reads : heard(s) => heard(s)'
    BY <1>0, <2>1, <2>3, <2>4, <2>6 DEF heard
  <2>8. given' \in SUBSET (given \cup {r})
    <3>a. PICK y : y = [kind |-> "readIndex", read |-> r]
      OBVIOUS
    <3>1. y = [kind |-> "readIndex", read |-> r] /\ y.read = r
      BY <3>a
    <3>2. readNet' \in {readNet, readNet \cup {y}}
      BY <1>5, <2>4, <3>1 DEF ReadRefused, ReadForwarded, raftReadVars
    <3>3. QED
      BY <2>1, <3>1, <3>2 DEF given
  <2>9. QED
    BY <1>0, <2>7, <2>8
<1>6. CASE ReadAccepted
  <2>1. /\ UNCHANGED <<readReqs, readReplies, readStates, readNet, dropped>>
        /\ readOnly' = Append(readOnly, [read |-> Head(readBatch), index |-> rcommit])
    BY <1>6 DEF ReadAccepted, answerVars
  <2>2. /\ Head(readBatch) \in ToSet(readBatch) /\ Head(readBatch) \in Reads
        /\ readsOf(pendingReads') = readsOf(pendingReads) \cup {Head(readBatch)}
        /\ ToSet(readBatch') = ToSet(readBatch) \ {Head(readBatch)}
    BY <1>6, AcceptedKeepsQueueInv
  <2>3. PICK r \in Reads : r = Head(readBatch)
    BY <2>2
  <2>4. heard(r)' /\ \A s \in Reads : heard(s) => heard(s)'
    BY <1>0, <2>1, <2>2, <2>3 DEF heard
  <2>5. readsOf(readOnly') \in SUBSET (readsOf(readOnly) \cup {r})
    <3>1. rcommit \in Nat
      BY DEF TypeInv, RaftInv, RaftTypeOK
    <3>a. PICK x \in ReadState : x = [read |-> r, index |-> rcommit]
      BY <3>1 DEF ReadState
    <3>2. x = [read |-> r, index |-> rcommit] /\ x.read = r
      BY <3>a
    <3>3. readOnly \in Seq(ReadState) /\ readOnly' = Append(readOnly, x)
      BY <2>1, <2>3, <3>2, QueueInvParts
    <3>4. /\ DOMAIN readOnly' = 1 .. Len(readOnly) + 1 /\ DOMAIN readOnly = 1 .. Len(readOnly)
          /\ \A j \in 1 .. Len(readOnly) : readOnly'[j] = readOnly[j]
          /\ readOnly'[Len(readOnly) + 1] = x /\ Len(readOnly) \in Nat
      BY <3>3, Appended
    <3>5. \A j \in DOMAIN readOnly' : readOnly'[j].read \in readsOf(readOnly) \cup {r}
      BY <3>2, <3>4 DEF readsOf
    <3>6. QED
      BY <3>5 DEF readsOf
  <2>6. given' \in SUBSET (given \cup {r})
    BY <2>1, <2>5 DEF given
  <2>7. QED
    BY <1>0, <2>4, <2>6
<1>7. CASE Serving
  <2>1. /\ UNCHANGED <<readReqs, readBatch, readOnly, readNet>>
        /\ readStates' \in {readStates, <<>>}
        /\ dropped' \in {dropped, dropped \cup readsOf(readStates)}
    BY <1>7, ServingMeans
  <2>2. PICK S, T, a, d : Served(S, T, a, d)
    BY <1>7, ServingMeans
  <2>3. \A r \in Reads : heard(r) => heard(r)'
    BY <2>1, <2>2, ServedStayHeard
  <2>4. readsOf(<<>>) = {}
    BY DEF readsOf
  <2>5. given' \in SUBSET given
    BY <2>1, <2>4 DEF given
  <2>6. QED
    BY <1>0, <2>3, <2>5
<1>8. CASE RaftRead \/ StepWithReads \/ ApplyWithReads \/ GroupWithReads \/ Quiet
  <2>1. UNCHANGED <<readReqs, readBatch, pendingReads, readReplies>>
    BY <1>8, QuietMeans DEF RaftRead, SendReadAck, RecvReadAck, AnswerForwarded,
       RecvReadIndexResp, StepWithReads, ApplyWithReads, GroupWithReads, loopReadVars, answerVars
  <2>2. \A r \in Reads : heard(r) => heard(r)'
    BY <2>1 DEF heard
  <2>3. given' \in SUBSET given
    <3>1. CASE RaftRead
      BY <3>1, RaftReadGives
    <3>2. CASE StepWithReads \/ ApplyWithReads \/ GroupWithReads \/ Quiet
      <4>1. UNCHANGED <<readStates, readNet, dropped>> /\ readOnly' \in {readOnly, <<>>}
        BY <3>2, QuietMeans DEF StepWithReads, ApplyWithReads, GroupWithReads, resetReadOnly,
           raftReadVars, answerVars
      <4>2. readsOf(<<>>) = {}
        BY DEF readsOf
      <4>3. QED
        BY <4>1, <4>2 DEF given
    <3>3. QED
      BY <1>8, <3>1, <3>2
  <2>4. QED
    BY <1>0, <2>2, <2>3
<1>9. QED
  BY <1>2, <1>3, <1>4, <1>5, <1>6, <1>7, <1>8, ReadCases DEF Serving

----------------------------------------------------------------------------
(* A leadership starts with empty queues.                                  *)

LEMMA RoundFrame ==
    ASSUME RoundInv, UNCHANGED <<role, readOnly, prevSoft, pendingReads, readStates, asked>>,
           cachedLead' = cachedLead, pc' = pc \/ pc' # "idle"
    PROVE  RoundInv'
BY DEF RoundInv

\* No read is left in a queue without reads.
LEMMA NoReads ==
    ASSUME NEW q \in Seq(ReadState), readsOf(q) = {}
    PROVE  q = <<>>
<1>1. DOMAIN q = 1 .. Len(q) /\ Len(q) \in Nat
  BY LenProperties
<1>2. \A i \in 1 .. Len(q) : FALSE
  BY <1>1 DEF readsOf
<1>3. Len(q) = 0
  BY <1>1, <1>2
<1>4. QED
  BY <1>3, EmptySeq

\* A queue without reads stays empty while reads are served.
LEMMA ServedNone ==
    ASSUME NEW S, NEW T, NEW a, NEW d, Served(S, T, a, d), pendingReads = <<>>
    PROVE  pendingReads' = <<>>
<1>1. /\ QueueOK(pendingReads', readyToRead')
      /\ readsOf(pendingReads') = readsOf(pendingReads) \ (S \cup T)
  BY Zenon DEF Served
<1>2. readsOf(pendingReads) = {}
  BY DEF readsOf
<1>3. readsOf(pendingReads') = {} /\ pendingReads' \in Seq(ReadState)
  BY <1>1, <1>2 DEF QueueOK
<1>4. QED
  BY <1>3, NoReads

LEMMA NextKeepsRound ==
    ASSUME TypeInv, TypeInv', TermInv, QueueInv, SnapshotInv, RoundInv,
           [ReadNext]_<<vars, readVars>>
    PROVE  RoundInv'
<1>0. /\ asked \in BOOLEAN /\ asked' \in BOOLEAN
      /\ role \in {"follower", "candidate", "leader"}
  BY DEF TypeInv, RaftInv, RaftTypeOK
<1>1. CASE StepWithReads
  <2>1. /\ HandleStep /\ resetReadOnly /\ pc = "step"
        /\ UNCHANGED <<pendingReads, prevSoft, readStates, pc, cachedLead>>
    BY <1>1 DEF StepWithReads, HandleStep, loopReadVars, loopVars
  <2>2. role' # "leader" => readOnly' = <<>>
    BY <2>1 DEF resetReadOnly
  <2>3. (role' = "leader" /\ prevSoft[1] # "leader") => cachedLead # "self"
    <3>1. CASE Win
      BY <2>1, <3>1 DEF Win, TermInv
    <3>2. CASE ~Win
      <4>1. role' = "leader" => role = "leader"
        BY <2>1, <3>2 DEF HandleStep, Campaign, StepDown, FollowLeader, LearnCommit, RecvProp,
           RecvSnapshot
      <4>2. QED
        BY <4>1 DEF RoundInv
    <3>3. QED
      BY <3>1, <3>2
  <2>4. role' = "candidate" => ~asked'
    BY <2>1 DEF HandleStep, Campaign, Win, StepDown, FollowLeader, LearnCommit, RecvProp,
           RecvSnapshot
  <2>5. QED
    BY <2>1, <2>2, <2>3, <2>4 DEF RoundInv
<1>2. CASE ReadAccepted
  <2>1. /\ pc = "propose" /\ cachedLead = "self" /\ role = "leader"
        /\ UNCHANGED <<role, prevSoft, readStates, asked, pc, cachedLead>>
    BY <1>2 DEF ReadAccepted, vars, raftVars, nodeVars, loopVars
  <2>2. prevSoft[1] = "leader"
    BY <2>1 DEF RoundInv
  <2>3. QED
    BY <2>1, <2>2 DEF RoundInv
<1>3. CASE ReadyWithReads \/ SnapshotReadyWithReads
  <2>1. ReadyMeans
    BY <1>3, ReadyStep, SnapshotReadyStep
  <2>2. PICK S, T, a, d : Served(S, T, a, d)
    BY <1>3, ReadyStep, SnapshotReadyStep
  <2>3. /\ UNCHANGED <<role, readOnly>> /\ readStates' = <<>> /\ prevSoft' = <<role, rlead>>
        /\ leaderLost => pendingReads' = <<>>
    BY <2>1, Zenon DEF ReadyMeans
  <2>4. prevSoft'[1] = role
    BY <2>3
  <2>5. role # "leader" => pendingReads' = <<>>
    <3>1. SUFFICES ASSUME role # "leader", ~leaderLost PROVE pendingReads' = <<>>
      BY <2>3
    <3>2. prevSoft = <<role, rlead>>
      BY <3>1 DEF leaderLost
    <3>3. pendingReads = <<>>
      BY <3>1, <3>2 DEF RoundInv
    <3>4. QED
      BY <2>2, <3>3, ServedNone
  <2>6. QED
    BY <2>3, <2>4, <2>5 DEF RoundInv
<1>4. CASE ApplyResultWithReads
  <2>1. PICK S : Served(S, {}, psApplied', data)
    BY <1>4, ApplyResultStep
  <2>2. /\ UNCHANGED <<role, asked, readOnly, prevSoft, readStates, cachedLead>>
        /\ pc' = "request"
    BY <1>4 DEF ApplyResultWithReads, HandleApplyResult, raftVars, nodeVars, raftReadVars
  <2>3. pendingReads = <<>> => pendingReads' = <<>>
    BY <2>1, ServedNone
  <2>4. QED
    BY <2>2, <2>3 DEF RoundInv
<1>5. CASE RaftRead
  <2>1. UNCHANGED <<role, prevSoft, pendingReads, asked, cachedLead, pc>>
    BY <1>5 DEF RaftRead, SendReadAck, RecvReadAck, AnswerForwarded, RecvReadIndexResp, vars,
       raftVars, nodeVars, loopVars, loopReadVars
  <2>2. \/ UNCHANGED <<readOnly, readStates>>
        \/ role = "leader"
        \/ role = "follower" /\ UNCHANGED readOnly
    BY <1>5 DEF RaftRead, SendReadAck, RecvReadAck, AnswerForwarded, RecvReadIndexResp
  <2>3. QED
    BY <2>1, <2>2 DEF RoundInv
<1>6. CASE Quiet
  <2>1. UNCHANGED <<role, readOnly, prevSoft, pendingReads, readStates, asked>>
    BY <1>6, QuietMeans
  <2>2. CASE LoopStart
    <3>1. pc = "idle" /\ pc' = "step"
      BY <2>2 DEF LoopStart
    <3>2. QED
      BY <2>1, <3>1 DEF RoundInv
  <2>3. CASE SkipReady
    <3>1. role = "follower"
      <4>1. isApplyingSnapshot \/ snapPend # 0
        BY <2>3 DEF SkipReady
      <4>2. isApplyingSnapshot => Queued(jobs, "snapshot")
        <5>1. DOMAIN jobs = 1 .. Len(jobs)
          BY LenProperties DEF TypeInv, TypeOK
        <5>2. QED
          BY <5>1 DEF isApplyingSnapshot, Queued
      <4>3. QED
        BY <4>1, <4>2 DEF SnapshotInv
    <3>2. QED
      BY <2>1, <3>1 DEF RoundInv
  <2>4. CASE ~LoopStart /\ ~SkipReady
    <3>1. UNCHANGED <<pc, cachedLead>>
      BY <1>6, <2>4 DEF Quiet, ProposeRefused, ProposeForwarded, ProposeAppended,
         DoRegistrationJob, DoPropose, DoApplyingSnapshotJob, DoDestroy, RetryMustDestroy,
         RemovePR, HandleGCPeerMsg, Submit, vars, loopVars
    <3>2. QED
      BY <2>1, <3>1, RoundFrame
  <2>5. QED
    BY <2>2, <2>3, <2>4
<1>7. CASE \/ \E r \in Reads : SubmitRead(r)
           \/ StopWithReads \/ RequestWithReads \/ ReadRefused \/ ReadForwarded
           \/ ApplyWithReads \/ GroupWithReads
  <2>1. UNCHANGED <<readOnly, prevSoft, pendingReads, readStates>>
    BY <1>7 DEF SubmitRead, StopWithReads, RequestWithReads, ReadRefused, ReadForwarded,
       ApplyWithReads, GroupWithReads, loopReadVars, raftReadVars
  <2>2. UNCHANGED <<role, asked, cachedLead>> /\ (pc' = pc \/ pc' # "idle")
    <3>1. CASE \/ \E r \in Reads : SubmitRead(r)
               \/ ReadRefused \/ ReadForwarded
      BY <3>1 DEF SubmitRead, ReadRefused, ReadForwarded, vars, raftVars, nodeVars, loopVars
    <3>2. CASE StopWithReads \/ RequestWithReads \/ ApplyWithReads
      BY <3>2 DEF StopWithReads, RequestWithReads, ApplyWithReads, LoopStop, HandleRequest,
         DoApplyCommittedEntries, raftVars, nodeVars, loopVars
    <3>3. CASE GroupWithReads
      BY <3>3 DEF GroupWithReads, Group, GroupNext, OtherElected, OtherAppend,
         OtherAppendForwarded, GroupCommit, SnapshotFileArrives, nodeVars, loopVars
    <3>4. QED
      BY <1>7, <3>1, <3>2, <3>3
  <2>3. QED
    BY <2>1, <2>2, RoundFrame
<1>8. QED
  BY <1>1, <1>2, <1>3, <1>4, <1>5, <1>6, <1>7, ReadCases

----------------------------------------------------------------------------
(* The queues of a leader agree.                                           *)

LEMMA AgreeEmpty ==
    ASSUME NEW D
    PROVE  Agree(<<>>, 0, D, <<>>)
<1>1. expectedAt(<<>>, 0, D) = {} /\ Len(<<>>) = 0 /\ 1 .. 0 = {}
  BY DEF expectedAt
<1>2. PICK f \in [1 .. 0 -> {}] : TRUE
  <2>1. [i \in 1 .. 0 |-> i] \in [1 .. 0 -> {}]
    OBVIOUS
  <2>2. QED
    BY <2>1
<1>3. Lists(f, 0, {})
  BY <1>1 DEF Lists
<1>4. QED
  BY <1>1, <1>2, <1>3 DEF Agree

LEMMA NextKeepsAgree ==
    ASSUME TypeInv, TypeInv', QueueInv, GivenInv, RoundInv, AgreeInv,
           [ReadNext]_<<vars, readVars>>
    PROVE  AgreeInv'
<1>0. /\ readOnly \in Seq(ReadState) /\ readStates \in Seq(ReadState)
      /\ pendingReads \in Seq(ReadState) /\ QueueOK(pendingReads, readyToRead)
      /\ readyToRead \in 0 .. Len(pendingReads) /\ dropped \in SUBSET Reads
  BY QueueInvParts DEF ReadTypeOK
<1>1. CASE StepWithReads
  <2>1. /\ HandleStep /\ resetReadOnly
        /\ UNCHANGED <<pendingReads, readyToRead, readStates, dropped, readFatal>>
    BY <1>1 DEF StepWithReads, loopReadVars, answerVars
  <2>2. CASE Win
    <3>1. pendingReads = <<>> /\ readStates = <<>> /\ readOnly' = <<>>
      BY <2>1, <2>2 DEF Win, RoundInv, resetReadOnly
    <3>2. readyToRead = 0 /\ <<>> \o <<>> = <<>>
      BY <1>0, <3>1
    <3>3. Agree(<<>>, 0, dropped, <<>>)
      BY AgreeEmpty
    <3>4. QED
      BY <2>1, <3>1, <3>2, <3>3 DEF AgreeInv
  <2>3. CASE ~Win
    <3>1. role' = "leader" => role = "leader"
      BY <2>1, <2>3 DEF HandleStep, Campaign, StepDown, FollowLeader, LearnCommit, RecvProp,
         RecvSnapshot
    <3>2. role' = "leader" => readOnly' = readOnly
      BY <2>1, <3>1 DEF resetReadOnly
    <3>3. QED
      BY <2>1, <3>1, <3>2 DEF AgreeInv, running
  <2>4. QED
    BY <2>2, <2>3
<1>2. CASE ReadAccepted
  <2>1. /\ readOnly' = Append(readOnly, [read |-> Head(readBatch), index |-> rcommit])
        /\ pendingReads' = Append(pendingReads, [read |-> Head(readBatch), index |-> 0])
        /\ UNCHANGED <<role, readyToRead, readStates, dropped, readFatal>>
    BY <1>2 DEF ReadAccepted, answerVars, vars, raftVars, nodeVars
  <2>2. Head(readBatch) \in ToSet(readBatch) /\ Head(readBatch) \in Reads
    BY <1>2, AcceptedKeepsQueueInv
  <2>3. Head(readBatch) \notin dropped
    <3>1. dropped \in SUBSET given
      BY DEF given
    <3>2. QED
      BY <2>2, <3>1 DEF GivenInv
  <2>4. rcommit \in Nat
    BY DEF TypeInv, RaftInv, RaftTypeOK
  <2>5. SUFFICES ASSUME role = "leader", running
                 PROVE  Agree(pendingReads', readyToRead, dropped, readStates \o readOnly')
    BY <2>1 DEF AgreeInv, running
  <2>6. Agree(pendingReads, readyToRead, dropped, readStates \o readOnly)
    BY <2>5 DEF AgreeInv
  <2>7. PICK x \in ReadState, y \in ReadState : /\ x = [read |-> Head(readBatch), index |-> 0]
                                                /\ y = [read |-> Head(readBatch), index |-> rcommit]
    BY <2>2, <2>4 DEF ReadState
  <2>8. x.read = y.read /\ x.read \notin dropped
    BY <2>3, <2>7
  <2>9. Agree(Append(pendingReads, x), readyToRead, dropped, readStates \o Append(readOnly, y))
    BY <1>0, <2>6, <2>8, AgreeAppended
  <2>10. QED
    BY <2>1, <2>7, <2>9
<1>3. CASE ReadyWithReads \/ SnapshotReadyWithReads
  <2>1. ReadyMeans
    BY <1>3, ReadyStep, SnapshotReadyStep
  <2>2. /\ UNCHANGED <<role, readOnly>> /\ readStates' = <<>>
        /\ readFatal' \in {readFatal, "out of range", "uuid not match"}
        /\ (/\ readFatal' = "no" /\ ~leaderLost
            /\ Agree(pendingReads, readyToRead, dropped, readStates \o readOnly))
           => Agree(pendingReads', readyToRead', dropped', readOnly)
    BY <2>1, Zenon DEF ReadyMeans
  <2>3. readStates' \o readOnly' = readOnly
    <3>1. <<>> \o readOnly = readOnly
      BY <1>0, ConcatEmptySeq
    <3>2. QED
      BY <2>2, <3>1
  <2>4. SUFFICES ASSUME role = "leader", readFatal' = "no"
                 PROVE  Agree(pendingReads', readyToRead', dropped', readOnly)
    BY <2>2, <2>3 DEF AgreeInv, running
  <2>5. ~leaderLost /\ readFatal = "no"
    BY <2>2, <2>4 DEF leaderLost
  <2>6. Agree(pendingReads, readyToRead, dropped, readStates \o readOnly)
    BY <2>4, <2>5 DEF AgreeInv, running
  <2>7. QED
    BY <2>2, <2>4, <2>5, <2>6
<1>4. CASE ApplyResultWithReads
  BY <1>4, ApplyResultStep
<1>5. CASE RaftRead
  <2>1. UNCHANGED <<role, pendingReads, readyToRead, dropped, readFatal>>
    BY <1>5 DEF RaftRead, SendReadAck, RecvReadAck, AnswerForwarded, RecvReadIndexResp, vars,
       raftVars, nodeVars, loopReadVars, answerVars
  <2>2. CASE RecvReadIndexResp
    BY <2>1, <2>2 DEF RecvReadIndexResp, AgreeInv
  <2>3. CASE \E r \in Reads : RecvReadAck(r)
    <3>1. PICK r \in Reads : RecvReadAck(r)
      BY <2>3
    <3>2. PICK i \in 1 .. Len(readOnly) :
              Moves(ReadState, readStates, readOnly, readStates', readOnly', i)
      <4>1. readStates \in Seq(ReadState) /\ readOnly \in Seq(ReadState)
        BY <1>0
      <4>2. QED
        BY <3>1, <4>1, AckMoves, Zenon
    <3>3. readStates' \o readOnly' = readStates \o readOnly
      BY <3>2, Zenon DEF Moves
    <3>4. QED
      BY <2>1, <3>3 DEF AgreeInv, running
  <2>4. CASE \E r \in Reads : SendReadAck(r) \/ AnswerForwarded(r)
    <3>1. UNCHANGED <<readOnly, readStates>>
      BY <2>4 DEF SendReadAck, AnswerForwarded
    <3>2. QED
      BY <2>1, <3>1 DEF AgreeInv, running
  <2>5. QED
    BY <1>5, <2>2, <2>3, <2>4 DEF RaftRead
<1>6. CASE \/ \E r \in Reads : SubmitRead(r)
           \/ StopWithReads \/ RequestWithReads \/ ReadRefused \/ ReadForwarded
           \/ ApplyWithReads \/ GroupWithReads \/ Quiet
  <2>1. UNCHANGED <<readOnly, pendingReads, readyToRead, readStates, dropped, readFatal>>
    BY <1>6, QuietMeans DEF SubmitRead, StopWithReads, RequestWithReads, ReadRefused,
       ReadForwarded, ApplyWithReads, GroupWithReads, loopReadVars, raftReadVars, answerVars
  <2>2. UNCHANGED role
    <3>1. CASE \/ \E r \in Reads : SubmitRead(r)
               \/ ReadRefused \/ ReadForwarded \/ Quiet
      BY <3>1, QuietMeans DEF SubmitRead, ReadRefused, ReadForwarded, vars, raftVars, nodeVars
    <3>2. CASE StopWithReads \/ RequestWithReads \/ ApplyWithReads
      BY <3>2 DEF StopWithReads, RequestWithReads, ApplyWithReads, LoopStop, HandleRequest,
         DoApplyCommittedEntries, raftVars, nodeVars
    <3>3. CASE GroupWithReads
      BY <3>3 DEF GroupWithReads, Group, GroupNext, OtherElected, OtherAppend,
         OtherAppendForwarded, GroupCommit, SnapshotFileArrives, nodeVars
    <3>4. QED
      BY <1>6, <3>1, <3>2, <3>3
  <2>3. QED
    BY <2>1, <2>2 DEF AgreeInv, running
<1>7. QED
  BY <1>1, <1>2, <1>3, <1>4, <1>5, <1>6, ReadCases

\* Everything the order of the queues rests on, as one inductive invariant.
OrderInv ==
    TypeInv /\ TermInv /\ QueueInv /\ GivenInv /\ SnapshotInv /\ RoundInv /\ AgreeInv

LEMMA InitOrderInv == ReadInit => OrderInv
<1>1. SUFFICES ASSUME ReadInit PROVE OrderInv
  OBVIOUS
<1>2. TypeInv /\ QueueInv
  BY <1>1, InitQueueInv
<1>3. /\ Init /\ pendingReads = <<>> /\ readyToRead = 0 /\ prevSoft = <<"follower", "none">>
      /\ readOnly = <<>> /\ readStates = <<>> /\ readNet = {} /\ dropped = {}
  BY <1>1 DEF ReadInit
<1>4. /\ role = "follower" /\ rlead = "none" /\ pc = "idle" /\ snapPend = 0
      /\ jobs = <<registrationJob(0, 0)>>
  BY <1>3 DEF Init, RaftInit
<1>5. TermInv
  BY <1>4 DEF TermInv
<1>6. readsOf(<<>>) = {}
  BY DEF readsOf
<1>7. GivenInv
  BY <1>3, <1>6 DEF GivenInv, given
<1>8. SnapshotInv
  <2>1. Len(jobs) = 1 /\ jobs[1].kind = "register"
    BY <1>4 DEF registrationJob
  <2>2. \A i \in 1 .. Len(jobs) : jobs[i].kind # "snapshot"
    BY <2>1
  <2>3. QED
    BY <1>4, <2>2 DEF SnapshotInv, Queued, OneSnapshot
<1>9. RoundInv
  BY <1>3, <1>4 DEF RoundInv
<1>10. AgreeInv
  BY <1>4 DEF AgreeInv
<1>11. QED
  BY <1>2, <1>5, <1>7, <1>8, <1>9, <1>10 DEF OrderInv

LEMMA NextKeepsOrderInv ==
    ASSUME OrderInv, [ReadNext]_<<vars, readVars>>
    PROVE  OrderInv'
<1>1. TypeInv /\ TermInv /\ QueueInv /\ GivenInv /\ SnapshotInv /\ RoundInv /\ AgreeInv
  BY DEF OrderInv
<1>2. [Next]_vars
  BY ReadNextIsNext
<1>3. TypeInv' /\ QueueInv'
  BY <1>1, NextKeepsQueueInv
<1>4. TermInv'
  BY <1>1, <1>2, NextKeepsTerm
<1>5. GivenInv'
  BY <1>1, <1>3, NextKeepsGiven
<1>6. SnapshotInv'
  BY <1>1, <1>2, NextKeepsSnapshot
<1>7. RoundInv'
  BY <1>1, <1>3, NextKeepsRound
<1>8. AgreeInv'
  BY <1>1, <1>3, NextKeepsAgree
<1>9. QED
  BY <1>3, <1>4, <1>5, <1>6, <1>7, <1>8 DEF OrderInv

LEMMA OrderInvGivesAgree == OrderInv => QueuesAgree
<1>1. SUFFICES ASSUME OrderInv, role = "leader", running
               PROVE  SameReads(selectAt(pendingReads,
                                         expectedAt(pendingReads, readyToRead, dropped)),
                                readStates \o readOnly)
  BY DEF QueuesAgree, expectedAt, SameReads
<1>2. QueueOK(pendingReads, readyToRead)
  BY <1>1, QueueInvParts DEF OrderInv
<1>3. readStates \in Seq(ReadState) /\ readOnly \in Seq(ReadState)
  BY <1>1, QueueInvParts DEF OrderInv
<1>4. readStates \o readOnly \in Seq(ReadState)
  BY <1>3, ConcatProperties
<1>5. Agree(pendingReads, readyToRead, dropped, readStates \o readOnly)
  BY <1>1 DEF OrderInv, AgreeInv
<1>6. QED
  BY <1>2, <1>4, <1>5, AgreeMeans, Zenon

\* The reads raft will still report to a leader, in the order it will, are
\* those readIndexQueue waits for, but for the ReadStates that doApplyReads
\* threw away: an election starts them both empty, and from then on
\* execReadIndex puts each read in both, the acknowledgements move reads from
\* raft's queue to the ReadStates without reordering them, and executing reads
\* takes only confirmed ones from the queue.
THEOREM QueuesStayInOrder == ReadSpec => []QueuesAgree
<1>1. OrderInv /\ [ReadNext]_<<vars, readVars>> => OrderInv'
  BY NextKeepsOrderInv
<1>2. QED
  BY InitOrderInv, OrderInvGivesAgree, <1>1, PTL DEF ReadSpec


----------------------------------------------------------------------------
(* The data are as new as what the event worker takes for applied.         *)

\* What the plan of the queue says of the data.
LEMMA PlanFresh ==
    ASSUME PipelineInv, intact, ~Queued(jobs, "snapshot"),
           registered \/ Queued(jobs, "register")
    PROVE  \E b \in 0 .. gcommit : FreshAt(b)
<1>0. /\ TypeInv /\ LogInv /\ ReadyInv
      /\ gcommit \in Nat /\ rcommit \in Nat /\ psCommit \in Nat /\ lastReady \in Nat
      /\ psApplied \in Nat /\ dApplied \in Nat
      /\ jobs \in Seq(Job) /\ Len(jobs) \in Nat
      /\ results \in Seq([applied : Nat, epoch : Nat])
  <2>1. TypeInv /\ LogInv /\ ReadyInv
    BY ReplyInvParts DEF PipelineInv, LogsInv, PlanInv
  <2>2. QED
    BY <2>1, LenProperties DEF TypeInv, TypeOK, RaftTypeOK
<1>1. PICK h \in [0 .. Len(jobs) -> Nat] : Plan(h)
  BY DEF PipelineInv, PlanInv
<1>2. /\ 0 \in 0 .. Len(jobs) /\ Len(jobs) \in 0 .. Len(jobs) /\ 0 <= Len(jobs)
  BY <1>0
<1>3. h[0] \in Nat /\ h[0] <= h[Len(jobs)] /\ h[Len(jobs)] = lastReady
  <2>1. h[0] <= h[Len(jobs)]
    BY <1>1, <1>2 DEF Plan, Queue
  <2>2. QED
    BY <1>1, <1>2, <2>1 DEF Plan
<1>4. h[0] \in 0 .. gcommit
  BY <1>0, <1>3 DEF ReadyInv, LogInv
<1>5. dApplied <= h[0] /\ data = after(gshards, h[0]).data
  BY <1>1 DEF Plan, DelegateInv
<1>6. psApplied <= h[0]
  BY <1>1 DEF Plan, ResultsInv
<1>7. \A i \in 1 .. Len(results) : results[i].applied <= h[0]
  <2>1. SUFFICES ASSUME NEW i \in 1 .. Len(results) PROVE results[i].applied <= h[0]
    OBVIOUS
  <2>2. results[i].applied <= dApplied
    BY <1>1 DEF Plan, ResultsInv
  <2>3. results[i] \in [applied : Nat, epoch : Nat]
    BY <1>0, ElementOfSeq, Zenon
  <2>4. results[i].applied \in Nat
    BY <2>3
  <2>5. QED
    BY <1>0, <1>3, <1>5, <2>2, <2>4
<1>8. QED
  BY <1>4, <1>5, <1>6, <1>7 DEF FreshAt

PlannedIsFresh ==
    (/\ PipelineInv /\ intact /\ ~Queued(jobs, "snapshot")
     /\ registered \/ Queued(jobs, "register")) => \E b \in 0 .. gcommit : FreshAt(b)

LEMMA PlanFreshHere == PlannedIsFresh
  BY PlanFresh DEF PlannedIsFresh

\* The steps that change the data, what is taken for applied, or the results.
LEMMA DataMoves ==
    ASSUME [Next]_vars
    PROVE  /\ \/ data' = data
              \/ DoApplyingSnapshotJob
              \/ DoApplyCommittedEntries /\ registered /\ registered'
           /\ \/ UNCHANGED psApplied
              \/ SnapshotReady
              \/ HandleApplyResult /\ results # <<>> /\ psApplied' = results[Len(results)].applied
           /\ \/ results' \in {results, <<>>}
              \/ DoApplyCommittedEntries /\ registered /\ registered'
<1>1. CASE DoApplyCommittedEntries
  BY <1>1 DEF DoApplyCommittedEntries, psVars
<1>2. CASE HandleApplyResult
  BY <1>2 DEF HandleApplyResult, delegateVars
<1>3. CASE DoApplyingSnapshotJob
  BY <1>3 DEF DoApplyingSnapshotJob
<1>4. CASE SnapshotReady
  BY <1>4 DEF SnapshotReady, delegateVars
<1>5. CASE \/ \E c \in Cmds : Submit(c)
           \/ LoopStart \/ LoopStop \/ HandleRequest \/ ProposeRefused \/ ProposeForwarded
           \/ ProposeAppended \/ SkipReady \/ HandleReady \/ HandleStep
           \/ DoRegistrationJob \/ DoPropose \/ DoDestroy \/ RetryMustDestroy \/ RemovePR
           \/ HandleGCPeerMsg \/ Group \/ UNCHANGED vars
  BY <1>5 DEF Submit, LoopStart, LoopStop, HandleRequest, ProposeRefused, ProposeForwarded,
     ProposeAppended, SkipReady, HandleReady, HandleStep, DoRegistrationJob, DoPropose,
     DoDestroy, RetryMustDestroy, RemovePR, HandleGCPeerMsg, Group, vars, psVars, delegateVars
<1>6. QED
  BY <1>1, <1>2, <1>3, <1>4, <1>5 DEF Next, Loop, Worker

LEMMA NextKeepsFresh ==
    ASSUME PipelineInv, PipelineInv', FreshInv, [Next]_vars
    PROVE  FreshInv'
<1>0. /\ TypeInv /\ TypeInv' /\ LogInv /\ LogsInv /\ ReadyInv /\ Stays
      /\ gcommit \in Nat /\ gcommit' \in Nat /\ gcommit <= gcommit'
      /\ jobs \in Seq(Job) /\ results \in Seq([applied : Nat, epoch : Nat])
  <2>1. TypeInv /\ TypeInv' /\ LogInv /\ LogsInv /\ ReadyInv
    BY ReplyInvParts DEF PipelineInv, LogsInv, PlanInv, ReplyInv
  <2>2. Stays
    BY <2>1, NextKeepsLog
  <2>3. QED
    BY <2>1, <2>2 DEF TypeInv, TypeOK, RaftTypeOK, Stays
<1>1. SUFFICES ASSUME intact'
               PROVE  \E b \in 0 .. gcommit' : FreshAt(b)'
  BY DEF FreshInv
<1>2. OneSnapshot(jobs) /\ SnapshotInv
  BY DEF PipelineInv, SnapshotInv
<1>3. CASE ~Queued(jobs', "snapshot") /\ (registered' \/ Queued(jobs', "register"))
  <2>1. PlannedIsFresh'
    BY PlanFreshHere, PTL
  <2>2. QED
    BY <1>1, <1>3, <2>1 DEF PlannedIsFresh
<1>4. CASE DoApplyingSnapshotJob
  <2>1. jobs # <<>> /\ Head(jobs).kind = "snapshot" /\ jobs' = Tail(jobs)
    BY <1>4 DEF DoApplyingSnapshotJob, nextJob
  <2>2. PICK h \in [0 .. Len(jobs) -> Nat] : Plan(h)
    BY DEF PipelineInv, PlanInv
  <2>3. Queued(Tail(jobs), "register")
    BY <1>0, <2>1, <2>2, FirstJob
  <2>4. ~Queued(Tail(jobs), "snapshot")
    BY <1>0, <1>2, <2>1, SnapshotsTail
  <2>5. QED
    BY <1>3, <2>1, <2>3, <2>4
<1>5. CASE /\ ~DoApplyingSnapshotJob
           /\ Queued(jobs', "snapshot") \/ (~registered' /\ ~Queued(jobs', "register"))
  <2>0. \A k \in 0 .. gcommit : after(gshards', k) = after(gshards, k) /\ k \in 0 .. gcommit'
    BY <1>0 DEF after, Stays
  <2>1. PICK b \in 0 .. gcommit : FreshAt(b)
    <3>1. intact
      BY <1>1, <1>5, IntactStep
    <3>2. QED
      BY <3>1 DEF FreshInv
  <2>2. ~(DoApplyCommittedEntries /\ registered /\ registered')
    <3>1. SUFFICES ASSUME DoApplyCommittedEntries, registered, registered' PROVE FALSE
      OBVIOUS
    <3>2. PICK h \in [0 .. Len(jobs) -> Nat] : Plan(h)
      BY DEF PipelineInv, PlanInv
    <3>3. jobs # <<>> /\ Head(jobs).kind = "apply"
      BY <3>1 DEF DoApplyCommittedEntries, nextJob
    <3>4. ~Queued(jobs, "snapshot")
      BY <1>0, <3>2, <3>3, FirstJob
    <3>5. ~SnapshotReady
      BY <3>1 DEF SnapshotReady, DoApplyCommittedEntries, loopVars
    <3>6. QED
      BY <1>0, <1>2, <1>5, <3>1, <3>4, <3>5, SnapshotJobs
  <2>3. data' = data
    BY <1>5, <2>2, DataMoves
  <2>4. CASE Queued(jobs', "snapshot")
    <3>1. FreshAt(b)'
      BY <2>0, <2>1, <2>3, <2>4 DEF FreshAt
    <3>2. QED
      BY <2>0, <2>1, <3>1
  <2>5. CASE ~Queued(jobs', "snapshot")
    <3>1. ~Queued(jobs, "snapshot")
      BY <1>0, <1>2, <1>5, <2>5, SnapshotJobs
    <3>2. ~SnapshotReady
      <4>1. SUFFICES ASSUME SnapshotReady PROVE FALSE
        OBVIOUS
      <4>2. PICK a, c : /\ a = [kind |-> "snapshot", shard |-> shardAt(snapPend)]
                        /\ c = registrationJob(snapPend, shardAt(snapPend).epoch)
        OBVIOUS
      <4>3. jobs' = jobs \o <<a, c>> /\ a.kind = "snapshot"
        BY <4>1, <4>2 DEF SnapshotReady
      <4>4. Len(jobs) + 1 \in 1 .. Len(jobs') /\ jobs'[Len(jobs) + 1] = a
        BY <1>0, <4>3
      <4>5. QED
        BY <2>5, <4>3, <4>4 DEF Queued
    <3>3. /\ \/ UNCHANGED psApplied
             \/ results # <<>> /\ psApplied' = results[Len(results)].applied
          /\ results' \in {results, <<>>}
      BY <2>2, <3>2, DataMoves
    <3>4. psApplied <= b /\ \A i \in 1 .. Len(results) : results[i].applied <= b
      BY <2>1, <3>1 DEF FreshAt
    <3>5. psApplied' <= b
      <4>1. CASE results # <<>> /\ psApplied' = results[Len(results)].applied
        <5>1. Len(results) \in 1 .. Len(results)
          BY <1>0, <4>1
        <5>2. QED
          BY <3>4, <4>1, <5>1
      <4>2. QED
        BY <3>3, <3>4, <4>1
    <3>6. \A i \in 1 .. Len(results') : results'[i].applied <= b
      <4>1. 1 .. Len(<<>>) = {}
        OBVIOUS
      <4>2. QED
        BY <3>3, <3>4, <4>1
    <3>7. FreshAt(b)'
      BY <2>0, <2>1, <2>3, <3>5, <3>6 DEF FreshAt
    <3>8. QED
      BY <2>0, <2>1, <3>7
  <2>6. QED
    BY <2>4, <2>5
<1>6. QED
  BY <1>3, <1>4, <1>5

\* When all that was given out is taken for applied, no result is on its way.
LEMMA NoneToCome ==
    ASSUME PipelineInv, psCommit = psApplied
    PROVE  results = <<>>
<1>0. /\ TypeInv /\ ReadyInv
      /\ psCommit \in Nat /\ lastReady \in Nat /\ psApplied \in Nat /\ dApplied \in Nat
      /\ jobs \in Seq(Job) /\ Len(jobs) \in Nat
      /\ results \in Seq([applied : Nat, epoch : Nat])
  <2>1. TypeInv /\ ReadyInv
    BY ReplyInvParts DEF PipelineInv, LogsInv, PlanInv
  <2>2. QED
    BY <2>1, LenProperties DEF TypeInv, TypeOK
<1>1. SUFFICES ASSUME results # <<>> PROVE FALSE
  OBVIOUS
<1>2. PICK h \in [0 .. Len(jobs) -> Nat] : Plan(h)
  BY DEF PipelineInv, PlanInv
<1>3. 0 \in 0 .. Len(jobs) /\ Len(jobs) \in 0 .. Len(jobs) /\ 1 \in 1 .. Len(results)
  BY <1>0, <1>1
<1>4. h[0] \in Nat /\ h[0] <= lastReady /\ dApplied <= h[0]
  BY <1>0, <1>2, <1>3 DEF Plan, Queue, DelegateInv
<1>5. psApplied < results[1].applied /\ results[1].applied <= dApplied
  BY <1>2, <1>3 DEF Plan, ResultsInv
<1>6. results[1].applied \in Nat
  <2>1. results[1] \in [applied : Nat, epoch : Nat]
    BY <1>0, <1>3, ElementOfSeq, Zenon
  <2>2. QED
    BY <2>1
<1>7. lastReady <= psCommit
  BY <1>0 DEF ReadyInv
<1>8. QED
  BY <1>0, <1>4, <1>5, <1>6, <1>7

\* Steps that leave the tick alone.
LEMMA TickFrame ==
    ASSUME TickInv,
           UNCHANGED <<stopRaftTick, role, prevSoft, snapPend, psCommit, psApplied>>
    PROVE  TickInv'
BY DEF TickInv

LEMMA NextKeepsTick ==
    ASSUME PipelineInv, QueueInv, TypeInv', TickInv, [ReadNext]_<<vars, readVars>>
    PROVE  TickInv'
<1>0. TypeInv /\ SnapshotInv
  BY ReplyInvParts DEF PipelineInv, LogsInv
<1>1. CASE ReadyWithReads \/ SnapshotReadyWithReads
  <2>1. UNCHANGED role /\ prevSoft' = <<role, rlead>>
    <3>1. ReadyMeans
      BY <1>0, <1>1, ReadyStep, SnapshotReadyStep
    <3>2. QED
      BY <3>1, Zenon DEF ReadyMeans
  <2>2. stopRaftTick' => role = "follower"
    <3>1. CASE ReadyWithReads
      BY <3>1 DEF ReadyWithReads, HandleReady, TickInv
    <3>2. CASE SnapshotReadyWithReads
      BY <1>0, <3>2 DEF SnapshotReadyWithReads, SnapshotReady, SnapshotInv
    <3>3. QED
      BY <1>1, <3>1, <3>2
  <2>3. prevSoft'[1] = role
    BY <2>1
  <2>4. QED
    BY <2>1, <2>2, <2>3 DEF TickInv
<1>2. CASE ApplyResultWithReads
  <2>1. UNCHANGED <<stopRaftTick, snapPend, psCommit, role, prevSoft>>
    BY <1>2 DEF ApplyResultWithReads, HandleApplyResult, raftVars, nodeVars
  <2>2. psCommit = psApplied => psApplied' = psApplied
    <3>1. SUFFICES ASSUME psCommit = psApplied PROVE psApplied' = psApplied
      OBVIOUS
    <3>2. results = <<>>
      BY <3>1, NoneToCome
    <3>3. QED
      BY <1>2, <3>2 DEF ApplyResultWithReads, HandleApplyResult
  <2>3. QED
    BY <2>1, <2>2 DEF TickInv
<1>3. CASE Quiet
  <2>1. UNCHANGED <<role, prevSoft, snapPend>>
    BY <1>3, QuietMeans
  <2>2. UNCHANGED <<psCommit, psApplied>>
    BY <1>3 DEF Quiet, LoopStart, ProposeRefused, ProposeForwarded, ProposeAppended, SkipReady,
       DoRegistrationJob, DoPropose, DoApplyingSnapshotJob, DoDestroy, RetryMustDestroy,
       RemovePR, HandleGCPeerMsg, Submit, vars, psVars
  <2>3. CASE DoApplyingSnapshotJob
    <3>1. jobs # <<>> /\ Head(jobs).kind = "snapshot" /\ jobs \in Seq(Job)
      BY <1>0, <2>3 DEF DoApplyingSnapshotJob, nextJob, TypeInv, TypeOK
    <3>2. Queued(jobs, "snapshot")
      BY <3>1, QueuedTail
    <3>3. stopRaftTick
      BY <1>0, <3>2 DEF SnapshotInv
    <3>4. QED
      BY <2>1, <2>2, <3>3 DEF TickInv
  <2>4. CASE SkipReady
    <3>1. UNCHANGED stopRaftTick \/ (snapPend # 0 /\ psCommit = psApplied)
      BY <2>4 DEF SkipReady, isApplyComplete
    <3>2. snapPend # 0 => role = "follower"
      BY <1>0 DEF SnapshotInv
    <3>3. QED
      BY <2>1, <2>2, <3>1, <3>2 DEF TickInv
  <2>5. CASE ~DoApplyingSnapshotJob /\ ~SkipReady
    <3>1. UNCHANGED stopRaftTick
      BY <1>3, <2>5 DEF Quiet, LoopStart, ProposeRefused, ProposeForwarded, ProposeAppended,
         DoRegistrationJob, DoPropose, DoDestroy, RetryMustDestroy, RemovePR, HandleGCPeerMsg,
         Submit, vars, psVars
    <3>2. QED
      BY <2>1, <2>2, <3>1, TickFrame
  <2>6. QED
    BY <2>3, <2>4, <2>5
<1>4. CASE StepWithReads
  <2>1. UNCHANGED <<stopRaftTick, psCommit, psApplied, prevSoft>>
    BY <1>4 DEF StepWithReads, HandleStep, loopReadVars, psVars
  <2>2. SUFFICES ASSUME stopRaftTick, role = "follower"
                 PROVE  role' = "follower" /\ (snapPend # 0 => snapPend' # 0)
    BY <2>1 DEF TickInv
  <2>3. CASE RecvSnapshot
    <3>1. PICK k \in rcommit + 1 .. gcommit : snapPend' = k
      BY <2>3 DEF RecvSnapshot
    <3>2. rcommit \in Nat
      BY <1>0 DEF TypeInv, RaftInv, RaftTypeOK
    <3>3. snapPend' # 0
      BY <3>1, <3>2
    <3>4. QED
      BY <2>3, <3>3 DEF RecvSnapshot
  <2>4. CASE ~RecvSnapshot
    BY <1>4, <2>2, <2>4 DEF StepWithReads, HandleStep, Win, StepDown, FollowLeader,
       LearnCommit, RecvProp
  <2>5. QED
    BY <2>3, <2>4
<1>5. CASE GroupWithReads
  <2>1. UNCHANGED <<stopRaftTick, role, prevSoft, snapPend, psCommit, psApplied>>
    BY <1>5 DEF GroupWithReads, Group, GroupNext, OtherElected, OtherAppend,
       OtherAppendForwarded, GroupCommit, SnapshotFileArrives, nodeVars, psVars, loopReadVars
  <2>2. QED
    BY <2>1, TickFrame
<1>6. CASE \/ \E r \in Reads : SubmitRead(r)
           \/ StopWithReads \/ RequestWithReads \/ ReadRefused \/ ReadForwarded \/ ReadAccepted
           \/ RaftRead \/ ApplyWithReads
  <2>1. UNCHANGED <<raftVars, psVars, prevSoft>>
    BY <1>6 DEF SubmitRead, StopWithReads, LoopStop, RequestWithReads, HandleRequest,
       ReadRefused, ReadForwarded, ReadAccepted, RaftRead, SendReadAck, RecvReadAck,
       AnswerForwarded, RecvReadIndexResp, ApplyWithReads, DoApplyCommittedEntries, vars,
       loopReadVars
  <2>2. QED
    BY <2>1, TickFrame DEF raftVars, nodeVars, psVars
<1>7. QED
  BY <1>1, <1>2, <1>3, <1>4, <1>5, <1>6, ReadCases

----------------------------------------------------------------------------
(* What a read that is answered has seen.                                  *)

\* The history only grows.
GrowsInv ==
    \A j \in 0 .. gcommit : \A i \in 0 .. j :
        Extends(after(gshards, i).data, after(gshards, j).data)

LEMMA NextKeepsGrows ==
    ASSUME PipelineInv, PipelineInv', GrowsInv, [Next]_vars
    PROVE  GrowsInv'
<1>0. /\ TypeInv /\ TypeInv' /\ LogInv /\ Stays
      /\ gcommit \in Nat /\ gcommit' \in Nat /\ gcommit <= gcommit'
  <2>1. TypeInv /\ TypeInv' /\ LogInv
    BY ReplyInvParts DEF PipelineInv, LogsInv, ReplyInv
  <2>2. Stays
    BY <2>1, NextKeepsLog
  <2>3. QED
    BY <2>1, <2>2 DEF TypeInv, RaftTypeOK, TypeOK, Stays
<1>1. \A k \in 0 .. gcommit : after(gshards', k) = after(gshards, k)
  BY <1>0 DEF after, Stays
<1>2. gcommit' = gcommit \/ gcommit' = gcommit + 1
  BY <1>0, CommitStep
<1>3. SUFFICES ASSUME NEW j \in 0 .. gcommit', NEW i \in 0 .. j
               PROVE  Extends(after(gshards', i).data, after(gshards', j).data)
  BY DEF GrowsInv
<1>4. CASE j \in 0 .. gcommit
  <2>1. i \in 0 .. gcommit
    BY <1>0, <1>3, <1>4
  <2>2. Extends(after(gshards, i).data, after(gshards, j).data)
    BY <1>3, <1>4 DEF GrowsInv
  <2>3. QED
    BY <1>1, <1>4, <2>1, <2>2
<1>5. CASE j = gcommit'
  <2>1. HistoryInv' /\ i \in 0 .. gcommit'
    BY <1>3, <1>5 DEF PipelineInv
  <2>2. QED
    BY <1>5, <2>1 DEF HistoryInv
<1>6. QED
  BY <1>0, <1>2, <1>3, <1>4, <1>5

isOk(r) == "ok" \in ToSet(readReplies[r])

LEMMA AppendHas ==
    ASSUME NEW V, NEW s \in Seq(V), NEW a \in V, NEW b \in ToSet(Append(s, a))
    PROVE  b \in ToSet(s) \/ b = a
<1>1. /\ DOMAIN Append(s, a) = 1 .. Len(s) + 1 /\ DOMAIN s = 1 .. Len(s)
      /\ \A i \in 1 .. Len(s) : Append(s, a)[i] = s[i]
      /\ Append(s, a)[Len(s) + 1] = a /\ Len(s) \in Nat
  BY Appended
<1>2. PICK i \in DOMAIN Append(s, a) : b = Append(s, a)[i]
  BY DEF ToSet
<1>3. CASE i = Len(s) + 1
  BY <1>1, <1>2, <1>3
<1>4. CASE i \in DOMAIN s
  BY <1>1, <1>2, <1>4 DEF ToSet
<1>5. QED
  BY <1>1, <1>2, <1>3, <1>4

\* Answers other than "ok" make no read ok.
LEMMA OtherAnswers ==
    ASSUME QueueInv, NEW A \in SUBSET Reads, NEW x \in ReadAnswers, x # "ok",
           readReplies' = respReads(A, x), NEW r \in Reads, isOk(r)'
    PROVE  isOk(r)
<1>1. /\ r \notin A => readReplies'[r] = readReplies[r]
      /\ r \in A => readReplies'[r] = Append(readReplies[r], x)
  BY RespReadsAnswers
<1>2. readReplies[r] \in Seq(ReadAnswers)
  BY HomesParts
<1>3. CASE r \in A
  <2>1. "ok" \in ToSet(Append(readReplies[r], x))
    BY <1>1, <1>3 DEF isOk
  <2>2. QED
    BY <1>2, <2>1, AppendHas DEF isOk
<1>4. CASE r \notin A
  BY <1>1, <1>4 DEF isOk
<1>5. QED
  BY <1>3, <1>4


\* A read that is ok was so before, or is executed now, on data at least as new
\* as its index, or during a snapshot.
Kept(r) ==
    /\ isOk(r) /\ toldAt'[r] = toldAt[r] /\ readSeen'[r] = readSeen[r]
    /\ r \in overtaken => r \in overtaken'

JustRead(r) ==
    /\ toldAt'[r] = toldAt[r] /\ readSeen'[r] = data /\ r \in readsOf(pendingReads)
    /\ \E x \in settled :
          /\ x.read = r
          /\ \/ ReadyWithReads /\ x.index <= psApplied
             \/ ApplyResultWithReads /\ results # <<>> /\ x.index <= psApplied'

\* Serving reads makes those of S ok.
LEMMA ServedOk ==
    ASSUME QueueInv, NEW S, NEW T, NEW a, NEW d, Served(S, T, a, d), NEW r \in Reads, isOk(r)'
    PROVE  \/ /\ r \in S /\ r \in readsOf(pendingReads) /\ readSeen'[r] = d
              /\ \E x \in settled : x.read = r /\ x.index <= a
           \/ r \notin S /\ isOk(r) /\ readSeen'[r] = readSeen[r]
<1>1. /\ S \in SUBSET readsOf(pendingReads) /\ T \in SUBSET readsOf(pendingReads)
      /\ readReplies' = [s \in Reads |-> IF s \in S THEN Append(readReplies[s], "ok")
                                       ELSE IF s \in T THEN Append(readReplies[s], "stale")
                                       ELSE readReplies[s]]
      /\ readSeen' = [s \in Reads |-> IF s \in S THEN d ELSE readSeen[s]]
      /\ \A s \in S : \E x \in settled : x.read = s /\ x.index <= a
  BY Zenon DEF Served
<1>2. readReplies[r] \in Seq(ReadAnswers)
  BY HomesParts
<1>3. CASE r \in S
  BY <1>1, <1>3
<1>4. CASE r \notin S /\ r \in T
  <2>1. readReplies'[r] = Append(readReplies[r], "stale") /\ readSeen'[r] = readSeen[r]
    BY <1>1, <1>4
  <2>2. "ok" \in ToSet(Append(readReplies[r], "stale")) /\ "stale" \in ReadAnswers
    BY <2>1 DEF isOk, ReadAnswers
  <2>3. "ok" \in ToSet(readReplies[r])
    BY <1>2, <2>2, AppendHas
  <2>4. QED
    BY <1>4, <2>1, <2>3 DEF isOk
<1>5. CASE r \notin S /\ r \notin T
  <2>1. readReplies'[r] = readReplies[r] /\ readSeen'[r] = readSeen[r]
    BY <1>1, <1>5
  <2>2. QED
    BY <1>5, <2>1 DEF isOk
<1>6. QED
  BY <1>3, <1>4, <1>5

LEMMA OkStep ==
    ASSUME QueueInv, TypeInv, TypeInv', [ReadNext]_<<vars, readVars>>, NEW r \in Reads, isOk(r)'
    PROVE  Kept(r) \/ JustRead(r) \/ r \in overtaken'
<1>0. toldAt \in [Reads -> Nat]
  BY DEF QueueInv, ReadTypeOK
<1>1. CASE \E s \in Reads : SubmitRead(s)
  <2>1. PICK s \in Reads : SubmitRead(s)
    BY <1>1
  <2>2. /\ readReplies[s] = <<>> /\ toldAt' = [toldAt EXCEPT ![s] = told]
        /\ UNCHANGED <<readSeen, overtaken>>
        /\ UNCHANGED readReplies \/ readReplies' = respRead(s, "storeNotMatch")
    BY <2>1 DEF SubmitRead
  <2>3. isOk(r)
    <3>1. CASE UNCHANGED readReplies
      BY <3>1 DEF isOk
    <3>2. CASE readReplies' = respRead(s, "storeNotMatch")
      <4>1. "storeNotMatch" \in ReadAnswers /\ "storeNotMatch" # "ok" /\ {s} \in SUBSET Reads
        BY DEF ReadAnswers
      <4>2. readReplies' = respReads({s}, "storeNotMatch")
        BY <3>2, <4>1, RespReadAnswers
      <4>3. QED
        BY <4>1, <4>2, OtherAnswers
    <3>3. QED
      BY <2>2, <3>1, <3>2
  <2>4. r # s
    <3>1. ToSet(<<>>) = {}
      BY DEF ToSet
    <3>2. QED
      BY <2>2, <2>3, <3>1 DEF isOk
  <2>5. QED
    BY <1>0, <2>2, <2>3, <2>4 DEF Kept
<1>2. CASE StopWithReads
  <2>1. /\ UNCHANGED <<toldAt, readSeen, overtaken>>
        /\ readReplies' = respReads(ToSet(readReqs) \cup ToSet(readBatch), "storeNotMatch")
    BY <1>2 DEF StopWithReads
  <2>2. PICK A \in SUBSET Reads : A = ToSet(readReqs) \cup ToSet(readBatch)
    BY HomesParts
  <2>3. "storeNotMatch" \in ReadAnswers /\ "storeNotMatch" # "ok"
    BY DEF ReadAnswers
  <2>4. isOk(r)
    BY <2>1, <2>2, <2>3, OtherAnswers
  <2>5. QED
    BY <2>1, <2>4 DEF Kept
<1>3. CASE ReadRefused \/ ReadForwarded
  <2>1. /\ UNCHANGED <<toldAt, readSeen, overtaken>> /\ readBatch # <<>>
    BY <1>3 DEF ReadRefused, ReadForwarded
  <2>2. PICK x \in ReadAnswers : x # "ok" /\ readReplies' = respRead(Head(readBatch), x)
    BY <1>3 DEF ReadRefused, ReadForwarded, ReadAnswers
  <2>3. Head(readBatch) \in Reads
    BY <2>1, HomesParts, DistinctTail
  <2>4. PICK s \in Reads : s = Head(readBatch)
    BY <2>3
  <2>5. readReplies' = respReads({s}, x) /\ {s} \in SUBSET Reads
    BY <2>2, <2>4, RespReadAnswers
  <2>6. isOk(r)
    BY <2>2, <2>5, OtherAnswers
  <2>7. QED
    BY <2>1, <2>6 DEF Kept
<1>4. CASE ApplyResultWithReads
  <2>1. PICK S : Served(S, {}, psApplied', data) /\ (results = <<>> => S = {})
    BY <1>4, ApplyResultStep
  <2>2. UNCHANGED <<toldAt, overtaken>>
    BY <1>4, ApplyResultStep
  <2>3. \/ /\ r \in S /\ r \in readsOf(pendingReads) /\ readSeen'[r] = data
           /\ \E x \in settled : x.read = r /\ x.index <= psApplied'
        \/ r \notin S /\ isOk(r) /\ readSeen'[r] = readSeen[r]
    BY <2>1, ServedOk
  <2>4. QED
    BY <1>4, <2>1, <2>2, <2>3 DEF Kept, JustRead
<1>5. CASE ReadyWithReads
  <2>1. PICK S, T : Served(S, T, psApplied, data)
    BY <1>5, ReadyStep
  <2>2. UNCHANGED toldAt /\ UNCHANGED overtaken
    BY <1>5 DEF ReadyWithReads, doApplyReads
  <2>3. \/ /\ r \in S /\ r \in readsOf(pendingReads) /\ readSeen'[r] = data
           /\ \E x \in settled : x.read = r /\ x.index <= psApplied
        \/ r \notin S /\ isOk(r) /\ readSeen'[r] = readSeen[r]
    BY <2>1, ServedOk
  <2>4. QED
    BY <1>5, <2>2, <2>3 DEF Kept, JustRead
<1>6. CASE SnapshotReadyWithReads
  <2>1. PICK S, T : \E d \in Seq(Cmds \cup Others) :
              Served(S, T, snapPend, d) /\ S \in SUBSET overtaken' /\ overtaken \in SUBSET overtaken'
    BY <1>6, SnapshotReadyStep
  <2>2. PICK d \in Seq(Cmds \cup Others) :
              Served(S, T, snapPend, d) /\ S \in SUBSET overtaken' /\ overtaken \in SUBSET overtaken'
    BY <2>1
  <2>3. UNCHANGED toldAt
    BY <1>6 DEF SnapshotReadyWithReads, doApplyReads
  <2>4. r \in S \/ (isOk(r) /\ readSeen'[r] = readSeen[r])
    BY <2>2, ServedOk
  <2>5. QED
    BY <2>2, <2>3, <2>4 DEF Kept
<1>7. CASE \/ RequestWithReads \/ ReadAccepted \/ RaftRead
           \/ StepWithReads \/ ApplyWithReads \/ GroupWithReads \/ Quiet
  <2>1. UNCHANGED <<readReplies, readSeen, toldAt, overtaken>>
    BY <1>7, QuietMeans DEF RequestWithReads, ReadAccepted, RaftRead, SendReadAck, RecvReadAck,
       AnswerForwarded, RecvReadIndexResp, StepWithReads, ApplyWithReads, GroupWithReads,
       answerVars
  <2>2. QED
    BY <2>1 DEF Kept, isOk
<1>8. QED
  BY <1>1, <1>2, <1>3, <1>4, <1>5, <1>6, <1>7, ReadCases


LEMMA SettledType ==
    ASSUME QueueInv
    PROVE  \A x \in settled : x \in ReadState /\ x.read \in readsOf(pendingReads) \cup given
<1>1. /\ QueueOK(pendingReads, readyToRead) /\ readStates \in Seq(ReadState)
      /\ DOMAIN readStates = 1 .. Len(readStates)
  BY QueueInvParts
<1>2. ASSUME NEW i \in 1 .. readyToRead
      PROVE  pendingReads[i] \in ReadState /\ pendingReads[i].read \in readsOf(pendingReads)
  <2>1. i \in DOMAIN pendingReads /\ i \in 1 .. Len(pendingReads)
    BY <1>1, QueueType DEF QueueOK
  <2>2. pendingReads[i] \in ReadState
    BY <1>1, <2>1, QueueType
  <2>3. QED
    BY <2>1, <2>2 DEF readsOf
<1>3. ASSUME NEW i \in 1 .. Len(readStates)
      PROVE  readStates[i] \in ReadState /\ readStates[i].read \in given
  <2>1. readStates[i] \in ReadState
    BY <1>1, ElementOfSeq
  <2>2. readStates[i].read \in readsOf(readStates)
    BY <1>1 DEF readsOf
  <2>3. QED
    BY <2>1, <2>2 DEF given
<1>4. QED
  BY <1>2, <1>3 DEF settled

\* ReadSeesTold, element by element.
SeenInv ==
    \A r \in Reads : (r \notin overtaken /\ isOk(r)) =>
        Extends(after(gshards, toldAt[r]).data, readSeen[r])

\* Reads are executed on data that are whole.
LEMMA ReadsIntact ==
    ASSUME PipelineInv, QueueInv, RoundInv, TickInv, NEW r \in readsOf(pendingReads),
           \/ ReadyWithReads
           \/ ApplyResultWithReads /\ results # <<>>
    PROVE  intact
<1>1. SUFFICES ASSUME stopRaftTick PROVE FALSE
  BY DEF intact
<1>2. prevSoft[1] = "leader"
  <2>1. readsOf(<<>>) = {}
    BY EmptyList DEF readsOf
  <2>2. QED
    BY <2>1 DEF RoundInv
<1>3. snapPend # 0 /\ psCommit = psApplied
  BY <1>1, <1>2 DEF TickInv
<1>4. CASE ReadyWithReads
  BY <1>3, <1>4 DEF ReadyWithReads, HandleReady
<1>5. CASE ApplyResultWithReads /\ results # <<>>
  BY <1>3, <1>5, NoneToCome
<1>6. QED
  BY <1>4, <1>5

LEMMA NextKeepsSeen ==
    ASSUME PipelineInv, PipelineInv', QueueInv, RoundInv, GrowsInv, FreshInv, TickInv, KnownInv,
           CoverInv, SeenInv, [ReadNext]_<<vars, readVars>>
    PROVE  SeenInv'
<1>0. [Next]_vars
  BY ReadNextIsNext
<1>1. /\ TypeInv /\ TypeInv' /\ LogInv /\ Stays
      /\ gcommit \in Nat /\ psApplied \in Nat /\ psApplied' \in Nat
      /\ results \in Seq([applied : Nat, epoch : Nat])
  <2>1. TypeInv /\ TypeInv' /\ LogInv
    BY ReplyInvParts DEF PipelineInv, LogsInv, ReplyInv
  <2>2. Stays
    BY <1>0, <2>1, NextKeepsLog
  <2>3. QED
    BY <2>1, <2>2 DEF TypeInv, RaftTypeOK, TypeOK
<1>2. SUFFICES ASSUME NEW r \in Reads, r \notin overtaken', isOk(r)'
               PROVE  Extends(after(gshards', toldAt'[r]).data, readSeen'[r])
  BY DEF SeenInv
<1>4. toldAt[r] \in 0 .. gcommit
  <2>1. toldAt[r] \in Nat /\ told \in Nat
    BY DEF QueueInv, ReadTypeOK
  <2>2. QED
    BY <1>1, <2>1 DEF KnownInv
<1>5. after(gshards', toldAt[r]) = after(gshards, toldAt[r])
  BY <1>1, <1>4 DEF after, Stays
<1>6. Kept(r) \/ JustRead(r)
  BY <1>1, <1>2, OkStep
<1>7. CASE Kept(r)
  <2>1. r \notin overtaken /\ isOk(r) /\ toldAt'[r] = toldAt[r] /\ readSeen'[r] = readSeen[r]
    BY <1>2, <1>7 DEF Kept
  <2>2. Extends(after(gshards, toldAt[r]).data, readSeen[r])
    BY <2>1 DEF SeenInv
  <2>3. QED
    BY <1>5, <2>1, <2>2
<1>8. CASE JustRead(r)
  <2>1. PICK x \in settled :
          /\ x.read = r
          /\ \/ ReadyWithReads /\ x.index <= psApplied
             \/ ApplyResultWithReads /\ results # <<>> /\ x.index <= psApplied'
    BY <1>8 DEF JustRead
  <2>2. x.index \in Nat /\ toldAt[r] <= x.index
    <3>1. x \in ReadState
      BY <2>1, SettledType
    <3>2. QED
      BY <2>1, <3>1 DEF CoverInv, ReadState
  <2>3. PICK b \in 0 .. gcommit : FreshAt(b)
    <3>1. intact
      BY <1>8, <2>1, ReadsIntact DEF JustRead
    <3>2. QED
      BY <3>1 DEF FreshInv
  <2>4. x.index <= b
    <3>1. jobs \in Seq(Job) /\ DOMAIN jobs = 1 .. Len(jobs)
      BY <1>1, LenProperties DEF TypeInv, TypeOK
    <3>2. CASE ReadyWithReads /\ x.index <= psApplied
      <4>1. ~Queued(jobs, "snapshot")
        BY <3>1, <3>2 DEF ReadyWithReads, HandleReady, isApplyingSnapshot, Queued
      <4>2. psApplied <= b
        BY <2>3, <4>1 DEF FreshAt
      <4>3. QED
        BY <1>1, <2>2, <3>2, <4>2
    <3>3. CASE ApplyResultWithReads /\ results # <<>> /\ x.index <= psApplied'
      <4>1. ~Queued(jobs, "snapshot")
        BY <3>3 DEF PipelineInv, PlanInv, Plan, ResultsInv
      <4>2. \A i \in 1 .. Len(results) : results[i].applied <= b
        BY <2>3, <4>1 DEF FreshAt
      <4>3. Len(results) \in 1 .. Len(results) /\ psApplied' = results[Len(results)].applied
        BY <1>1, <3>3 DEF ApplyResultWithReads, HandleApplyResult
      <4>4. psApplied' <= b
        BY <4>2, <4>3
      <4>5. QED
        BY <1>1, <2>2, <3>3, <4>4
    <3>4. QED
      BY <2>1, <3>2, <3>3
  <2>5. toldAt[r] \in 0 .. b
    BY <1>4, <2>2, <2>3, <2>4
  <2>6. Extends(after(gshards, toldAt[r]).data, after(gshards, b).data)
    BY <2>3, <2>5 DEF GrowsInv
  <2>7. readSeen'[r] = after(gshards, b).data /\ toldAt'[r] = toldAt[r]
    BY <1>8, <2>3 DEF JustRead, FreshAt
  <2>8. QED
    BY <1>5, <2>6, <2>7
<1>9. QED
  BY <1>6, <1>7, <1>8


----------------------------------------------------------------------------
(* What clients may know, and the index of a read.                         *)

LEMMA EntryTerms ==
    ASSUME NEW log \in Seq(Entry)
    PROVE  \A i \in 1 .. Len(log) : log[i].term \in Nat
<1>1. \A i \in 1 .. Len(log) : log[i] \in Entry
  BY ElementOfSeq
<1>2. QED
  BY <1>1 DEF Entry

LEMMA TermsAppend ==
    ASSUME NEW log \in Seq(Entry), NEW t \in Nat, NEW u \in Nat, TermsUpTo(log, t), t <= u,
           NEW e \in Entry, e.term <= u
    PROVE  TermsUpTo(Append(log, e), u)
<1>0. PICK p : p = Append(log, e)
  OBVIOUS
<1>1. /\ Len(p) = Len(log) + 1 /\ Len(log) \in Nat
      /\ \A i \in 1 .. Len(log) : p[i] = log[i]
      /\ p[Len(log) + 1] = e
  BY <1>0, Appended
<1>2. \A i \in 1 .. Len(log) : log[i].term \in Nat
  BY EntryTerms
<1>3. \A i \in 1 .. Len(p) : p[i].term <= u
  BY <1>1, <1>2 DEF TermsUpTo
<1>4. QED
  BY <1>0, <1>3 DEF TermsUpTo

LEMMA TermsPrefix ==
    ASSUME NEW log \in Seq(Entry), NEW t \in Nat, NEW u \in Nat, TermsUpTo(log, t), t <= u,
           NEW n \in 0 .. Len(log)
    PROVE  TermsUpTo(SubSeq(log, 1, n), u) /\ SubSeq(log, 1, n) \in Seq(Entry)
<1>0. PICK p : p = SubSeq(log, 1, n)
  OBVIOUS
<1>1. Len(p) = n /\ p \in Seq(Entry) /\ \A i \in 1 .. n : p[i] = log[i]
  BY <1>0, PrefixElements
<1>2. \A i \in 1 .. n : i \in 1 .. Len(log)
  BY LenProperties
<1>3. \A i \in 1 .. Len(log) : log[i].term \in Nat
  BY EntryTerms
<1>4. \A i \in 1 .. Len(p) : p[i].term <= u
  BY <1>1, <1>2, <1>3 DEF TermsUpTo
<1>5. QED
  BY <1>0, <1>1, <1>4 DEF TermsUpTo

LEMMA TermsGrow ==
    ASSUME NEW log \in Seq(Entry), NEW t \in Nat, NEW u \in Nat, TermsUpTo(log, t), t <= u
    PROVE  TermsUpTo(log, u)
<1>1. \A i \in 1 .. Len(log) : log[i].term \in Nat
  BY EntryTerms
<1>2. QED
  BY <1>1 DEF TermsUpTo

LEMMA NextKeepsLogTerms ==
    ASSUME TypeInv, LogTermsInv, [Next]_vars
    PROVE  LogTermsInv'
<1>0. /\ glog \in Seq(Entry) /\ rlog \in Seq(Entry) /\ gterm \in Nat /\ rterm \in Nat
      /\ Len(glog) \in Nat /\ Len(rlog) \in Nat /\ gcommit \in Nat /\ rcommit \in Nat
      /\ TermsUpTo(glog, gterm) /\ TermsUpTo(rlog, gterm)
      /\ role = "leader" => rterm <= gterm
      /\ gcommit <= Len(glog) /\ gcommit = Len(gshards) /\ gterm <= gterm
  BY LenProperties DEF TypeInv, RaftInv, RaftTypeOK, LogTermsInv
<1>a. shardAt(gcommit).epoch \in Nat
  <2>1. shardAt(gcommit) \in Shard
    BY <1>0, ShardAtType DEF TypeInv, RaftInv
  <2>2. QED
    BY <2>1 DEF Shard
<1>1. CASE Group /\ OtherElected
  <2>1. PICK t \in gterm + 1 .. MaxTerm, base \in {glog, rlog} :
        \E n \in gcommit .. Len(base) :
          /\ glog' = Append(SubSeq(base, 1, n), EmptyEntry(t))
          /\ gterm' = t
    BY <1>1 DEF OtherElected
  <2>2. PICK n \in gcommit .. Len(base) :
          /\ glog' = Append(SubSeq(base, 1, n), EmptyEntry(t))
          /\ gterm' = t
    BY <2>1
  <2>3. t \in Nat /\ gterm <= t /\ t <= t
    BY <1>0, <2>1, MaxTermAssumption
  <2>4. EmptyEntry(t) \in Entry /\ EmptyEntry(t).term = t
    BY <2>3 DEF EmptyEntry, Entry
  <2>5. base \in Seq(Entry) /\ TermsUpTo(base, gterm) /\ n \in 0 .. Len(base)
    BY <1>0, <2>1, <2>2
  <2>6. TermsUpTo(SubSeq(base, 1, n), t) /\ SubSeq(base, 1, n) \in Seq(Entry)
    BY <1>0, <2>3, <2>5, TermsPrefix
  <2>7. TermsUpTo(Append(SubSeq(base, 1, n), EmptyEntry(t)), t)
    <3>1. PICK s \in Seq(Entry) : s = SubSeq(base, 1, n)
      BY <2>6
    <3>2. PICK e \in Entry : e = EmptyEntry(t)
      BY <2>4
    <3>3. TermsUpTo(s, t) /\ e.term <= t
      BY <2>3, <2>4, <2>6, <3>1, <3>2
    <3>4. TermsUpTo(Append(s, e), t)
      BY <2>3, <3>3, TermsAppend
    <3>5. QED
      BY <3>1, <3>2, <3>4, Zenon
  <2>8. UNCHANGED <<rlog, role, rterm>>
    BY <1>1 DEF OtherElected, nodeVars
  <2>9. TermsUpTo(rlog, t)
    BY <1>0, <2>3, TermsGrow
  <2>10. role' = "leader" => rterm' <= t
    BY <1>0, <2>3, <2>8
  <2>11. QED
    BY <2>2, <2>7, <2>8, <2>9, <2>10 DEF LogTermsInv
<1>2. CASE Group /\ (OtherAppend \/ OtherAppendForwarded)
  <2>1. PICK e : glog' = Append(glog, e) /\ e \in Entry /\ e.term = gterm
    <3>1. CASE OtherAppend
      <4>1. PICK o \in Others :
              glog' = Append(glog, [term |-> gterm, cmd |-> o, epoch |-> shardAt(gcommit).epoch])
        BY <3>1 DEF OtherAppend
      <4>2. PICK e : e = [term |-> gterm, cmd |-> o, epoch |-> shardAt(gcommit).epoch]
        OBVIOUS
      <4>3. e \in Entry /\ e.term = gterm
        BY <1>0, <1>a, <4>2 DEF Entry
      <4>4. QED
        BY <4>1, <4>2, <4>3
    <3>2. CASE OtherAppendForwarded
      <4>1. PICK p \in net :
              glog' = Append(glog, [term |-> gterm, cmd |-> p.cmd, epoch |-> p.epoch])
        BY <3>2 DEF OtherAppendForwarded
      <4>2. PICK e : e = [term |-> gterm, cmd |-> p.cmd, epoch |-> p.epoch]
        OBVIOUS
      <4>3. p.cmd \in Cmds /\ p.epoch \in Nat
        BY <4>1 DEF TypeInv, RaftInv, RaftTypeOK
      <4>4. e \in Entry /\ e.term = gterm
        BY <1>0, <4>2, <4>3 DEF Entry
      <4>5. QED
        BY <4>1, <4>2, <4>4
    <3>3. QED
      BY <1>2, <3>1, <3>2
  <2>2. TermsUpTo(glog', gterm)
    BY <1>0, <2>1, TermsAppend
  <2>3. UNCHANGED <<rlog, role, rterm, gterm>>
    BY <1>2 DEF OtherAppend, OtherAppendForwarded, nodeVars
  <2>4. QED
    BY <1>0, <2>2, <2>3 DEF LogTermsInv
<1>3. CASE HandleStep /\ Win
  <2>1. /\ rlog' = Append(rlog, EmptyEntry(rterm)) /\ glog' = rlog /\ gterm' = rterm
        /\ rterm' = rterm /\ gterm <= rterm /\ rterm <= rterm
    BY <1>0, <1>3 DEF Win
  <2>2. PICK e \in Entry : e = EmptyEntry(rterm)
    BY <1>0 DEF EmptyEntry, Entry
  <2>3. e.term = rterm
    BY <2>2 DEF EmptyEntry
  <2>4. TermsUpTo(Append(rlog, e), rterm)
    BY <1>0, <2>1, <2>3, TermsAppend
  <2>5. TermsUpTo(rlog, rterm)
    BY <1>0, <2>1, TermsGrow
  <2>6. QED
    BY <2>1, <2>2, <2>4, <2>5 DEF LogTermsInv
<1>4. CASE HandleStep /\ (Campaign \/ StepDown \/ LearnCommit)
  <2>1. /\ UNCHANGED <<glog, gterm, rlog>>
        /\ role' = "leader" => role = "leader" /\ rterm' = rterm
    BY <1>4 DEF Campaign, StepDown, LearnCommit, groupVars
  <2>2. QED
    BY <1>0, <2>1 DEF LogTermsInv
<1>5. CASE HandleStep /\ (FollowLeader \/ RecvSnapshot)
  <2>1. UNCHANGED <<glog, gterm>> /\ role' = "follower"
    BY <1>5 DEF FollowLeader, RecvSnapshot, groupVars
  <2>2. rlog' = rlog \/ \E n \in 0 .. Len(glog) : rlog' = SubSeq(glog, 1, n)
    <3>1. \A n \in rcommit .. Len(glog) : n \in 0 .. Len(glog)
      BY <1>0
    <3>2. \A n \in rcommit + 1 .. gcommit : n \in 0 .. Len(glog)
      BY <1>0
    <3>3. QED
      BY <1>5, <3>1, <3>2 DEF FollowLeader, RecvSnapshot
  <2>3. TermsUpTo(rlog', gterm)
    <3>1. CASE \E n \in 0 .. Len(glog) : rlog' = SubSeq(glog, 1, n)
      <4>1. PICK n \in 0 .. Len(glog) : rlog' = SubSeq(glog, 1, n)
        BY <3>1
      <4>2. TermsUpTo(SubSeq(glog, 1, n), gterm)
        BY <1>0, <4>1, TermsPrefix
      <4>3. QED
        BY <4>1, <4>2, Zenon
    <3>2. QED
      BY <1>0, <2>2, <3>1
  <2>4. QED
    BY <1>0, <2>1, <2>3 DEF LogTermsInv
<1>6. CASE (HandleStep /\ RecvProp) \/ ProposeAppended
  <2>1. PICK e : rlog' = Append(rlog, e) /\ e \in Entry /\ e.term = rterm
    <3>1. CASE RecvProp
      <4>1. PICK o \in Others :
              rlog' = Append(rlog, [term |-> rterm, cmd |-> o, epoch |-> shardAt(gcommit).epoch])
        BY <3>1 DEF RecvProp
      <4>2. PICK e : e = [term |-> rterm, cmd |-> o, epoch |-> shardAt(gcommit).epoch]
        OBVIOUS
      <4>3. e \in Entry /\ e.term = rterm
        BY <1>0, <1>a, <4>2 DEF Entry
      <4>4. QED
        BY <4>1, <4>2, <4>3
    <3>2. CASE ProposeAppended
      <4>1. rlog' = Append(rlog, [term |-> rterm, cmd |-> Head(batch).cmd,
                                  epoch |-> Head(batch).epoch])
        BY <3>2 DEF ProposeAppended
      <4>2. PICK e : e = [term |-> rterm, cmd |-> Head(batch).cmd, epoch |-> Head(batch).epoch]
        OBVIOUS
      <4>3. Head(batch).cmd \in Cmds /\ Head(batch).epoch \in Nat
        <5>1. batch \in Seq(Header) /\ batch # <<>>
          BY <3>2 DEF ProposeAppended, TypeInv, TypeOK
        <5>2. Head(batch) \in Header
          BY <5>1, HeadTailProperties
        <5>3. QED
          BY <5>2 DEF Header
      <4>4. e \in Entry /\ e.term = rterm
        BY <1>0, <4>2, <4>3 DEF Entry
      <4>5. QED
        BY <4>1, <4>2, <4>4
    <3>3. QED
      BY <1>6, <3>1, <3>2
  <2>2. UNCHANGED <<glog, gterm, role, rterm>> /\ role = "leader"
    BY <1>6 DEF RecvProp, ProposeAppended, groupVars
  <2>3. TermsUpTo(Append(rlog, e), gterm)
    BY <1>0, <2>1, <2>2, TermsAppend
  <2>4. QED
    BY <1>0, <2>1, <2>2, <2>3 DEF LogTermsInv
<1>7. CASE HandleReady \/ SnapshotReady
  <2>1. UNCHANGED <<gterm, role, rterm, rlog>> /\ glog' \in {glog, rlog}
    BY <1>7 DEF HandleReady, SnapshotReady, sendMessages
  <2>2. QED
    BY <1>0, <2>1 DEF LogTermsInv
<1>8. CASE UNCHANGED <<glog, gterm, role, rterm, rlog>>
  BY <1>0, <1>8 DEF LogTermsInv
<1>9. CASE \/ \E c \in Cmds : Submit(c)
           \/ LoopStart \/ LoopStop \/ HandleApplyResult \/ HandleRequest
           \/ ProposeRefused \/ ProposeForwarded \/ SkipReady
           \/ DoRegistrationJob \/ DoPropose \/ DoApplyCommittedEntries \/ DoApplyingSnapshotJob
           \/ DoDestroy \/ RetryMustDestroy \/ RemovePR \/ HandleGCPeerMsg
           \/ (Group /\ (GroupCommit \/ SnapshotFileArrives)) \/ UNCHANGED vars
  <2>1. UNCHANGED <<glog, gterm, role, rterm, rlog>>
    BY <1>9 DEF Submit, LoopStart, LoopStop, HandleApplyResult, HandleRequest, ProposeRefused,
       ProposeForwarded, SkipReady, DoRegistrationJob, DoPropose, DoApplyCommittedEntries,
       DoApplyingSnapshotJob, DoDestroy, RetryMustDestroy, RemovePR, HandleGCPeerMsg,
       GroupCommit, SnapshotFileArrives, vars, raftVars, groupVars, nodeVars
  <2>2. QED
    BY <1>8, <2>1
<1>10. QED
  BY <1>1, <1>2, <1>3, <1>4, <1>5, <1>6, <1>7, <1>9 DEF Next, Loop, Worker, HandleStep, Group,
     GroupNext


\* Apart from raft's own steps and proposals, a step leaves the leader's state
\* and what is known alone.
LEMMA LeaderFrame ==
    ASSUME QueueInv, TypeInv, TypeInv', [ReadNext]_<<vars, readVars>>,
           ~StepWithReads, ~GroupWithReads, ~ProposeAppended
    PROVE  UNCHANGED <<told, role, rterm, rlog, rcommit, gself>>
<1>1. CASE Serving
  BY <1>1, ServingMeans
<1>2. CASE Quiet
  <2>1. UNCHANGED <<told, role, rterm, rcommit, gself>>
    BY <1>2, QuietMeans
  <2>2. UNCHANGED rlog
    BY <1>2 DEF Quiet, LoopStart, ProposeRefused, ProposeForwarded, SkipReady,
       DoRegistrationJob, DoPropose, DoApplyingSnapshotJob, DoDestroy, RetryMustDestroy,
       RemovePR, HandleGCPeerMsg, Submit, vars, raftVars, nodeVars
  <2>3. QED
    BY <2>1, <2>2
<1>3. CASE \/ \E r \in Reads : SubmitRead(r)
           \/ StopWithReads \/ RequestWithReads \/ ReadRefused \/ ReadForwarded \/ ReadAccepted
           \/ RaftRead \/ ApplyWithReads
  <2>1. UNCHANGED <<told, raftVars>>
    BY <1>3 DEF SubmitRead, StopWithReads, LoopStop, RequestWithReads, HandleRequest,
       ReadRefused, ReadForwarded, ReadAccepted, RaftRead, SendReadAck, RecvReadAck,
       AnswerForwarded, RecvReadIndexResp, ApplyWithReads, DoApplyCommittedEntries, vars
  <2>2. QED
    BY <2>1 DEF raftVars, nodeVars, groupVars
<1>4. QED
  BY <1>1, <1>2, <1>3, ReadCases DEF Serving

\* What the leader of the group has not learned to be committed is from before
\* its term.
Learned == told <= rcommit \/ \A i \in 1 .. told : rlog[i].term < rterm

LEMMA NextKeepsLearned ==
    ASSUME TypeInv, TypeInv', LogInv, LogTermsInv, QueueInv, QueueInv', KnownInv,
           [ReadNext]_<<vars, readVars>>, gself', role' = "leader"
    PROVE  Learned'
<1>0. /\ told \in Nat /\ told' \in Nat /\ told <= gcommit
      /\ rcommit \in Nat /\ rcommit' \in Nat /\ gcommit \in Nat /\ gcommit <= Len(glog)
      /\ rterm \in Nat /\ gterm \in Nat
      /\ rlog \in Seq(Entry) /\ glog \in Seq(Entry) /\ Len(rlog) \in Nat /\ Len(glog) \in Nat
      /\ rlog' \in Seq(Entry)
  BY LenProperties DEF TypeInv, RaftInv, RaftTypeOK, QueueInv, ReadTypeOK, KnownInv
<1>1. (gself /\ role = "leader") => Learned /\ Len(glog) <= Len(rlog)
  BY DEF KnownInv, Learned, TypeInv, RaftInv
<1>2. knownNow' = rcommit'
  BY DEF knownNow
<1>3. updateTold => told' = IF rcommit' > told THEN rcommit' ELSE told
  BY <1>2 DEF updateTold
<1>4. CASE StepWithReads
  <2>1. told' = IF rcommit' > told THEN rcommit' ELSE told
    BY <1>3, <1>4 DEF StepWithReads
  <2>2. CASE Win
    <3>1. /\ rcommit' = rcommit /\ rterm' = rterm /\ rterm > gterm
          /\ rlog' = Append(rlog, EmptyEntry(rterm)) /\ IsPrefix(chosen, rlog)
      BY <2>2 DEF Win
    <3>2. gcommit <= Len(rlog)
      <4>1. Len(chosen) = gcommit
        BY <1>0, PrefixType DEF chosen
      <4>2. QED
        BY <3>1, <4>1 DEF IsPrefix
    <3>3. PICK e \in Entry : e = EmptyEntry(rterm)
      BY <1>0 DEF EmptyEntry, Entry
    <3>4. \A i \in 1 .. Len(rlog) : rlog'[i] = rlog[i]
      BY <1>0, <3>1, <3>3, Appended
    <3>5. \A i \in 1 .. Len(rlog) : rlog[i].term <= gterm /\ rlog[i].term \in Nat
      BY <1>0, EntryTerms DEF LogTermsInv, TermsUpTo
    <3>6. \A i \in 1 .. told : rlog'[i].term < rterm'
      BY <1>0, <3>1, <3>2, <3>4, <3>5
    <3>7. told' = told \/ told' <= rcommit'
      BY <1>0, <2>1
    <3>8. QED
      BY <3>6, <3>7 DEF Learned
  <2>3. CASE LearnCommit
    <3>0. UNCHANGED <<rlog, rterm, role, gself>> /\ role = "leader"
      BY <2>3 DEF LearnCommit, groupVars
    <3>a. PICK n \in rcommit + 1 .. gcommit : rlog[n].term = rterm /\ rcommit' = n
      BY <2>3 DEF LearnCommit
    <3>b. rcommit < rcommit' /\ rlog[rcommit'].term = rterm
      BY <1>0, <3>a
    <3>1. UNCHANGED <<rlog, rterm, role, gself>> /\ role = "leader" /\ rcommit < rcommit'
          /\ rlog[rcommit'].term = rterm
      BY <3>0, <3>b
    <3>2. Learned
      BY <1>1, <3>1
    <3>3. CASE told <= rcommit
      BY <1>0, <2>1, <3>1, <3>3 DEF Learned
    <3>4. CASE \A i \in 1 .. told : rlog[i].term < rterm
      <4>1. rcommit' \notin 1 .. told
        BY <1>0, <3>1, <3>4
      <4>2. QED
        BY <1>0, <2>1, <3>1, <4>1 DEF Learned
    <3>5. QED
      BY <3>2, <3>3, <3>4 DEF Learned
  <2>4. CASE RecvProp
    <3>1. /\ UNCHANGED <<rterm, role, gself, rcommit, gcommit>> /\ role = "leader"
      BY <2>4 DEF RecvProp, groupVars
    <3>2. \A i \in 1 .. Len(rlog) : rlog'[i] = rlog[i]
      <4>1. PICK e : rlog' = Append(rlog, e)
        BY <2>4 DEF RecvProp
      <4>2. QED
        BY <1>0, <4>1
    <3>3. Learned /\ Len(glog) <= Len(rlog)
      BY <1>1, <3>1
    <3>4. \A i \in 1 .. told : rlog'[i] = rlog[i]
      BY <1>0, <3>2, <3>3
    <3>5. QED
      BY <1>0, <2>1, <3>1, <3>3, <3>4 DEF Learned
  <2>5. QED
    BY <1>4, <2>2, <2>3, <2>4 DEF StepWithReads, HandleStep, Campaign, StepDown, FollowLeader,
       RecvSnapshot
<1>5. CASE GroupWithReads
  <2>1. told' = IF rcommit' > told THEN rcommit' ELSE told
    BY <1>3, <1>5 DEF GroupWithReads
  <2>2. UNCHANGED <<rlog, rterm, role, rcommit>> /\ (gself' => gself)
    BY <1>5 DEF GroupWithReads, Group, GroupNext, OtherElected, OtherAppend,
       OtherAppendForwarded, GroupCommit, SnapshotFileArrives, nodeVars, groupVars
  <2>3. Learned
    BY <1>1, <2>2
  <2>4. QED
    BY <1>0, <2>1, <2>2, <2>3 DEF Learned
<1>6. CASE ProposeAppended /\ ~StepWithReads /\ ~GroupWithReads
  <2>1. UNCHANGED <<rterm, role, gself, rcommit>> /\ role = "leader"
    BY <1>6 DEF ProposeAppended, groupVars
  <2>2. \A i \in 1 .. Len(rlog) : rlog'[i] = rlog[i]
    <3>1. PICK e : rlog' = Append(rlog, e)
      BY <1>6 DEF ProposeAppended
    <3>2. QED
      BY <1>0, <3>1
  <2>3. Learned /\ Len(glog) <= Len(rlog)
    BY <1>1, <2>1
  <2>4. \A i \in 1 .. told : rlog'[i] = rlog[i]
    BY <1>0, <2>2, <2>3
  <2>5. told' = told
    <3>1. rlog' # rlog
      <4>1. PICK e : rlog' = Append(rlog, e)
        BY <1>6 DEF ProposeAppended
      <4>2. Len(rlog') = Len(rlog) + 1
        BY <1>0, <4>1
      <4>3. QED
        BY <1>0, <4>2
    <3>2. CASE Serving
      BY <3>2, ServingMeans
    <3>3. CASE Quiet
      BY <3>3, QuietMeans
    <3>4. CASE \/ \E r \in Reads : SubmitRead(r)
           \/ StopWithReads \/ RequestWithReads \/ ReadRefused \/ ReadForwarded \/ ReadAccepted
           \/ RaftRead \/ ApplyWithReads
      BY <3>4 DEF SubmitRead, StopWithReads, RequestWithReads, ReadRefused, ReadForwarded,
       ReadAccepted, RaftRead, SendReadAck, RecvReadAck, AnswerForwarded, RecvReadIndexResp,
       ApplyWithReads
    <3>5. QED
      BY <1>6, <3>2, <3>3, <3>4, ReadCases DEF Serving
  <2>6. QED
    BY <1>0, <2>1, <2>3, <2>4, <2>5 DEF Learned
<1>7. CASE ~StepWithReads /\ ~GroupWithReads /\ ~ProposeAppended
  <2>1. UNCHANGED <<told, role, rterm, rlog, rcommit, gself>>
    BY <1>7, LeaderFrame
  <2>2. QED
    BY <1>1, <2>1 DEF Learned
<1>8. QED
  BY <1>4, <1>5, <1>6, <1>7


LEMMA NextKeepsKnown ==
    ASSUME TypeInv, TypeInv', LogInv, LogInv', LogTermsInv, QueueInv, QueueInv', KnownInv,
           [ReadNext]_<<vars, readVars>>
    PROVE  KnownInv'
<1>0. /\ told \in Nat /\ told' \in Nat /\ told <= gcommit
      /\ rcommit' \in Nat /\ gcommit' \in Nat /\ rcommit' <= gcommit' /\ gcommit \in Nat
      /\ toldAt \in [Reads -> Nat] /\ \A r \in Reads : toldAt[r] <= told
  BY DEF TypeInv, RaftInv, RaftTypeOK, QueueInv, ReadTypeOK, KnownInv, LogInv
<1>1. gcommit <= gcommit'
  <2>1. [Next]_vars
    BY ReadNextIsNext
  <2>2. Stays
    BY <2>1, NextKeepsLog
  <2>3. QED
    BY <2>2 DEF Stays
<1>2. knownNow' \in {gcommit', rcommit', 0}
  BY DEF knownNow
<1>3. UNCHANGED told \/ updateTold
  <2>1. CASE Serving
    BY <2>1, ServingMeans
  <2>2. CASE Quiet
    BY <2>2, QuietMeans
  <2>3. CASE ~Serving /\ ~Quiet
    BY <2>3, ReadCases DEF Serving, SubmitRead, StopWithReads, RequestWithReads, ReadRefused,
       ReadForwarded, ReadAccepted, RaftRead, SendReadAck, RecvReadAck, AnswerForwarded,
       RecvReadIndexResp, ApplyWithReads, StepWithReads, GroupWithReads
  <2>4. QED
    BY <2>1, <2>2, <2>3
<1>4. told <= told' /\ told' <= gcommit'
  BY <1>0, <1>1, <1>2, <1>3 DEF updateTold
<1>5. \A r \in Reads : toldAt'[r] <= told'
  <2>1. CASE \E s \in Reads : SubmitRead(s)
    <3>1. PICK s \in Reads : toldAt' = [toldAt EXCEPT ![s] = told] /\ told' = told
      BY <2>1 DEF SubmitRead
    <3>2. QED
      BY <1>0, <3>1
  <2>2. CASE toldAt' = toldAt
    BY <1>0, <1>4, <2>2
  <2>3. CASE Serving
    <3>1. UNCHANGED toldAt
      BY <2>3, ServingMeans
    <3>2. QED
      BY <2>2, <3>1
  <2>4. CASE Quiet
    BY <2>2, <2>4, QuietMeans
  <2>5. CASE ~Serving /\ ~Quiet /\ ~(\E s \in Reads : SubmitRead(s))
    <3>1. UNCHANGED toldAt
      BY <2>5, ReadCases DEF Serving, StopWithReads, RequestWithReads, ReadRefused,
       ReadForwarded, ReadAccepted, RaftRead, SendReadAck, RecvReadAck, AnswerForwarded,
       RecvReadIndexResp, ApplyWithReads, StepWithReads, GroupWithReads
    <3>2. QED
      BY <2>2, <3>1
  <2>6. QED
    BY <2>1, <2>3, <2>4, <2>5
<1>6. (gself' /\ role' = "leader") => Learned'
  BY NextKeepsLearned
<1>7. QED
  BY <1>4, <1>5, <1>6 DEF KnownInv, Learned


\* Steps that give no read an index.
LEMMA CoverFrame ==
    ASSUME CoverInv, toldAt' = toldAt, settled' \in SUBSET settled,
           \A m \in readNet' : m.kind = "resp" => m \in readNet,
           \/ readOnly' = <<>>
           \/ /\ readOnly' = readOnly /\ (gself' => gself)
              /\ \A r : hasAck(r)' => hasAck(r)
    PROVE  CoverInv'
<1>1. \A m \in readNet' : m.kind = "resp" => toldAt'[m.read] <= m.index
  BY DEF CoverInv
<1>2. \A x \in settled' : toldAt'[x.read] <= x.index
  BY DEF CoverInv
<1>3. \A i \in DOMAIN readOnly' :
          (gself' \/ acked(i)') => toldAt'[readOnly'[i].read] <= readOnly'[i].index
  <2>1. CASE readOnly' = <<>>
    <3>1. DOMAIN <<>> = {}
      BY EmptyList
    <3>2. QED
      BY <2>1, <3>1
  <2>2. CASE /\ readOnly' = readOnly /\ (gself' => gself)
             /\ \A r : hasAck(r)' => hasAck(r)
    <3>1. SUFFICES ASSUME NEW i \in DOMAIN readOnly, gself' \/ acked(i)'
                   PROVE  toldAt[readOnly[i].read] <= readOnly[i].index
      BY <2>2
    <3>2. acked(i)' => acked(i)
      BY <2>2, Zenon DEF acked
    <3>3. gself \/ acked(i)
      BY <2>2, <3>1, <3>2
    <3>4. QED
      BY <3>3 DEF CoverInv
  <2>3. QED
    BY <2>1, <2>2
<1>4. QED
  BY <1>1, <1>2, <1>3 DEF CoverInv

\* A read that is sent has no index yet.
LEMMA SubmitKeepsCover ==
    ASSUME TypeInv, QueueInv, GivenInv, CoverInv, NEW r \in Reads, SubmitRead(r)
    PROVE  CoverInv'
<1>1. /\ UNCHANGED <<pendingReads, readyToRead, readOnly, readStates, readNet, gself>>
      /\ toldAt' = [toldAt EXCEPT ![r] = told]
      /\ readReplies[r] = <<>> /\ r \notin readsOf(pendingReads)
  BY DEF SubmitRead, raftReadVars, vars, raftVars, groupVars
<1>2. r \notin given /\ toldAt \in [Reads -> Nat]
  BY <1>1 DEF GivenInv, QueueInv, ReadTypeOK
<1>3. \A s : s # r => toldAt'[s] = toldAt[s]
  BY <1>1, <1>2
<1>4. settled' = settled
  BY <1>1 DEF settled
<1>5. \A x \in settled : x.read # r
  BY <1>1, <1>2, SettledType
<1>6. \A m \in readNet : m.read # r
  BY <1>2 DEF given
<1>7. \A i \in DOMAIN readOnly : readOnly[i].read # r
  BY <1>2 DEF given, readsOf
<1>8. \A i : acked(i)' <=> acked(i)
  BY <1>1, Zenon DEF acked, hasAck
<1>9. \A i \in DOMAIN readOnly :
          (gself' \/ acked(i)') => toldAt'[readOnly[i].read] <= readOnly[i].index
  BY <1>1, <1>3, <1>7, <1>8 DEF CoverInv
<1>10. \A m \in readNet : m.kind = "resp" => toldAt'[m.read] <= m.index
  BY <1>3, <1>6 DEF CoverInv
<1>11. \A x \in settled : toldAt'[x.read] <= x.index
  BY <1>3, <1>5 DEF CoverInv
<1>12. QED
  BY <1>1, <1>4, <1>9, <1>10, <1>11 DEF CoverInv

\* A read that raft accepts gets an index that covers what is known, while this
\* leader is the newest, and no quorum has acknowledged it.
LEMMA AcceptedKeepsCover ==
    ASSUME TypeInv, QueueInv, GivenInv, KnownInv, CoverInv, ReadAccepted
    PROVE  CoverInv'
<1>0. /\ readOnly \in Seq(ReadState) /\ Len(readOnly) \in Nat
      /\ DOMAIN readOnly = 1 .. Len(readOnly)
      /\ rcommit \in Nat /\ rcommit > 0 /\ told \in Nat /\ toldAt \in [Reads -> Nat]
      /\ rterm \in Nat /\ rlog \in Seq(Entry) /\ rcommit <= Len(rlog)
  BY QueueInvParts, AcceptedKeepsQueueInv DEF TypeInv, RaftInv, RaftTypeOK, QueueInv, ReadTypeOK
<1>1. /\ UNCHANGED <<readyToRead, readStates, readNet, toldAt, gself>>
      /\ readOnly' = Append(readOnly, [read |-> Head(readBatch), index |-> rcommit])
      /\ pendingReads' = Append(pendingReads, [read |-> Head(readBatch), index |-> 0])
      /\ role = "leader" /\ committedInTerm
  BY DEF ReadAccepted, vars, raftVars, groupVars, answerVars
<1>2. Head(readBatch) \in ToSet(readBatch) /\ Head(readBatch) \in Reads
  BY AcceptedKeepsQueueInv
<1>3. PICK r \in Reads : r = Head(readBatch)
  BY <1>2
<1>4. ~hasAck(r)
  <2>1. r \notin given
    BY <1>2, <1>3 DEF GivenInv
  <2>2. PICK y : y = [kind |-> "ack", read |-> r]
    OBVIOUS
  <2>3. y.read = r
    BY <2>2
  <2>4. y \notin readNet
    BY <2>1, <2>3 DEF given
  <2>5. QED
    BY <2>2, <2>4 DEF hasAck
<1>5. gself => toldAt[r] <= rcommit
  <2>1. SUFFICES ASSUME gself PROVE toldAt[r] <= rcommit
    OBVIOUS
  <2>2. told <= rcommit \/ \A i \in 1 .. told : rlog[i].term < rterm
    BY <1>1, <2>1 DEF KnownInv
  <2>3. rlog[rcommit].term = rterm
    BY <1>0, <1>1 DEF committedInTerm
  <2>4. told <= rcommit
    <3>1. SUFFICES ASSUME ~(told <= rcommit) PROVE FALSE
      OBVIOUS
    <3>2. rcommit \in 1 .. told
      BY <1>0, <3>1
    <3>3. rlog[rcommit].term < rterm
      BY <2>2, <3>1, <3>2
    <3>4. QED
      BY <1>0, <2>3, <3>3
  <2>5. toldAt[r] <= told
    BY DEF KnownInv
  <2>6. QED
    BY <1>0, <2>4, <2>5
<1>6. PICK x \in ReadState : x = [read |-> r, index |-> rcommit]
  BY <1>0 DEF ReadState
<1>7. x.read = r /\ x.index = rcommit
  BY <1>6
<1>8. readOnly' = Append(readOnly, x)
  BY <1>1, <1>3, <1>6
<1>9. /\ Len(readOnly') = Len(readOnly) + 1 /\ DOMAIN readOnly' = 1 .. Len(readOnly) + 1
      /\ \A j \in 1 .. Len(readOnly) : readOnly'[j] = readOnly[j]
      /\ readOnly'[Len(readOnly) + 1] = x
  BY <1>0, <1>8, Appended
<1>11. ASSUME NEW i \in 1 .. Len(readOnly) + 1, acked(i)'
       PROVE  i \in 1 .. Len(readOnly) /\ acked(i)
  <2>1. PICK j \in i .. Len(readOnly') :
            [kind |-> "ack", read |-> readOnly'[j].read] \in readNet'
    BY <1>11 DEF acked, hasAck
  <2>2. hasAck(readOnly'[j].read)
    BY <1>1, <2>1 DEF hasAck
  <2>3. j # Len(readOnly) + 1
    BY <1>4, <1>7, <1>9, <2>2
  <2>4. j \in i .. Len(readOnly) /\ j \in 1 .. Len(readOnly) /\ i \in 1 .. Len(readOnly)
    BY <1>0, <1>9, <2>1, <2>3
  <2>5. hasAck(readOnly[j].read)
    BY <1>9, <2>2, <2>4
  <2>6. QED
    BY <2>4, <2>5 DEF acked
<1>12. ASSUME NEW i \in DOMAIN readOnly', gself' \/ acked(i)'
       PROVE  toldAt'[readOnly'[i].read] <= readOnly'[i].index
  <2>1. i \in 1 .. Len(readOnly) + 1
    BY <1>9, <1>12
  <2>2. CASE i \in 1 .. Len(readOnly)
    <3>1. gself \/ acked(i)
      BY <1>1, <1>11, <1>12, <2>1
    <3>2. toldAt[readOnly[i].read] <= readOnly[i].index
      BY <1>0, <2>2, <3>1 DEF CoverInv
    <3>3. QED
      BY <1>1, <1>9, <2>2, <3>2
  <2>3. CASE i = Len(readOnly) + 1
    <3>1. ~acked(i)'
      BY <1>0, <1>11, <2>1, <2>3
    <3>2. toldAt[r] <= rcommit
      BY <1>1, <1>5, <1>12, <3>1
    <3>3. QED
      BY <1>1, <1>7, <1>9, <2>3, <3>2
  <2>4. QED
    BY <1>0, <2>1, <2>2, <2>3
<1>13. settled' \in SUBSET settled
  <2>1. QueueOK(pendingReads, readyToRead)
    BY QueueInvParts
  <2>2. pendingReads \in Seq(ReadState) /\ readyToRead \in Nat /\ readyToRead <= Len(pendingReads)
    BY <2>1, QueueType DEF QueueOK
  <2>3. PICK z \in ReadState : z = [read |-> r, index |-> 0]
    BY DEF ReadState
  <2>4. pendingReads' = Append(pendingReads, z)
    BY <1>1, <1>3, <2>3
  <2>5. \A i \in 1 .. Len(pendingReads) : pendingReads'[i] = pendingReads[i]
    BY <2>2, <2>4, Appended
  <2>6. \A i \in 1 .. readyToRead : i \in 1 .. Len(pendingReads)
    BY <2>1, QueueType
  <2>7. \A i \in 1 .. readyToRead : pendingReads'[i] = pendingReads[i]
    BY <2>5, <2>6
  <2>8. QED
    BY <1>1, <2>7 DEF settled
<1>14. QED
  BY <1>1, <1>12, <1>13 DEF CoverInv

\* An acknowledgement confirms the reads up to the one it is for.
LEMMA AckKeepsCover ==
    ASSUME QueueInv, CoverInv, NEW r \in Reads, RecvReadAck(r)
    PROVE  CoverInv'
<1>0. /\ readOnly \in Seq(ReadState) /\ readStates \in Seq(ReadState)
      /\ DOMAIN readOnly = 1 .. Len(readOnly)
      /\ Len(readOnly) \in Nat /\ Len(readStates) \in Nat
  BY QueueInvParts
<1>1. /\ UNCHANGED <<pendingReads, readyToRead, toldAt, gself>>
      /\ hasAck(r) /\ readNet' \in SUBSET readNet
  BY DEF RecvReadAck, hasAck, loopReadVars, vars, raftVars, groupVars
<1>2. PICK i \in 1 .. Len(readOnly) :
          readOnly[i].read = r /\ Moves(ReadState, readStates, readOnly, readStates', readOnly', i)
  <2>1. readStates \in Seq(ReadState) /\ readOnly \in Seq(ReadState)
    BY <1>0
  <2>2. QED
    BY <2>1, AckMoves, Zenon
<1>3. /\ readStates' \in Seq(ReadState) /\ readOnly' \in Seq(ReadState)
      /\ Len(readOnly') = Len(readOnly) - i
      /\ \A j \in 1 .. Len(readOnly) - i :
            i + j \in 1 .. Len(readOnly) /\ readOnly'[j] = readOnly[i + j]
      /\ \A j \in 1 .. Len(readStates) : readStates'[j] = readStates[j]
      /\ \A j \in 1 .. Len(readStates') :
            j \notin 1 .. Len(readStates) =>
               \E k \in 1 .. i : j = Len(readStates) + k /\ readStates'[j] = readOnly[k]
  BY <1>2, Zenon DEF Moves
<1>4. DOMAIN readOnly' = 1 .. Len(readOnly')
  BY <1>3, LenProperties
<1>5. ASSUME NEW k \in 1 .. i
      PROVE  toldAt[readOnly[k].read] <= readOnly[k].index
  <2>1. k \in DOMAIN readOnly /\ i \in k .. Len(readOnly)
    BY <1>0, <1>2
  <2>2. acked(k)
    BY <1>1, <1>2, <2>1 DEF acked
  <2>3. QED
    BY <2>1, <2>2 DEF CoverInv
<1>6. \A x \in settled' : toldAt'[x.read] <= x.index
  <2>1. ASSUME NEW j \in 1 .. Len(readStates')
        PROVE  toldAt[readStates'[j].read] <= readStates'[j].index
    <3>1. CASE j \in 1 .. Len(readStates)
      <4>1. readStates'[j] \in settled
        BY <1>3, <3>1 DEF settled
      <4>2. QED
        BY <4>1 DEF CoverInv
    <3>2. CASE j \notin 1 .. Len(readStates)
      BY <1>3, <1>5, <3>2
    <3>3. QED
      BY <3>1, <3>2
  <2>2. ASSUME NEW j \in 1 .. readyToRead
        PROVE  toldAt[pendingReads[j].read] <= pendingReads[j].index
    <3>1. pendingReads[j] \in settled
      BY DEF settled
    <3>2. QED
      BY <3>1 DEF CoverInv
  <2>3. QED
    BY <1>1, <2>1, <2>2 DEF settled
<1>7. ASSUME NEW j \in 1 .. Len(readOnly'), acked(j)'
      PROVE  acked(i + j)
  <2>1. PICK k \in j .. Len(readOnly') :
            [kind |-> "ack", read |-> readOnly'[k].read] \in readNet'
    BY <1>7 DEF acked, hasAck
  <2>2. i + k \in i + j .. Len(readOnly) /\ k \in 1 .. Len(readOnly) - i
    BY <1>0, <1>2, <1>3, <1>7, <2>1
  <2>3. hasAck(readOnly[i + k].read)
    BY <1>1, <1>3, <2>1, <2>2 DEF hasAck
  <2>4. QED
    BY <2>2, <2>3 DEF acked
<1>8. ASSUME NEW j \in DOMAIN readOnly', gself' \/ acked(j)'
      PROVE  toldAt'[readOnly'[j].read] <= readOnly'[j].index
  <2>1. j \in 1 .. Len(readOnly')
    BY <1>4, <1>8
  <2>2. gself \/ acked(i + j)
    BY <1>1, <1>7, <1>8, <2>1
  <2>3. i + j \in DOMAIN readOnly /\ readOnly'[j] = readOnly[i + j]
    BY <1>0, <1>3, <2>1
  <2>4. QED
    BY <1>1, <2>2, <2>3 DEF CoverInv
<1>9. \A m \in readNet' : m.kind = "resp" => toldAt'[m.read] <= m.index
  BY <1>1 DEF CoverInv
<1>10. QED
  BY <1>6, <1>8, <1>9 DEF CoverInv

\* The steps of raft's side of the protocol: the leader another replica elected
\* answers with all that is chosen, and a quorum acknowledges only reads of the
\* newest leader, whose index covers what is known.
LEMMA RaftReadKeepsCover ==
    ASSUME TypeInv, QueueInv, KnownInv, CoverInv, RaftRead
    PROVE  CoverInv'
<1>0. /\ gcommit \in Nat /\ told \in Nat /\ toldAt \in [Reads -> Nat]
      /\ \A r \in Reads : toldAt[r] <= gcommit
  <2>1. gcommit \in Nat /\ told \in Nat /\ toldAt \in [Reads -> Nat]
    BY DEF TypeInv, RaftInv, RaftTypeOK, QueueInv, ReadTypeOK
  <2>2. told <= gcommit /\ \A r \in Reads : toldAt[r] <= told
    BY DEF KnownInv
  <2>3. QED
    BY <2>1, <2>2
<1>1. UNCHANGED <<pendingReads, readyToRead, toldAt, gself>>
  BY DEF RaftRead, SendReadAck, RecvReadAck, AnswerForwarded, RecvReadIndexResp, loopReadVars,
     vars, raftVars, groupVars
<1>2. CASE \E r \in Reads : SendReadAck(r)
  <2>1. PICK r \in Reads : SendReadAck(r)
    BY <1>2
  <2>2. PICK y : y = [kind |-> "ack", read |-> r]
    OBVIOUS
  <2>3. y.kind = "ack"
    BY <2>2
  <2>4. readNet' = readNet \cup {y} /\ UNCHANGED <<readOnly, readStates>> /\ gself
    BY <2>1, <2>2 DEF SendReadAck
  <2>5. \A m \in readNet' : m.kind = "resp" => toldAt'[m.read] <= m.index
    BY <1>1, <2>3, <2>4 DEF CoverInv
  <2>6. settled' = settled
    BY <1>1, <2>4 DEF settled
  <2>7. \A i \in DOMAIN readOnly : toldAt[readOnly[i].read] <= readOnly[i].index
    BY <2>4 DEF CoverInv
  <2>8. QED
    BY <1>1, <2>4, <2>5, <2>6, <2>7 DEF CoverInv
<1>3. CASE \E r \in Reads : RecvReadAck(r)
  BY <1>3, AckKeepsCover
<1>4. CASE \E r \in Reads : AnswerForwarded(r)
  <2>1. PICK r \in Reads : AnswerForwarded(r)
    BY <1>4
  <2>2. PICK y : y = [kind |-> "resp", read |-> r, index |-> gcommit, term |-> gterm]
    OBVIOUS
  <2>3. y.kind = "resp" /\ y.read = r /\ y.index = gcommit
    BY <2>2
  <2>4. /\ readNet' \in SUBSET (readNet \cup {y}) /\ UNCHANGED <<readOnly, readStates>>
    BY <2>1, <2>2 DEF AnswerForwarded
  <2>5. \A m \in readNet' : m.kind = "resp" => toldAt'[m.read] <= m.index
    BY <1>0, <1>1, <2>3, <2>4 DEF CoverInv
  <2>6. settled' = settled
    BY <1>1, <2>4 DEF settled
  <2>7. ASSUME NEW i \in DOMAIN readOnly, acked(i)' PROVE acked(i)
    <3>1. PICK k \in i .. Len(readOnly) : [kind |-> "ack", read |-> readOnly[k].read] \in readNet'
      BY <2>4, <2>7 DEF acked, hasAck
    <3>2. PICK z : z = [kind |-> "ack", read |-> readOnly[k].read]
      OBVIOUS
    <3>3. z.kind = "ack"
      BY <3>2
    <3>4. z \in readNet
      BY <2>3, <2>4, <3>1, <3>2, <3>3
    <3>5. QED
      BY <3>1, <3>2, <3>4 DEF acked, hasAck
  <2>8. \A i \in DOMAIN readOnly' :
            (gself' \/ acked(i)') => toldAt'[readOnly'[i].read] <= readOnly'[i].index
    BY <1>1, <2>4, <2>7 DEF CoverInv
  <2>9. QED
    BY <1>1, <2>5, <2>6, <2>8 DEF CoverInv
<1>5. CASE RecvReadIndexResp
  <2>1. PICK m \in readNet :
           /\ m.kind = "resp"
           /\ readStates' = Append(readStates, [read |-> m.read, index |-> m.index])
           /\ readNet' = readNet \ {m}
    BY <1>5 DEF RecvReadIndexResp
  <2>2. UNCHANGED readOnly
    BY <1>5 DEF RecvReadIndexResp
  <2>3. m.read \in Reads /\ m.index \in Nat
    BY <2>1 DEF QueueInv, ReadTypeOK, ReadMsg
  <2>4. PICK x \in ReadState : x = [read |-> m.read, index |-> m.index]
    BY <2>3 DEF ReadState
  <2>5. x.read = m.read /\ x.index = m.index
    BY <2>4
  <2>6. readStates \in Seq(ReadState) /\ readStates' = Append(readStates, x)
    BY <2>1, <2>4, QueueInvParts
  <2>7. /\ Len(readStates') = Len(readStates) + 1 /\ Len(readStates) \in Nat
        /\ \A j \in 1 .. Len(readStates) : readStates'[j] = readStates[j]
        /\ readStates'[Len(readStates) + 1] = x
    BY <2>6, Appended, QueueInvParts
  <2>8. toldAt[x.read] <= x.index
    BY <2>1, <2>5 DEF CoverInv
  <2>9. settled' \in SUBSET (settled \cup {x})
    <3>1. \A j \in 1 .. Len(readStates') : readStates'[j] \in settled \cup {x}
      BY <2>7 DEF settled
    <3>2. \A j \in 1 .. readyToRead : pendingReads[j] \in settled
      BY DEF settled
    <3>3. QED
      BY <1>1, <3>1, <3>2 DEF settled
  <2>10. \A y \in settled' : toldAt'[y.read] <= y.index
    BY <1>1, <2>8, <2>9 DEF CoverInv
  <2>11. \A y \in readNet' : y.kind = "resp" => toldAt'[y.read] <= y.index
    BY <1>1, <2>1 DEF CoverInv
  <2>12. \A i : acked(i)' => acked(i)
    BY <2>1, <2>2 DEF acked, hasAck
  <2>13. \A i \in DOMAIN readOnly' :
            (gself' \/ acked(i)') => toldAt'[readOnly'[i].read] <= readOnly'[i].index
    BY <1>1, <2>2, <2>12 DEF CoverInv
  <2>14. QED
    BY <2>10, <2>11, <2>13 DEF CoverInv
<1>6. QED
  BY <1>2, <1>3, <1>4, <1>5 DEF RaftRead

\* Steps that leave raft's messages alone.
LEMMA CoverStays ==
    ASSUME CoverInv, toldAt' = toldAt, settled' \in SUBSET settled, readNet' = readNet,
           readOnly' = <<>> \/ (readOnly' = readOnly /\ (gself' => gself))
    PROVE  CoverInv'
<1>1. \A r : hasAck(r)' => hasAck(r)
  BY DEF hasAck
<1>2. \A m \in readNet' : m.kind = "resp" => m \in readNet
  OBVIOUS
<1>3. QED
  BY <1>1, <1>2, CoverFrame, Zenon

LEMMA NextKeepsCover ==
    ASSUME TypeInv, TypeInv', QueueInv, GivenInv, KnownInv, CoverInv,
           [ReadNext]_<<vars, readVars>>
    PROVE  CoverInv'
<1>1. CASE \E r \in Reads : SubmitRead(r)
  BY <1>1, SubmitKeepsCover
<1>2. CASE ReadAccepted
  BY <1>2, AcceptedKeepsCover
<1>3. CASE RaftRead
  BY <1>3, RaftReadKeepsCover
<1>4. CASE ReadForwarded
  <2>1. PICK y : y = [kind |-> "readIndex", read |-> Head(readBatch)]
    OBVIOUS
  <2>2. y.kind = "readIndex"
    BY <2>1
  <2>3. /\ UNCHANGED <<pendingReads, readyToRead, readOnly, readStates, toldAt, gself>>
        /\ readNet' = readNet \cup {y}
    BY <1>4, <2>1 DEF ReadForwarded, vars, raftVars, groupVars
  <2>4. settled' \in SUBSET settled
    BY <2>3 DEF settled
  <2>5. \A m \in readNet' : m.kind = "resp" => m \in readNet
    BY <2>2, <2>3
  <2>6. \A r : hasAck(r)' => hasAck(r)
    <3>1. SUFFICES ASSUME NEW r, [kind |-> "ack", read |-> r] \in readNet'
                   PROVE  [kind |-> "ack", read |-> r] \in readNet
      BY DEF hasAck
    <3>2. PICK z : z = [kind |-> "ack", read |-> r]
      OBVIOUS
    <3>3. z.kind = "ack"
      BY <3>2
    <3>4. QED
      BY <2>2, <2>3, <3>1, <3>2, <3>3
  <2>7. readOnly' = readOnly /\ (gself' => gself) /\ toldAt' = toldAt
    BY <2>3
  <2>8. QED
    BY <2>4, <2>5, <2>6, <2>7, CoverFrame, Zenon
<1>5. CASE Serving
  <2>1. /\ UNCHANGED <<readOnly, readNet, toldAt, gself>>
        /\ readStates' \in {readStates, <<>>}
    BY <1>5, ServingMeans
  <2>2. \A i \in 1 .. readyToRead' : pendingReads'[i] \in settled
    <3>1. PICK S, T, a, d : Served(S, T, a, d)
      BY <1>5, ServingMeans
    <3>2. QED
      BY <3>1, Zenon DEF Served
  <2>3. \A i \in 1 .. Len(readStates') : readStates'[i] \in settled
    <3>1. CASE readStates' = readStates
      BY <3>1 DEF settled
    <3>2. CASE readStates' = <<>>
      BY <3>2
    <3>3. QED
      BY <2>1, <3>1, <3>2
  <2>4. settled' \in SUBSET settled
    <3>1. settled' = {pendingReads'[i] : i \in 1 .. readyToRead'}
                     \cup {readStates'[i] : i \in 1 .. Len(readStates')}
      BY DEF settled
    <3>2. QED
      BY <2>2, <2>3, <3>1
  <2>5. readOnly' = readOnly /\ readNet' = readNet /\ toldAt' = toldAt /\ (gself' => gself)
    BY <2>1
  <2>6. QED
    BY <2>4, <2>5, CoverStays, Zenon
<1>6. CASE \/ StopWithReads \/ RequestWithReads \/ ReadRefused \/ ApplyWithReads
           \/ StepWithReads \/ GroupWithReads \/ Quiet
  <2>1. UNCHANGED <<pendingReads, readyToRead, readStates, readNet, toldAt>>
    <3>1. CASE Quiet
      BY <3>1, QuietMeans
    <3>2. CASE ~Quiet
      BY <1>6, <3>2 DEF StopWithReads, RequestWithReads, ReadRefused, ApplyWithReads,
         StepWithReads, GroupWithReads, loopReadVars, raftReadVars
    <3>3. QED
      BY <3>1, <3>2
  <2>2. settled' \in SUBSET settled
    BY <2>1 DEF settled
  <2>3. readOnly' = <<>> \/ (readOnly' = readOnly /\ (gself' => gself))
    <3>1. CASE Quiet
      BY <3>1, QuietMeans
    <3>2. CASE StepWithReads
      <4>1. CASE role = "leader" /\ role' = "leader"
        <5>1. readOnly' = readOnly
          BY <3>2, <4>1 DEF StepWithReads, resetReadOnly
        <5>2. gself' = gself
          BY <3>2, <4>1 DEF StepWithReads, HandleStep, Campaign, Win, StepDown, FollowLeader,
             LearnCommit, RecvProp, RecvSnapshot, groupVars
        <5>3. QED
          BY <5>1, <5>2
      <4>2. CASE ~(role = "leader" /\ role' = "leader")
        BY <3>2, <4>2 DEF StepWithReads, resetReadOnly
      <4>3. QED
        BY <4>1, <4>2
    <3>3. CASE GroupWithReads
      <4>1. readOnly' = readOnly
        BY <3>3 DEF GroupWithReads, raftReadVars
      <4>2. gself' => gself
        BY <3>3 DEF GroupWithReads, Group, GroupNext, OtherElected, OtherAppend,
           OtherAppendForwarded, GroupCommit, SnapshotFileArrives, nodeVars, groupVars
      <4>3. QED
        BY <4>1, <4>2
    <3>4. CASE StopWithReads \/ RequestWithReads \/ ReadRefused \/ ApplyWithReads
      <4>1. readOnly' = readOnly
        BY <3>4 DEF StopWithReads, RequestWithReads, ReadRefused, ApplyWithReads, raftReadVars
      <4>2. UNCHANGED raftVars
        BY <3>4 DEF StopWithReads, LoopStop, RequestWithReads, HandleRequest, ReadRefused,
           ApplyWithReads, DoApplyCommittedEntries, vars
      <4>3. QED
        BY <4>1, <4>2 DEF raftVars, groupVars
    <3>5. QED
      BY <1>6, <3>1, <3>2, <3>3, <3>4
  <2>4. QED
    BY <2>1, <2>2, <2>3, CoverStays
<1>7. QED
  BY <1>1, <1>2, <1>3, <1>4, <1>5, <1>6, ReadCases DEF Serving

----------------------------------------------------------------------------
(* Linearizability.                                                        *)

LinearInv ==
    /\ PipelineInv /\ OrderInv
    /\ GrowsInv /\ FreshInv /\ TickInv /\ LogTermsInv /\ KnownInv /\ CoverInv /\ SeenInv

LEMMA InitLinearInv == ReadInit => LinearInv
<1>1. SUFFICES ASSUME ReadInit PROVE LinearInv
  OBVIOUS
<1>2. /\ Init /\ pendingReads = <<>> /\ readyToRead = 0
      /\ readOnly = <<>> /\ readStates = <<>> /\ readNet = {} /\ told = 0
      /\ toldAt = [r \in Reads |-> 0] /\ readReplies = [r \in Reads |-> <<>>]
  BY <1>1 DEF ReadInit
<1>3. /\ role = "follower" /\ glog = <<>> /\ rlog = <<>> /\ gcommit = 0 /\ gterm = 0
      /\ jobs = <<registrationJob(0, 0)>> /\ psApplied = 0 /\ results = <<>> /\ data = <<>>
      /\ stopRaftTick = FALSE
  BY <1>2 DEF Init, RaftInit
<1>4. PipelineInv
  BY <1>2, InitPipelineInv
<1>5. OrderInv
  BY <1>1, InitOrderInv
<1>6. after(gshards, 0).data = <<>> /\ DOMAIN <<>> = {}
  BY DEF after, NewShard
<1>7. Extends(<<>>, <<>>)
  BY <1>6 DEF Extends
<1>8. GrowsInv
  <2>1. \A j \in 0 .. 0 : j = 0
    OBVIOUS
  <2>2. QED
    BY <1>3, <1>6, <1>7, <2>1 DEF GrowsInv
<1>9. FreshInv
  <2>1. Len(results) = 0
    BY <1>3
  <2>2. FreshAt(0)
    BY <1>3, <1>6, <2>1 DEF FreshAt
  <2>3. QED
    BY <1>3, <2>2 DEF FreshInv
<1>10. LogTermsInv
  BY <1>3 DEF LogTermsInv, TermsUpTo
<1>11. KnownInv
  BY <1>2, <1>3 DEF KnownInv
<1>12. CoverInv
  <2>1. settled = {}
    BY <1>2 DEF settled
  <2>2. DOMAIN readOnly = {}
    BY <1>2
  <2>3. QED
    BY <1>2, <2>1, <2>2 DEF CoverInv
<1>13. SeenInv
  <2>1. \A r \in Reads : ~isOk(r)
    BY <1>2 DEF isOk, ToSet
  <2>2. QED
    BY <2>1 DEF SeenInv
<1>14. TickInv
  BY <1>3 DEF TickInv
<1>15. QED
  BY <1>4, <1>5, <1>8, <1>9, <1>10, <1>11, <1>12, <1>13, <1>14 DEF LinearInv

LEMMA NextKeepsLinearInv ==
    ASSUME LinearInv, [ReadNext]_<<vars, readVars>>
    PROVE  LinearInv'
<1>1. /\ PipelineInv /\ OrderInv
      /\ GrowsInv /\ FreshInv /\ TickInv /\ LogTermsInv /\ KnownInv /\ CoverInv /\ SeenInv
  BY DEF LinearInv
<1>2. [Next]_vars
  BY ReadNextIsNext
<1>3. PipelineInv'
  BY <1>1, <1>2, NextKeepsPipelineInv
<1>4. OrderInv'
  BY <1>1, NextKeepsOrderInv
<1>5. TypeInv /\ QueueInv /\ GivenInv /\ RoundInv /\ TypeInv' /\ QueueInv'
  BY <1>1, <1>4 DEF OrderInv
<1>6. LogInv /\ LogInv'
  BY <1>1, <1>3 DEF PipelineInv, LogsInv
<1>7. GrowsInv'
  BY <1>1, <1>2, <1>3, NextKeepsGrows
<1>8. FreshInv'
  BY <1>1, <1>2, <1>3, NextKeepsFresh
<1>9. LogTermsInv'
  BY <1>1, <1>2, <1>5, NextKeepsLogTerms
<1>10. KnownInv'
  BY <1>1, <1>5, <1>6, NextKeepsKnown
<1>11. CoverInv'
  BY <1>1, <1>5, NextKeepsCover
<1>12. SeenInv'
  BY <1>1, <1>3, <1>5, NextKeepsSeen
<1>13. TickInv'
  BY <1>1, <1>5, NextKeepsTick
<1>14. QED
  BY <1>3, <1>4, <1>7, <1>8, <1>9, <1>10, <1>11, <1>12, <1>13 DEF LinearInv

\* One sequence begins with another that it extends.
LEMMA ExtendsIsPrefix ==
    ASSUME NEW V, NEW s \in Seq(V), NEW t \in Seq(V), Extends(s, t)
    PROVE  IsPrefix(s, t)
<1>1. /\ Len(s) \in Nat /\ Len(t) \in Nat
      /\ DOMAIN s = 1 .. Len(s) /\ DOMAIN t = 1 .. Len(t)
  BY LenProperties
<1>2. \A i \in 1 .. Len(s) : i \in 1 .. Len(t) /\ t[i] = s[i]
  BY <1>1 DEF Extends
<1>3. Len(s) <= Len(t)
  <2>1. CASE Len(s) = 0
    BY <1>1, <2>1
  <2>2. CASE Len(s) # 0
    <3>1. Len(s) \in 1 .. Len(s)
      BY <1>1, <2>2
    <3>2. Len(s) \in 1 .. Len(t)
      BY <1>2, <3>1
    <3>3. QED
      BY <1>1, <3>2
  <2>3. QED
    BY <2>1, <2>2
<1>4. SubSeq(s, 1, Len(s)) = SubSeq(t, 1, Len(s))
  <2>1. /\ SubSeq(s, 1, Len(s)) \in Seq(V) /\ Len(SubSeq(s, 1, Len(s))) = Len(s)
        /\ \A i \in 1 .. Len(s) : SubSeq(s, 1, Len(s))[i] = s[i]
    BY <1>1, PrefixType
  <2>2. /\ SubSeq(t, 1, Len(s)) \in Seq(V) /\ Len(SubSeq(t, 1, Len(s))) = Len(s)
        /\ \A i \in 1 .. Len(s) : SubSeq(t, 1, Len(s))[i] = t[i]
    BY <1>1, <1>3, PrefixType
  <2>3. QED
    BY <1>2, <2>1, <2>2, SeqEqual
<1>5. QED
  BY <1>3, <1>4 DEF IsPrefix

LEMMA LinearInvGivesSeen == LinearInv => ReadSeesTold
<1>1. SUFFICES ASSUME LinearInv, NEW r \in Reads \ overtaken,
                      "ok" \in ToSet(readReplies[r])
               PROVE  IsPrefix(shardAt(toldAt[r]).data, readSeen[r])
  BY DEF ReadSeesTold
<1>2. TypeInv /\ QueueInv /\ KnownInv /\ SeenInv
  BY <1>1 DEF LinearInv, OrderInv
<1>3. toldAt[r] \in 0 .. gcommit
  <2>1. gcommit \in Nat /\ told \in Nat /\ toldAt[r] \in Nat
    BY <1>2 DEF TypeInv, RaftInv, RaftTypeOK, QueueInv, ReadTypeOK
  <2>2. told <= gcommit /\ toldAt[r] <= told
    BY <1>2 DEF KnownInv
  <2>3. QED
    BY <2>1, <2>2
<1>4. Extends(after(gshards, toldAt[r]).data, readSeen[r])
  BY <1>1, <1>2 DEF SeenInv, isOk
<1>5. /\ after(gshards, toldAt[r]) = shardAt(toldAt[r])
      /\ after(gshards, toldAt[r]).data \in Seq(Cmds \cup Others)
  BY <1>2, <1>3, AfterType
<1>6. readSeen[r] \in Seq(Cmds \cup Others)
  BY <1>2 DEF QueueInv, ReadTypeOK
<1>7. IsPrefix(after(gshards, toldAt[r]).data, readSeen[r])
  BY <1>4, <1>5, <1>6, ExtendsIsPrefix
<1>8. QED
  BY <1>5, <1>7

\* Reads are linearizable.  One that is answered saw every write that a client
\* could know of when the read came in: the commit index that raft noted for it
\* in execReadIndex covers that once a quorum has confirmed the leader, and
\* readIndexQueue executes it only when that index is applied, on data that are
\* at least as new (doApplyReads, maybeExecRead).  A snapshot that failed does
\* not break it: the replica does not campaign until another is applied.
THEOREM ReadsAreLinearizable == ReadSpec => []ReadSeesTold
<1>1. LinearInv /\ [ReadNext]_<<vars, readVars>> => LinearInv'
  BY NextKeepsLinearInv
<1>2. QED
  BY InitLinearInv, LinearInvGivesSeen, <1>1, PTL DEF ReadSpec
=============================================================================
