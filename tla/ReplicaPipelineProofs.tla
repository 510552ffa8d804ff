----------------------- MODULE ReplicaPipelineProofs -----------------------
(***************************************************************************)
(* Theorems about ReplicaPipeline, for every set of commands and every     *)
(* bound.                                                                  *)
(***************************************************************************)
EXTENDS ReplicaPipeline, SequenceTheorems, TLAPS

----------------------------------------------------------------------------
(* The raft group: types, and the order of its indexes.                    *)

\* What the pipeline needs of raft: a commit index within the log, a snapshot
\* of chosen entries, a history that covers them, and a leader whose log goes
\* as far as what it sent.
RaftInv ==
    /\ RaftTypeOK
    /\ Len(gshards) = gcommit
    /\ gcommit <= Len(glog)
    /\ rcommit <= Len(rlog)
    /\ snapPend <= gcommit
    /\ gself /\ role = "leader" => Len(glog) <= Len(rlog)

\* Applying an entry to a shard gives a shard.
LEMMA ExecEntryType ==
    ASSUME NEW s \in Shard, NEW e \in Entry
    PROVE  execEntry(s, e) \in Shard
BY CommandsAssumption DEF execEntry, doExecSplit, execWriteRequest, checkEpoch, Shard, Entry

\* The history of the group holds a shard for every chosen index.
LEMMA ShardAtType ==
    ASSUME RaftTypeOK, NEW k \in Nat, k <= Len(gshards)
    PROVE  shardAt(k) \in Shard
<1>1. NewShard \in Shard
  <2>1. <<>> \in Seq(Cmds \cup Others)
    OBVIOUS
  <2>2. QED
    BY <2>1 DEF NewShard, Shard
<1>2. CASE k # 0
  <2>1. gshards[k] \in Shard
    BY <1>2 DEF RaftTypeOK
  <2>2. QED
    BY <1>2, <2>1 DEF shardAt
<1>3. QED
  BY <1>1, <1>2 DEF shardAt

\* A prefix of a log is a log of that length.
LEMMA PrefixType ==
    ASSUME NEW S, NEW log \in Seq(S), NEW n \in 0 .. Len(log)
    PROVE  SubSeq(log, 1, n) \in Seq(S) /\ Len(SubSeq(log, 1, n)) = n
OBVIOUS

\* The last element of a sequence is one of its elements.
LEMMA LastInSet ==
    ASSUME NEW S, NEW s \in Seq(S), s # <<>>
    PROVE  s[Len(s)] \in S
<1>1. Len(s) \in Nat /\ Len(s) # 0
  BY EmptySeq, LenProperties
<1>2. QED
  BY <1>1, ElementOfSeq

\* A step of the rest of the group keeps RaftInv.
LEMMA GroupKeepsRaftInv ==
    ASSUME RaftInv, GroupNext
    PROVE  RaftInv'
<1> USE MaxTermAssumption DEF RaftInv, RaftTypeOK, groupVars, nodeVars
<1>1. CASE OtherElected
  <2>1. PICK t \in gterm + 1 .. MaxTerm, base \in {glog, rlog} :
           \E n \in gcommit .. Len(base) :
              /\ glog' = Append(SubSeq(base, 1, n), EmptyEntry(t))
              /\ gterm' = t
    BY <1>1 DEF OtherElected
  <2>2. PICK n \in gcommit .. Len(base) :
              /\ glog' = Append(SubSeq(base, 1, n), EmptyEntry(t))
              /\ gterm' = t
    BY <2>1
  <2>3. EmptyEntry(t) \in Entry
    BY DEF EmptyEntry, Entry
  <2>4. SubSeq(base, 1, n) \in Seq(Entry) /\ Len(SubSeq(base, 1, n)) = n
    BY PrefixType
  <2>5. glog' \in Seq(Entry) /\ gcommit <= Len(glog')
    <3>1. gcommit \in Nat /\ n >= gcommit
      BY <2>2
    <3> DEFINE base0 == SubSeq(base, 1, n)
    <3>2. glog' = Append(base0, EmptyEntry(t))
      BY <2>2
    <3>3. glog' \in Seq(Entry) /\ Len(glog') = Len(base0) + 1
      BY <2>3, <2>4, <3>2, AppendProperties
    <3>4. QED
      BY <2>4, <3>1, <3>3
  <2>6. gterm' \in Nat
    BY <2>2
  <2>7. gself' \in BOOLEAN /\ ~gself'
    BY <1>1, Zenon DEF OtherElected
  <2>8. UNCHANGED <<gcommit, gshards, net, nodeVars>>
    BY <1>1 DEF OtherElected
  <2>9. QED
    BY <2>5, <2>6, <2>7, <2>8
<1>2. CASE OtherAppend
  <2>1. shardAt(gcommit) \in Shard
    BY ShardAtType
  <2>2. QED
    BY <1>2, <2>1 DEF OtherAppend, Entry, Shard
<1>3. CASE OtherAppendForwarded
  BY <1>3 DEF OtherAppendForwarded, Entry
<1>4. CASE GroupCommit
  <2>1. gcommit + 1 \in 1 .. Len(glog)
    BY <1>4 DEF GroupCommit
  <2>2. execEntry(shardAt(gcommit), glog[gcommit + 1]) \in Shard
    BY <2>1, ShardAtType, ExecEntryType
  <2>3. QED
    BY <1>4, <2>1, <2>2 DEF GroupCommit
<1>5. CASE SnapshotFileArrives
  BY <1>5 DEF SnapshotFileArrives
<1>6. QED
  BY <1>1, <1>2, <1>3, <1>4, <1>5 DEF GroupNext

\* A step of this replica's RawNode keeps RaftInv.
LEMMA HandleStepKeepsRaftInv ==
    ASSUME RaftInv, HandleStep
    PROVE  RaftInv'
<1> USE DEF RaftInv, RaftTypeOK, groupVars
<1>1. CASE Campaign
  <2>1. asked' \in BOOLEAN
    BY <1>1, Zenon DEF Campaign
  <2>2. QED
    BY <1>1, <2>1 DEF Campaign
<1>2. CASE Win
  <2>1. EmptyEntry(rterm) \in Entry
    BY DEF EmptyEntry, Entry
  <2>2. gcommit <= Len(rlog)
    <3>1. Len(chosen) = gcommit
      BY PrefixType DEF chosen
    <3>2. QED
      BY <1>2, <3>1 DEF Win, IsPrefix
  <2>3. QED
    BY <1>2, <2>1, <2>2 DEF Win
<1>3. CASE StepDown
  BY <1>3 DEF StepDown
<1>4. CASE FollowLeader
  <2>1. PICK n \in rcommit .. Len(glog) :
          /\ rlog' = IF IsPrefix(SubSeq(glog, 1, n), rlog)
                     THEN rlog ELSE SubSeq(glog, 1, n)
          /\ rcommit' \in {rcommit} \cup
                          (IF n < gcommit THEN rcommit .. n ELSE rcommit .. gcommit)
    BY <1>4 DEF FollowLeader
  <2>2. SubSeq(glog, 1, n) \in Seq(Entry) /\ Len(SubSeq(glog, 1, n)) = n
    BY PrefixType
  <2>3. n <= Len(rlog')
    BY <2>1, <2>2 DEF IsPrefix
  <2>4. rlog' \in Seq(Entry)
    BY <2>1, <2>2
  <2>5. rcommit' \in Nat /\ rcommit' <= n
    BY <2>1
  <2>6. QED
    BY <1>4, <2>3, <2>4, <2>5 DEF FollowLeader
<1>5. CASE LearnCommit
  BY <1>5 DEF LearnCommit
<1>6. CASE RecvProp
  <2>1. shardAt(gcommit) \in Shard
    BY ShardAtType
  <2>2. QED
    BY <1>6, <2>1 DEF RecvProp, Entry, Shard
<1>7. CASE RecvSnapshot
  <2>1. PICK k \in rcommit + 1 .. gcommit :
          rlog' = SubSeq(glog, 1, k) /\ rcommit' = k /\ snapPend' = k
    BY <1>7 DEF RecvSnapshot
  <2>2. SubSeq(glog, 1, k) \in Seq(Entry) /\ Len(SubSeq(glog, 1, k)) = k
    BY PrefixType
  <2>3. QED
    BY <1>7, <2>1, <2>2 DEF RecvSnapshot
<1>8. QED
  BY <1>1, <1>2, <1>3, <1>4, <1>5, <1>6, <1>7 DEF HandleStep

----------------------------------------------------------------------------
(* Types of the pipeline.                                                  *)

TypeInv == TypeOK /\ RaftInv

\* Invoking callbacks keeps the type of replies.
LEMMA RespType ==
    ASSUME replies \in [Cmds -> Seq(Answers)], NEW c \in Cmds, NEW a \in Answers
    PROVE  resp(c, a) \in [Cmds -> Seq(Answers)]
BY DEF resp

LEMMA RespAllType ==
    ASSUME replies \in [Cmds -> Seq(Answers)], NEW S, NEW a \in Answers
    PROVE  respAll(S, a) \in [Cmds -> Seq(Answers)]
BY DEF respAll

LEMMA RespAllAndType ==
    ASSUME replies \in [Cmds -> Seq(Answers)],
           NEW S, NEW a \in Answers, NEW c, NEW b \in Answers
    PROVE  respAllAnd(S, a, c, b) \in [Cmds -> Seq(Answers)]
<1>1. \A d \in Cmds : Append(replies[d], a) \in Seq(Answers)
  OBVIOUS
<1>2. \A d \in Cmds : Append(replies[d], b) \in Seq(Answers)
  OBVIOUS
<1>3. QED
  BY <1>1, <1>2 DEF respAllAnd

LEMMA AnswersType ==
    /\ "ok" \in Answers /\ "epoch" \in Answers /\ "notLeader" \in Answers
    /\ "rejected" \in Answers /\ "stale" \in Answers
    /\ "shardNotFound" \in Answers /\ "storeNotMatch" \in Answers
BY DEF Answers

LEMMA InitTypeInv == Init => TypeInv
<1> SUFFICES ASSUME Init PROVE TypeInv
  OBVIOUS
<1>1. registrationJob(0, 0) \in Job
  BY DEF registrationJob, Job
<1>2. jobs \in Seq(Job)
  BY <1>1 DEF Init
<1>3. RaftInv
  <2>1. gself \in BOOLEAN /\ ~gself /\ asked \in BOOLEAN /\ snapFile \in BOOLEAN
    BY Zenon DEF Init, RaftInit
  <2>2. glog = <<>> /\ rlog = <<>> /\ gshards = <<>>
    BY DEF Init, RaftInit
  <2>3. Len(glog) = 0 /\ Len(rlog) = 0 /\ Len(gshards) = 0
    BY <2>2
  <2>4. RaftTypeOK
    BY <2>1, <2>2 DEF Init, RaftInit, RaftTypeOK
  <2>5. QED
    BY <2>1, <2>3, <2>4 DEF Init, RaftInit, RaftInv
<1>4. replies \in [Cmds -> Seq(Answers)]
  BY DEF Init
<1>5. /\ stopRaftTick \in BOOLEAN /\ registered \in BOOLEAN /\ live \in BOOLEAN
      /\ disposed \in BOOLEAN /\ stopped \in BOOLEAN /\ fatal \in BOOLEAN
  BY Zenon DEF Init
<1>6. QED
  BY <1>2, <1>3, <1>4, <1>5 DEF Init, RaftInv, TypeInv, TypeOK

\* Steps of the event worker.
LEMMA LoopKeepsTypes ==
    ASSUME TypeInv, Loop
    PROVE  TypeInv'
<1> USE DEF TypeInv, TypeOK
<1>1. CASE LoopStart
  <2>1. RaftInv'
    BY <1>1 DEF LoopStart, RaftInv, RaftTypeOK, raftVars, groupVars, nodeVars
  <2>2. QED
    BY <1>1, <2>1 DEF LoopStart, cacheRaftStatus, RaftInv, RaftTypeOK, psVars,
                     delegateVars, lifeVars, clientVars
<1>2. CASE LoopStop
  <2>1. RaftInv'
    BY <1>2 DEF LoopStop, RaftInv, RaftTypeOK, raftVars, groupVars, nodeVars
  <2>2. replies' \in [Cmds -> Seq(Answers)]
    BY <1>2, RespAllType, AnswersType DEF LoopStop
  <2>3. stopped' \in BOOLEAN
    BY <1>2, Zenon DEF LoopStop
  <2>4. requests' \in Seq(Cmds) /\ batch' \in Seq(Header)
        /\ results' \in Seq([applied : Nat, epoch : Nat])
    BY <1>2 DEF LoopStop
  <2>5. QED
    BY <1>2, <2>1, <2>2, <2>3, <2>4 DEF LoopStop, RaftInv, psVars, delegateVars
<1>3. CASE HandleApplyResult
  <2>1. RaftInv'
    BY <1>3 DEF HandleApplyResult, RaftInv, RaftTypeOK, raftVars, groupVars, nodeVars
  <2>2. psApplied' \in Nat /\ psEpoch' \in Nat
    <3>1. results # <<>> => results[Len(results)] \in [applied : Nat, epoch : Nat]
      BY LastInSet
    <3>2. QED
      BY <1>3, <3>1 DEF HandleApplyResult
  <2>3. fatal' \in BOOLEAN
    BY <1>3, Zenon DEF HandleApplyResult
  <2>4. QED
    BY <1>3, <2>1, <2>2, <2>3 DEF HandleApplyResult, RaftInv, delegateVars, lifeVars, clientVars
<1>4. CASE HandleRequest
  <2>1. RaftInv'
    BY <1>4 DEF HandleRequest, RaftInv, RaftTypeOK, raftVars, groupVars, nodeVars
  <2>2. [i \in DOMAIN requests |-> [cmd |-> requests[i], epoch |-> psEpoch]] \in Seq(Header)
    <3>1. \A i \in 1 .. Len(requests) : requests[i] \in Cmds
      OBVIOUS
    <3>2. \A i \in 1 .. Len(requests) :
             [cmd |-> requests[i], epoch |-> psEpoch] \in Header
      BY <3>1 DEF Header
    <3>3. DOMAIN requests = 1 .. Len(requests) /\ Len(requests) \in Nat
      OBVIOUS
    <3>4. QED
      BY <3>2, <3>3, IsASeq
  <2>3. batch' \in Seq(Header)
    BY <1>4, <2>2, ConcatProperties DEF HandleRequest
  <2>4. QED
    BY <1>4, <2>1, <2>3 DEF HandleRequest, RaftInv, psVars, delegateVars, lifeVars, clientVars
<1>5. CASE ProposeRefused
  <2>1. RaftInv'
    BY <1>5 DEF ProposeRefused, RaftInv, RaftTypeOK, raftVars, groupVars, nodeVars
  <2>2. Head(batch) \in Header /\ batch' \in Seq(Header)
    BY <1>5 DEF ProposeRefused
  <2>3. replies' \in [Cmds -> Seq(Answers)]
    <3>1. Head(batch).cmd \in Cmds
      BY <2>2 DEF Header
    <3>2. QED
      BY SMTT(30), <1>5, <3>1, RespType, AnswersType DEF ProposeRefused
  <2>4. QED
    BY SMTT(30), <1>5, <2>1, <2>2, <2>3 DEF ProposeRefused, RaftInv, psVars, delegateVars, lifeVars
<1>6. CASE ProposeForwarded
  <2>1. Head(batch) \in Header /\ batch' \in Seq(Header)
    BY <1>6 DEF ProposeForwarded
  <2>2. RaftInv'
    BY <1>6, <2>1 DEF ProposeForwarded, RaftInv, RaftTypeOK, Header, nodeVars
  <2>3. replies' \in [Cmds -> Seq(Answers)]
    <3>1. Head(batch).cmd \in Cmds
      BY <2>1 DEF Header
    <3>2. QED
      BY <1>6, <3>1, RespType, AnswersType DEF ProposeForwarded
  <2>4. QED
    BY <1>6, <2>1, <2>2, <2>3 DEF ProposeForwarded, RaftInv, psVars, delegateVars, lifeVars
<1>7. CASE ProposeAppended
  <2>1. Head(batch) \in Header /\ batch' \in Seq(Header)
    BY <1>7 DEF ProposeAppended
  <2>2. [term |-> rterm, cmd |-> Head(batch).cmd, epoch |-> Head(batch).epoch] \in Entry
    BY <2>1 DEF Header, Entry, RaftInv, RaftTypeOK
  <2>3. RaftInv'
    BY SMTT(30), <1>7, <2>2 DEF ProposeAppended, RaftInv, RaftTypeOK, groupVars
  <2>4. [kind |-> "propose", cmd |-> Head(batch).cmd, term |-> cachedTerm] \in Job
    BY <2>1 DEF Header, Job
  <2>5. jobs' \in Seq(Job)
    BY <1>7, <2>4 DEF ProposeAppended, addApplyJob
  <2>6. QED
    BY <1>7, <2>1, <2>3, <2>5 DEF ProposeAppended, RaftInv, psVars, delegateVars, lifeVars, clientVars
<1>8. CASE SkipReady
  <2>1. RaftInv'
    BY <1>8 DEF SkipReady, RaftInv, RaftTypeOK, raftVars, groupVars, nodeVars
  <2>2. stopRaftTick' \in BOOLEAN
    BY <1>8, Zenon DEF SkipReady
  <2>3. QED
    BY <1>8, <2>1, <2>2 DEF SkipReady, RaftInv, delegateVars, lifeVars, clientVars
<1>9. CASE SnapshotReady
  <2>1. shardAt(snapPend) \in Shard
    BY ShardAtType DEF RaftInv, RaftTypeOK
  <2>2. asked' \in BOOLEAN /\ snapFile' \in BOOLEAN /\ stopRaftTick' \in BOOLEAN
    BY <1>9, Zenon DEF SnapshotReady, sendMessages
  <2>3. RaftInv'
    BY <1>9, <2>2 DEF SnapshotReady, sendMessages, RaftInv, RaftTypeOK
  <2>4. /\ [kind |-> "snapshot", shard |-> shardAt(snapPend)] \in Job
        /\ registrationJob(snapPend, shardAt(snapPend).epoch) \in Job
    BY <2>1 DEF registrationJob, Job, Shard, RaftInv, RaftTypeOK
  <2>5. jobs' \in Seq(Job)
    BY <1>9, <2>4, ConcatProperties DEF SnapshotReady
  <2>6. psEpoch' \in Nat
    BY <1>9, <2>1 DEF SnapshotReady, Shard
  <2>7. QED
    BY SMTT(30), <1>9, <2>2, <2>3, <2>5, <2>6
       DEF SnapshotReady, RaftInv, RaftTypeOK, delegateVars, lifeVars, clientVars
<1>10. CASE HandleReady
  <2>1. asked' \in BOOLEAN
    BY <1>10, Zenon DEF HandleReady, sendMessages
  <2>2. RaftInv'
    BY <1>10, <2>1 DEF HandleReady, sendMessages, RaftInv, RaftTypeOK
  <2>3. ASSUME rcommit > lastReady
        PROVE  [kind |-> "apply", first |-> lastReady + 1,
                entries |-> SubSeq(rlog, lastReady + 1, rcommit)] \in Job
    <3>1. SubSeq(rlog, lastReady + 1, rcommit) \in Seq(Entry)
      BY <2>3 DEF RaftInv, RaftTypeOK
    <3>2. Len(SubSeq(rlog, lastReady + 1, rcommit)) = rcommit - lastReady
      BY <2>3 DEF RaftInv, RaftTypeOK
    <3>3. SubSeq(rlog, lastReady + 1, rcommit) # <<>>
      <4>1. rcommit - lastReady # 0
        BY <2>3 DEF RaftInv, RaftTypeOK
      <4>2. QED
        BY <3>1, <3>2, <4>1, EmptySeq
    <3>4. QED
      BY <3>1, <3>3 DEF Job
  <2>4. lastReady' \in Nat
    BY <1>10 DEF HandleReady, RaftInv, RaftTypeOK
  <2>5. jobs' \in Seq(Job)
    <3>1. CASE registered /\ rcommit > lastReady
      <4> DEFINE job == [kind |-> "apply", first |-> lastReady + 1,
                         entries |-> SubSeq(rlog, lastReady + 1, rcommit)]
      <4>1. jobs' = Append(jobs, job)
        BY <1>10, <3>1 DEF HandleReady, hasCommitted, addApplyJob
      <4>2. job \in Job
        BY <2>3, <3>1
      <4> HIDE DEF job
      <4>3. QED
        BY <4>1, <4>2, AppendProperties
    <3>2. CASE ~(registered /\ rcommit > lastReady)
      BY <1>10, <3>2 DEF HandleReady, hasCommitted
    <3>3. QED
      BY <3>1, <3>2
  <2>6. QED
    BY <1>10, <2>1, <2>2, <2>4, <2>5
       DEF HandleReady, RaftInv, RaftTypeOK, delegateVars, lifeVars, clientVars
<1>11. QED
  BY <1>1, <1>2, <1>3, <1>4, <1>5, <1>6, <1>7, <1>8, <1>9, <1>10 DEF Loop

\* The jobs of the apply worker, by their kind.
LEMMA JobType ==
    ASSUME NEW job \in Job
    PROVE  /\ job.kind = "register" => job.applied \in Nat /\ job.epoch \in Nat
           /\ job.kind = "propose" => job.cmd \in Cmds /\ job.term \in Nat
           /\ job.kind = "apply" => /\ job.first \in Nat
                                   /\ job.entries \in Seq(Entry)
                                   /\ job.entries # <<>>
           /\ job.kind = "snapshot" => job.shard \in Shard
BY DEF Job

\* The job the apply worker takes, and the queue without it.
LEMMA NextJobType ==
    ASSUME jobs \in Seq(Job), NEW kind, nextJob(kind)
    PROVE  Head(jobs) \in Job /\ Head(jobs).kind = kind /\ Tail(jobs) \in Seq(Job)
BY HeadTailProperties DEF nextJob

\* A tail of the pending list holds filed callbacks.
LEMMA RestType ==
    ASSUME NEW S, NEW s \in Seq(S), NEW n \in 0 .. Len(s)
    PROVE  SubSeq(s, n + 1, Len(s)) \in Seq(S)
OBVIOUS

\* Applying an entry keeps the types of the delegate.
LEMMA ApplyEntryType ==
    ASSUME TypeInv, NEW e \in Entry, NEW n \in 0 .. Len(pending), applyEntry(e, n)
    PROVE  /\ pending' \in Seq(Filed)
           /\ replies' \in [Cmds -> Seq(Answers)]
           /\ dEpoch' \in Nat
           /\ data' \in Seq(Cmds \cup Others)
           /\ dApplied' \in Nat
           /\ results' \in Seq([applied : Nat, epoch : Nat])
<1> DEFINE shard == execEntry([epoch |-> dEpoch, data |-> data], e)
<1>1. shard \in Shard
  <2>1. [epoch |-> dEpoch, data |-> data] \in Shard
    BY DEF TypeInv, TypeOK, Shard
  <2>2. QED
    BY <2>1, ExecEntryType
<1>2. dEpoch' = shard.epoch /\ data' = shard.data /\ dApplied' = dApplied + 1
  BY DEF applyEntry
<1>3. results' = IF live /\ ~stopped
                 THEN Append(results, [applied |-> dApplied + 1, epoch |-> shard.epoch])
                 ELSE results
  BY DEF applyEntry
<1>4. replies' \in [Cmds -> Seq(Answers)]
  <2>1. replies \in [Cmds -> Seq(Answers)]
    BY DEF TypeInv, TypeOK
  <2>2. (IF checkEpoch(dEpoch, e) THEN "ok" ELSE "epoch") \in Answers
    BY AnswersType
  <2>3. respAll(cmdsOf(SubSeq(pending, 1, n)), "stale") \in [Cmds -> Seq(Answers)]
    BY <2>1, RespAllType, AnswersType
  <2>4. respAllAnd(cmdsOf(SubSeq(pending, 1, n - 1)), "stale", pending[n].cmd,
                   IF checkEpoch(dEpoch, e) THEN "ok" ELSE "epoch")
        \in [Cmds -> Seq(Answers)]
    BY <2>1, <2>2, RespAllAndType, AnswersType
  <2>5. QED
    BY <2>3, <2>4 DEF applyEntry
<1>5. pending' \in Seq(Filed)
  <2>1. pending \in Seq(Filed)
    BY DEF TypeInv, TypeOK
  <2>2. pending' = SubSeq(pending, n + 1, Len(pending))
    BY DEF applyEntry, rest
  <2>3. QED
    BY <2>1, <2>2, RestType
<1> HIDE DEF shard
<1>6. shard.epoch \in Nat /\ shard.data \in Seq(Cmds \cup Others)
  BY <1>1 DEF Shard
<1>7. results' \in Seq([applied : Nat, epoch : Nat])
  <2>1. dApplied + 1 \in Nat
    BY DEF TypeInv, TypeOK
  <2>2. [applied |-> dApplied + 1, epoch |-> shard.epoch] \in [applied : Nat, epoch : Nat]
    BY <1>6, <2>1
  <2>3. results \in Seq([applied : Nat, epoch : Nat])
    BY DEF TypeInv, TypeOK
  <2>4. QED
    BY <1>3, <2>2, <2>3, AppendProperties
<1>8. dApplied' \in Nat
  BY <1>2 DEF TypeInv, TypeOK
<1>9. QED
  BY <1>2, <1>4, <1>5, <1>6, <1>7, <1>8

\* Steps of the apply worker.
LEMMA WorkerKeepsTypes ==
    ASSUME TypeInv, Worker
    PROVE  TypeInv'
<1> USE DEF TypeInv, TypeOK
<1>1. CASE DoRegistrationJob
  <2>1. RaftInv'
    BY <1>1 DEF DoRegistrationJob, RaftInv, RaftTypeOK, raftVars, groupVars, nodeVars
  <2>2. nextJob("register")
    BY <1>1 DEF DoRegistrationJob
  <2>3. dApplied' \in Nat /\ dEpoch' \in Nat /\ jobs' \in Seq(Job)
    BY <1>1, <2>2, NextJobType, JobType DEF DoRegistrationJob
  <2>4. registered' \in BOOLEAN
    BY <1>1, Zenon DEF DoRegistrationJob
  <2>5. replies' \in [Cmds -> Seq(Answers)] /\ pending' \in Seq(Filed)
    BY <1>1, RespAllType, AnswersType DEF DoRegistrationJob, answerPending
  <2>6. QED
    BY SMTT(30), <1>1, <2>1, <2>3, <2>4, <2>5
       DEF DoRegistrationJob, RaftInv, loopVars, psVars, lifeVars
<1>2. CASE DoPropose
  <2>1. RaftInv'
    BY <1>2 DEF DoPropose, RaftInv, RaftTypeOK, raftVars, groupVars, nodeVars
  <2>2. nextJob("propose")
    BY <1>2 DEF DoPropose
  <2>3. Head(jobs).cmd \in Cmds /\ Head(jobs).term \in Nat /\ Tail(jobs) \in Seq(Job)
    BY <2>2, NextJobType, JobType
  <2>4. filed(Head(jobs)) \in Filed
    BY <2>3 DEF filed, Filed
  <2>5. pending' \in Seq(Filed) /\ replies' \in [Cmds -> Seq(Answers)]
    <3>1. resp(Head(jobs).cmd, "shardNotFound") \in [Cmds -> Seq(Answers)]
      BY <2>3, RespType, AnswersType
    <3>2. Append(pending, filed(Head(jobs))) \in Seq(Filed)
      BY <2>4, AppendProperties
    <3>3. QED
      BY <1>2, <3>1, <3>2 DEF DoPropose
  <2>6. QED
    BY SMTT(30), <1>2, <2>1, <2>3, <2>5 DEF DoPropose, RaftInv, loopVars, psVars, lifeVars
<1>3. CASE DoApplyCommittedEntries
  <2>1. RaftInv'
    BY <1>3 DEF DoApplyCommittedEntries, RaftInv, RaftTypeOK, raftVars, groupVars, nodeVars
  <2>2. nextJob("apply")
    BY <1>3 DEF DoApplyCommittedEntries
  <2> DEFINE job == Head(jobs)
  <2>3. /\ job.first \in Nat /\ job.entries \in Seq(Entry) /\ job.entries # <<>>
        /\ Tail(jobs) \in Seq(Job)
    BY <2>2, NextJobType, JobType
  <2>4. Head(job.entries) \in Entry /\ Tail(job.entries) \in Seq(Entry)
        /\ Len(Tail(job.entries)) = Len(job.entries) - 1 /\ Len(job.entries) \in Nat
    BY <2>3, HeadTailProperties, LenProperties
  <2>5. CASE registered /\ job.first = dApplied + 1
    <3>1. PICK n \in 0 .. Len(pending) : applyEntry(Head(job.entries), n)
      BY <1>3, <2>5 DEF DoApplyCommittedEntries
    <3>2. /\ pending' \in Seq(Filed) /\ replies' \in [Cmds -> Seq(Answers)]
          /\ dEpoch' \in Nat /\ data' \in Seq(Cmds \cup Others) /\ dApplied' \in Nat
          /\ results' \in Seq([applied : Nat, epoch : Nat])
      BY <2>4, <3>1, ApplyEntryType
    <3>3. jobs' \in Seq(Job)
      <4> DEFINE left == [kind |-> "apply", first |-> job.first + 1,
                          entries |-> Tail(job.entries)]
      <4>1. jobs' = IF Len(job.entries) = 1 THEN Tail(jobs) ELSE <<left>> \o Tail(jobs)
        BY <1>3, <2>5 DEF DoApplyCommittedEntries
      <4>2. Len(job.entries) # 1 => left \in Job
        <5>1. Len(job.entries) # 1 => Len(Tail(job.entries)) # 0
          BY <2>4
        <5>2. Len(job.entries) # 1 => Tail(job.entries) # <<>>
          BY <5>1, <2>4, EmptySeq
        <5>3. job.first + 1 \in Nat
          BY <2>3
        <5>4. QED
          BY <5>2, <5>3, <2>4 DEF Job
      <4> HIDE DEF left
      <4>3. QED
        BY <4>1, <4>2, <2>3, ConcatProperties
    <3>4. fatal' = fatal
      BY <1>3, <2>5 DEF DoApplyCommittedEntries
    <3>5. UNCHANGED <<loopVars, psVars, registered, lifeVars, submitted, snapFails>>
      BY <1>3 DEF DoApplyCommittedEntries
    <3>6. QED
      BY SMTT(30), <2>1, <3>2, <3>3, <3>4, <3>5 DEF RaftInv, loopVars, psVars, lifeVars
  <2>6. CASE ~(registered /\ job.first = dApplied + 1)
    <3>1. /\ jobs' = Tail(jobs)
          /\ UNCHANGED <<pending, dApplied, dEpoch, data, replies, results>>
      BY <1>3, <2>6 DEF DoApplyCommittedEntries
    <3>2. fatal' \in BOOLEAN
      BY <1>3, <2>6, Zenon DEF DoApplyCommittedEntries
    <3>3. UNCHANGED <<loopVars, psVars, registered, lifeVars, submitted, snapFails>>
      BY <1>3 DEF DoApplyCommittedEntries
    <3>4. QED
      BY <2>1, <2>3, <3>1, <3>2, <3>3 DEF RaftInv, loopVars, psVars, lifeVars
  <2>7. QED
    BY <2>5, <2>6
<1>4. CASE DoApplyingSnapshotJob
  <2>1. RaftInv'
    BY <1>4 DEF DoApplyingSnapshotJob, RaftInv, RaftTypeOK, raftVars, groupVars, nodeVars
  <2>2. nextJob("snapshot")
    BY <1>4 DEF DoApplyingSnapshotJob
  <2>3. Head(jobs).shard \in Shard /\ Tail(jobs) \in Seq(Job)
    BY <2>2, NextJobType, JobType
  <2>4. data' \in Seq(Cmds \cup Others)
    <3>1. <<>> \in Seq(Cmds \cup Others)
      OBVIOUS
    <3>2. Head(jobs).shard.data \in Seq(Cmds \cup Others)
      BY <2>3 DEF Shard
    <3>3. data' = Head(jobs).shard.data \/ data' = <<>>
      BY <1>4 DEF DoApplyingSnapshotJob
    <3>4. QED
      BY <3>1, <3>2, <3>3
  <2>5. stopRaftTick' \in BOOLEAN
    BY <1>4, Zenon DEF DoApplyingSnapshotJob
  <2>6. snapFails' \in Nat /\ jobs' \in Seq(Job)
    BY <1>4, <2>3 DEF DoApplyingSnapshotJob
  <2>7. QED
    BY <1>4, <2>1, <2>4, <2>5, <2>6
       DEF DoApplyingSnapshotJob, RaftInv, loopVars, lifeVars, clientVars
<1>5. CASE DoDestroy
  <2>1. RaftInv'
    BY <1>5 DEF DoDestroy, RaftInv, RaftTypeOK, raftVars, groupVars, nodeVars
  <2>2. nextJob("destroy")
    BY <1>5 DEF DoDestroy
  <2>3. jobs' \in Seq(Job)
    BY <1>5, <2>2, NextJobType DEF DoDestroy
  <2>4. registered' \in BOOLEAN
    BY <1>5, Zenon DEF DoDestroy
  <2>5. replies' \in [Cmds -> Seq(Answers)] /\ pending' \in Seq(Filed)
    BY <1>5, RespAllType, AnswersType DEF DoDestroy, answerPending
  <2>6. disposed' \in BOOLEAN /\ destroying' \in {"no", "retry", "worker", "timer"}
    <3>1. CASE ~live
      BY <1>5, <3>1 DEF DoDestroy
    <3>2. CASE live /\ isApplyingSnapshot
      BY <1>5, <3>2 DEF DoDestroy
    <3>3. CASE live /\ ~isApplyingSnapshot
      <4>1. disposed' = TRUE /\ destroying' = "worker"
        BY <1>5, <3>3 DEF DoDestroy
      <4>2. QED
        BY <4>1, Zenon
    <3>4. QED
      BY <3>1, <3>2, <3>3
  <2>7. QED
    BY <1>5, <2>1, <2>3, <2>4, <2>5, <2>6 DEF DoDestroy, RaftInv, loopVars, psVars
<1>6. CASE RetryMustDestroy
  <2>1. RaftInv'
    BY <1>6 DEF RetryMustDestroy, RaftInv, RaftTypeOK, raftVars, groupVars, nodeVars
  <2>2. disposed' \in BOOLEAN
    BY <1>6, Zenon DEF RetryMustDestroy
  <2>3. QED
    BY <1>6, <2>1, <2>2
       DEF RetryMustDestroy, RaftInv, loopVars, psVars, delegateVars, clientVars
<1>7. CASE RemovePR
  <2>1. RaftInv'
    BY <1>7 DEF RemovePR, RaftInv, RaftTypeOK, raftVars, groupVars, nodeVars
  <2>2. live' \in BOOLEAN
    BY <1>7, Zenon DEF RemovePR
  <2>3. QED
    BY <1>7, <2>1, <2>2 DEF RemovePR, RaftInv, loopVars, psVars, delegateVars, clientVars
<1>8. QED
  BY <1>1, <1>2, <1>3, <1>4, <1>5, <1>6, <1>7 DEF Worker

\* TypeInv is inductive.
LEMMA NextKeepsTypes ==
    ASSUME TypeInv, [Next]_vars
    PROVE  TypeInv'
<1> USE DEF TypeInv, TypeOK
<1>1. ASSUME NEW c \in Cmds, Submit(c)
      PROVE  TypeInv'
  <2>1. RaftInv'
    BY <1>1 DEF Submit, RaftInv, RaftTypeOK, raftVars, groupVars, nodeVars
  <2>2. requests' \in Seq(Cmds) /\ replies' \in [Cmds -> Seq(Answers)]
    <3>1. resp(c, "storeNotMatch") \in [Cmds -> Seq(Answers)]
      BY RespType, AnswersType
    <3>2. Append(requests, c) \in Seq(Cmds)
      BY AppendProperties
    <3>3. QED
      BY <1>1, <3>1, <3>2 DEF Submit
  <2>3. QED
    BY SMTT(30), <1>1, <2>1, <2>2 DEF Submit, RaftInv, psVars, delegateVars, lifeVars
<1>2. CASE Loop
  BY <1>2, LoopKeepsTypes
<1>3. CASE HandleStep
  <2>1. RaftInv'
    BY <1>3, HandleStepKeepsRaftInv
  <2>2. QED
    BY <1>3, <2>1
       DEF HandleStep, RaftInv, loopVars, psVars, delegateVars, lifeVars, clientVars
<1>4. CASE Worker
  BY <1>4, WorkerKeepsTypes
<1>5. CASE HandleGCPeerMsg
  <2>1. RaftInv'
    BY <1>5 DEF HandleGCPeerMsg, RaftInv, RaftTypeOK, raftVars, groupVars, nodeVars
  <2>2. jobs' \in Seq(Job)
    <3>1. [kind |-> "destroy"] \in Job
      BY DEF Job
    <3>2. QED
      BY <1>5, <3>1, AppendProperties DEF HandleGCPeerMsg, addApplyJob
  <2>3. QED
    BY <1>5, <2>1, <2>2 DEF HandleGCPeerMsg, RaftInv, loopVars, psVars, delegateVars, clientVars
<1>6. CASE Group
  <2>1. RaftInv'
    BY <1>6, GroupKeepsRaftInv DEF Group
  <2>2. QED
    BY <1>6, <2>1 DEF Group, RaftInv, loopVars, psVars, delegateVars, lifeVars, clientVars
<1>7. CASE UNCHANGED vars
  BY <1>7 DEF vars, RaftInv, RaftTypeOK, raftVars, groupVars, nodeVars, loopVars, psVars,
              delegateVars, lifeVars, clientVars
<1>8. QED
  BY <1>1, <1>2, <1>3, <1>4, <1>5, <1>6, <1>7 DEF Next

\* Every variable of the pipeline keeps its type, whatever the interleaving of
\* the event worker, the apply worker, raft and the clients.
THEOREM TypeCorrect == Spec => []TypeOK
<1>1. Init => TypeInv
  BY InitTypeInv
<1>2. TypeInv /\ [Next]_vars => TypeInv'
  BY NextKeepsTypes
<1>3. TypeInv => TypeOK
  BY DEF TypeInv
<1>4. QED
  BY <1>1, <1>2, <1>3, PTL DEF Spec

----------------------------------------------------------------------------
(* A callback is invoked at most once: OneHome is inductive, because every *)
(* action moves a command from one home to another, or answers exactly the *)
(* commands that it takes out of their homes.                              *)

\* No command occurs twice in a list of records, or in the propose jobs of a
\* queue.
Once(s) == \A i, j \in DOMAIN s : s[i].cmd = s[j].cmd => i = j
OnceProposed(s) ==
    \A i, j \in DOMAIN s :
        (s[i].kind = "propose" /\ s[j].kind = "propose" /\ s[i].cmd = s[j].cmd) => i = j

----------------------------------------------------------------------------
(* The lists of callbacks as sets of commands.                             *)

\* Taking the head of a list takes its command out.
LEMMA TailOnce ==
    ASSUME NEW S, NEW s \in Seq(S), s # <<>>, Once(s)
    PROVE  /\ Once(Tail(s))
           /\ cmdsOf(Tail(s)) = cmdsOf(s) \ {Head(s).cmd}
           /\ Head(s).cmd \in cmdsOf(s)
<1>1. /\ Len(s) \in Nat \ {0} /\ DOMAIN s = 1 .. Len(s) /\ Head(s) = s[1]
      /\ DOMAIN Tail(s) = 1 .. Len(s) - 1
      /\ \A i \in 1 .. Len(s) - 1 : Tail(s)[i] = s[i + 1]
  BY EmptySeq, LenProperties, HeadTailProperties
<1>2. Once(Tail(s))
  BY <1>1 DEF Once
<1>3. Head(s).cmd \in cmdsOf(s)
  BY <1>1 DEF cmdsOf
<1>4. ASSUME NEW c \in cmdsOf(Tail(s))
      PROVE  c \in cmdsOf(s) /\ c # Head(s).cmd
  <2>1. PICK i \in DOMAIN Tail(s) : c = Tail(s)[i].cmd
    BY <1>4 DEF cmdsOf
  <2>2. i + 1 \in DOMAIN s /\ c = s[i + 1].cmd /\ i + 1 # 1 /\ 1 \in DOMAIN s
    BY <1>1, <2>1
  <2>3. QED
    BY <1>1, <2>2 DEF cmdsOf, Once
<1>5. ASSUME NEW c \in cmdsOf(s), c # Head(s).cmd
      PROVE  c \in cmdsOf(Tail(s))
  <2>1. PICK i \in DOMAIN s : c = s[i].cmd
    BY <1>5 DEF cmdsOf
  <2>2. i \in 1 .. Len(s) /\ i # 1
    BY <1>1, <1>5, <2>1
  <2>3. i - 1 \in 1 .. Len(s) - 1 /\ (i - 1) + 1 = i
    BY <1>1, <2>2
  <2>4. i - 1 \in DOMAIN Tail(s) /\ Tail(s)[i - 1] = s[i]
    BY <1>1, <2>3
  <2>5. QED
    BY <2>1, <2>4 DEF cmdsOf
<1>6. QED
  BY <1>2, <1>3, <1>4, <1>5

\* Appending a new command keeps the commands of a list apart.
LEMMA AppendOnce ==
    ASSUME NEW S, NEW s \in Seq(S), NEW x \in S, Once(s), x.cmd \notin cmdsOf(s)
    PROVE  Once(Append(s, x)) /\ cmdsOf(Append(s, x)) = cmdsOf(s) \cup {x.cmd}
<1> DEFINE t == Append(s, x)
<1>1. /\ Len(s) \in Nat /\ DOMAIN s = 1 .. Len(s) /\ DOMAIN t = 1 .. Len(s) + 1
      /\ \A i \in 1 .. Len(s) : t[i] = s[i]
      /\ t[Len(s) + 1] = x
  BY LenProperties, AppendProperties
<1> HIDE DEF t
<1>2. \A i \in DOMAIN t : (i \in DOMAIN s /\ t[i] = s[i]) \/ (i = Len(s) + 1 /\ t[i] = x)
  <2>1. \A i \in 1 .. Len(s) + 1 : i \in 1 .. Len(s) \/ i = Len(s) + 1
    BY <1>1
  <2>2. QED
    BY <1>1, <2>1
<1>3. DOMAIN s \subseteq DOMAIN t /\ Len(s) + 1 \in DOMAIN t
  BY <1>1
<1>4. \A i \in DOMAIN s : s[i].cmd \in cmdsOf(s)
  BY DEF cmdsOf
<1>5. \A i \in DOMAIN s : t[i] = s[i]
  BY <1>1
<1>6. t[Len(s) + 1] = x
  BY <1>1
<1>7. Once(t)
  BY <1>2, <1>4 DEF Once
<1>8. cmdsOf(t) \subseteq cmdsOf(s) \cup {x.cmd}
  BY <1>2 DEF cmdsOf
<1>9. cmdsOf(s) \cup {x.cmd} \subseteq cmdsOf(t)
  BY <1>3, <1>5, <1>6 DEF cmdsOf
<1>10. QED
  BY <1>7, <1>8, <1>9 DEF t

\* Popping n callbacks splits a list in the commands popped and the others.
LEMMA PopOnce ==
    ASSUME NEW S, NEW s \in Seq(S), NEW n \in 0 .. Len(s), Once(s)
    PROVE  /\ Once(SubSeq(s, n + 1, Len(s)))
           /\ cmdsOf(SubSeq(s, n + 1, Len(s))) \subseteq cmdsOf(s)
           /\ cmdsOf(SubSeq(s, 1, n)) \subseteq cmdsOf(s)
           /\ cmdsOf(SubSeq(s, 1, n)) \cap cmdsOf(SubSeq(s, n + 1, Len(s))) = {}
           /\ n > 0 => /\ cmdsOf(SubSeq(s, 1, n - 1)) \subseteq cmdsOf(SubSeq(s, 1, n))
                       /\ s[n].cmd \in cmdsOf(SubSeq(s, 1, n))
<1> DEFINE left == SubSeq(s, n + 1, Len(s))
           popped == SubSeq(s, 1, n)
<1>1. Len(s) \in Nat /\ DOMAIN s = 1 .. Len(s)
  BY LenProperties
<1>2. DOMAIN left = 1 .. Len(s) - n /\ \A i \in 1 .. Len(s) - n : left[i] = s[n + i]
  BY <1>1
<1>3. DOMAIN popped = 1 .. n /\ \A i \in 1 .. n : popped[i] = s[i]
  BY <1>1
<1>4. n > 0 => /\ DOMAIN SubSeq(s, 1, n - 1) = 1 .. n - 1
               /\ \A i \in 1 .. n - 1 : SubSeq(s, 1, n - 1)[i] = s[i]
  BY <1>1
<1> HIDE DEF left, popped
<1>5. \A i \in DOMAIN left : n + i \in DOMAIN s /\ left[i] = s[n + i]
  BY <1>1, <1>2
<1>6. \A i \in DOMAIN popped : i \in DOMAIN s /\ popped[i] = s[i]
  BY <1>1, <1>3
<1>7. \A i \in DOMAIN popped, j \in DOMAIN left : i # n + j
  BY <1>1, <1>2, <1>3
<1>8. Once(left)
  BY <1>2, <1>5 DEF Once
<1>9. cmdsOf(left) \subseteq cmdsOf(s) /\ cmdsOf(popped) \subseteq cmdsOf(s)
  BY <1>5, <1>6 DEF cmdsOf
<1>10. cmdsOf(popped) \cap cmdsOf(left) = {}
  BY <1>5, <1>6, <1>7 DEF cmdsOf, Once
<1>11. n > 0 => cmdsOf(SubSeq(s, 1, n - 1)) \subseteq cmdsOf(popped)
  BY <1>3, <1>4 DEF cmdsOf
<1>12. n > 0 => s[n].cmd \in cmdsOf(popped)
  BY <1>3 DEF cmdsOf
<1>13. QED
  BY <1>8, <1>9, <1>10, <1>11, <1>12 DEF left, popped

\* A queued job that is not a proposal changes nothing.
LEMMA PushOther ==
    ASSUME NEW s \in Seq(Job), NEW job \in Job, job.kind # "propose", OnceProposed(s)
    PROVE  OnceProposed(Append(s, job)) /\ proposed(Append(s, job)) = proposed(s)
<1> DEFINE t == Append(s, job)
<1>1. /\ Len(s) \in Nat /\ DOMAIN s = 1 .. Len(s) /\ DOMAIN t = 1 .. Len(s) + 1
      /\ \A i \in 1 .. Len(s) : t[i] = s[i]
      /\ t[Len(s) + 1] = job
  BY LenProperties, AppendProperties
<1> HIDE DEF t
<1>2. \A i \in DOMAIN t : t[i].kind = "propose" => i \in DOMAIN s /\ t[i] = s[i]
  BY <1>1
<1>3. \A i \in DOMAIN s : i \in DOMAIN t /\ t[i] = s[i]
  BY <1>1
<1>4. OnceProposed(t)
  BY <1>2 DEF OnceProposed
<1>5. proposed(t) = proposed(s)
  BY <1>2, <1>3 DEF proposed
<1>6. QED
  BY <1>4, <1>5 DEF t

\* A queued proposal adds its command.
LEMMA PushPropose ==
    ASSUME NEW s \in Seq(Job), NEW job \in Job, job.kind = "propose", OnceProposed(s),
           job.cmd \notin proposed(s)
    PROVE  /\ OnceProposed(Append(s, job))
           /\ proposed(Append(s, job)) = proposed(s) \cup {job.cmd}
<1> DEFINE t == Append(s, job)
<1>1. /\ Len(s) \in Nat /\ DOMAIN s = 1 .. Len(s) /\ DOMAIN t = 1 .. Len(s) + 1
      /\ \A i \in 1 .. Len(s) : t[i] = s[i]
      /\ t[Len(s) + 1] = job
  BY LenProperties, AppendProperties
<1> HIDE DEF t
<1>2. \A i \in DOMAIN t : (i \in DOMAIN s /\ t[i] = s[i]) \/ (i = Len(s) + 1 /\ t[i] = job)
  <2>1. \A i \in 1 .. Len(s) + 1 : i \in 1 .. Len(s) \/ i = Len(s) + 1
    BY <1>1
  <2>2. QED
    BY <1>1, <2>1
<1>3. \A i \in DOMAIN s : i \in DOMAIN t /\ t[i] = s[i]
  BY <1>1
<1>4. \A i \in DOMAIN s : s[i].kind = "propose" => s[i].cmd \in proposed(s)
  BY DEF proposed
<1>5. OnceProposed(t)
  BY <1>2, <1>4 DEF OnceProposed
<1>6. Len(s) + 1 \in DOMAIN t /\ t[Len(s) + 1] = job
  BY <1>1
<1>7. proposed(t) = proposed(s) \cup {job.cmd}
  BY <1>2, <1>3, <1>6 DEF proposed
<1>8. QED
  BY <1>5, <1>7 DEF t

\* Taking a job takes its command, if it is a proposal.
LEMMA PopJob ==
    ASSUME NEW s \in Seq(Job), s # <<>>, OnceProposed(s)
    PROVE  /\ OnceProposed(Tail(s))
           /\ Head(s).kind = "propose" => /\ proposed(Tail(s)) = proposed(s) \ {Head(s).cmd}
                                          /\ Head(s).cmd \in proposed(s)
           /\ Head(s).kind # "propose" => proposed(Tail(s)) = proposed(s)
<1> DEFINE t == Tail(s)
<1>1. /\ Len(s) \in Nat \ {0} /\ DOMAIN s = 1 .. Len(s) /\ Head(s) = s[1]
      /\ DOMAIN t = 1 .. Len(s) - 1
      /\ \A i \in 1 .. Len(s) - 1 : t[i] = s[i + 1]
  BY EmptySeq, LenProperties, HeadTailProperties
<1> HIDE DEF t
<1>2. \A i \in DOMAIN t : i + 1 \in DOMAIN s /\ t[i] = s[i + 1] /\ i + 1 # 1
  BY <1>1
<1>3. \A i \in DOMAIN s : i = 1 \/ (i - 1 \in DOMAIN t /\ t[i - 1] = s[i])
  BY <1>1
<1>4. 1 \in DOMAIN s
  BY <1>1
<1>5. OnceProposed(t)
  BY SMTT(30), <1>1 DEF OnceProposed
<1>6. Head(s).kind = "propose" => Head(s).cmd \in proposed(s)
  BY <1>1, <1>4 DEF proposed
<1>7. proposed(t) \subseteq proposed(s)
  BY <1>2 DEF proposed
<1>8. \A c \in proposed(s) : c \in proposed(t) \/ (Head(s).kind = "propose" /\ c = Head(s).cmd)
  BY <1>1, <1>3 DEF proposed
<1>9. Head(s).kind = "propose" => Head(s).cmd \notin proposed(t)
  BY <1>1, <1>2, <1>4 DEF proposed, OnceProposed
<1>10. QED
  BY <1>5, <1>6, <1>7, <1>8, <1>9 DEF t

\* Putting a job that is not a proposal in front changes nothing.
LEMMA FrontOther ==
    ASSUME NEW s \in Seq(Job), NEW job \in Job, job.kind # "propose", OnceProposed(s)
    PROVE  OnceProposed(<<job>> \o s) /\ proposed(<<job>> \o s) = proposed(s)
<1> DEFINE t == <<job>> \o s
<1>1. <<job>> \in Seq(Job) /\ Len(<<job>>) = 1 /\ <<job>>[1] = job
  OBVIOUS
<1>2. /\ Len(s) \in Nat /\ DOMAIN s = 1 .. Len(s) /\ DOMAIN t = 1 .. Len(s) + 1
      /\ t[1] = job
      /\ \A i \in 2 .. Len(s) + 1 : t[i] = s[i - 1]
  BY <1>1, LenProperties, ConcatProperties
<1> HIDE DEF t
<1>3. \A i \in DOMAIN t : t[i].kind = "propose" => i - 1 \in DOMAIN s /\ t[i] = s[i - 1]
  BY <1>2
<1>4. \A i \in DOMAIN s : i + 1 \in DOMAIN t /\ t[i + 1] = s[i]
  BY <1>2
<1>5. OnceProposed(t)
  BY <1>2, <1>3 DEF OnceProposed
<1>6. proposed(t) = proposed(s)
  BY <1>3, <1>4 DEF proposed
<1>7. QED
  BY <1>5, <1>6 DEF t

----------------------------------------------------------------------------
(* Every action keeps OneHome.                                             *)

ReplyInv == TypeInv /\ OneHome /\ AtMostOneReply

\* An action that answers commands of S, which it takes out of their homes,
\* and moves others around, answers nobody twice.
LEMMA LettingGo ==
    ASSUME ReplyInv, TypeInv', NoneTwice', NoneInTwo', NEW S \in SUBSET held,
           held' \subseteq held \ S,
           submitted' = submitted,
           \A c \in Cmds : c \notin S => replies'[c] = replies[c],
           \A c \in Cmds : Len(replies'[c]) <= Len(replies[c]) + 1
    PROVE  ReplyInv'
<1>1. held \subseteq submitted
  BY DEF ReplyInv, OneHome
<1>2. \A c \in Cmds : (c \in held \/ c \notin submitted) => replies[c] = <<>>
  BY DEF ReplyInv, OneHome
<1>3. (held \subseteq submitted)'
  BY <1>1
<1>4. \A c \in Cmds : (c \in held' \/ c \notin submitted') => replies'[c] = <<>>
  BY <1>1, <1>2
<1>5. ASSUME NEW c \in Cmds
      PROVE  Len(replies'[c]) <= 1
  <2>1. CASE c \in S
    <3>1. replies[c] = <<>>
      BY <1>2, <2>1
    <3>2. Len(replies[c]) = 0
      BY <3>1
    <3>3. Len(replies'[c]) <= Len(replies[c]) + 1
      OBVIOUS
    <3>4. QED
      BY <3>2, <3>3
  <2>2. CASE c \notin S
    BY <2>2 DEF ReplyInv, AtMostOneReply
  <2>3. QED
    BY <2>1, <2>2
<1>6. QED
  BY <1>3, <1>4, <1>5 DEF ReplyInv, OneHome, AtMostOneReply

\* Invoking callbacks adds one answer to those of the set, none to others.
LEMMA RespAllAdds ==
    ASSUME TypeInv, NEW S, NEW a \in Answers
    PROVE  /\ \A c \in Cmds : c \notin S => respAll(S, a)[c] = replies[c]
           /\ \A c \in Cmds : Len(respAll(S, a)[c]) <= Len(replies[c]) + 1
<1>1. \A c \in Cmds : replies[c] \in Seq(Answers)
  BY DEF TypeInv, TypeOK
<1>2. \A c \in Cmds : Len(replies[c]) \in Nat /\ Len(Append(replies[c], a)) = Len(replies[c]) + 1
  BY <1>1, LenProperties, AppendProperties
<1>3. QED
  BY <1>2 DEF respAll

LEMMA RespAdds ==
    ASSUME TypeInv, NEW c \in Cmds, NEW a \in Answers
    PROVE  resp(c, a) = respAll({c}, a)
BY DEF TypeInv, TypeOK, resp, respAll

LEMMA RespAllAndAdds ==
    ASSUME TypeInv, NEW S, NEW a \in Answers, NEW d, NEW b \in Answers
    PROVE  /\ \A c \in Cmds : (c \notin S /\ c # d) =>
                 respAllAnd(S, a, d, b)[c] = replies[c]
           /\ \A c \in Cmds : Len(respAllAnd(S, a, d, b)[c]) <= Len(replies[c]) + 1
<1>1. \A c \in Cmds : replies[c] \in Seq(Answers)
  BY DEF TypeInv, TypeOK
<1>2. \A c \in Cmds : /\ Len(replies[c]) \in Nat
                      /\ Len(Append(replies[c], a)) = Len(replies[c]) + 1
                      /\ Len(Append(replies[c], b)) = Len(replies[c]) + 1
  BY <1>1, LenProperties, AppendProperties
<1>3. QED
  BY <1>2 DEF respAllAnd

\* A step that leaves the homes and the answers alone.
LEMMA NothingMoves ==
    ASSUME ReplyInv, TypeInv', UNCHANGED <<requests, batch, pending, submitted, replies>>,
           OnceProposed(jobs'), proposed(jobs') = proposed(jobs)
    PROVE  ReplyInv'
<1>1. /\ ToSet(requests)' = ToSet(requests) /\ cmdsOf(batch)' = cmdsOf(batch)
      /\ cmdsOf(pending)' = cmdsOf(pending)
  OBVIOUS
<1>2. (proposed(jobs))' = proposed(jobs)
  OBVIOUS
<1>3. held' = held
  BY <1>1, <1>2 DEF held
<1>4. NoneTwice'
  BY DEF ReplyInv, OneHome, NoneTwice, OnceProposed
<1>5. NoneInTwo'
  BY <1>1, <1>2 DEF ReplyInv, OneHome, NoneInTwo
<1>6. QED
  BY <1>3, <1>4, <1>5 DEF ReplyInv, OneHome, AtMostOneReply

\* A request that is queued.
LEMMA RequestsOnce ==
    ASSUME TypeInv, NoneTwice, NEW c \in Cmds, c \notin ToSet(requests),
           requests' = Append(requests, c)
    PROVE  /\ \A i, j \in DOMAIN requests' : requests'[i] = requests'[j] => i = j
           /\ ToSet(requests') = ToSet(requests) \cup {c}
<1>1. /\ Len(requests) \in Nat /\ DOMAIN requests = 1 .. Len(requests)
      /\ DOMAIN requests' = 1 .. Len(requests) + 1
      /\ \A i \in 1 .. Len(requests) : requests'[i] = requests[i]
      /\ requests'[Len(requests) + 1] = c
  <2>1. requests \in Seq(Cmds)
    BY DEF TypeInv, TypeOK
  <2>2. QED
    BY <2>1, LenProperties, AppendProperties
<1>2. \A i \in DOMAIN requests' :
        \/ i \in DOMAIN requests /\ requests'[i] = requests[i]
        \/ i = Len(requests) + 1 /\ requests'[i] = c
  <2>1. \A i \in 1 .. Len(requests) + 1 : i \in 1 .. Len(requests) \/ i = Len(requests) + 1
    BY <1>1
  <2>2. QED
    BY <1>1, <2>1
<1>3. \A i \in DOMAIN requests : i \in DOMAIN requests' /\ requests[i] = requests'[i]
  BY <1>1
<1>4. Len(requests) + 1 \in DOMAIN requests' /\ requests'[Len(requests) + 1] = c
  BY <1>1
<1>5. \A i \in DOMAIN requests : requests[i] \in ToSet(requests)
  BY DEF ToSet
<1>6. \A i, j \in DOMAIN requests' : requests'[i] = requests'[j] => i = j
  BY <1>2, <1>5 DEF NoneTwice
<1>7. ToSet(requests') = ToSet(requests) \cup {c}
  BY <1>2, <1>3, <1>4 DEF ToSet
<1>8. QED
  BY <1>6, <1>7

\* The requests that enter the batch.
LEMMA BatchOnce ==
    ASSUME TypeInv, NoneTwice, ToSet(requests) \cap cmdsOf(batch) = {},
           batch' = batch \o [i \in DOMAIN requests |->
                                 [cmd |-> requests[i], epoch |-> psEpoch]]
    PROVE  Once(batch') /\ cmdsOf(batch') = cmdsOf(batch) \cup ToSet(requests)
<1> DEFINE new == [i \in DOMAIN requests |-> [cmd |-> requests[i], epoch |-> psEpoch]]
<1>1. /\ Len(requests) \in Nat /\ DOMAIN requests = 1 .. Len(requests)
      /\ Len(batch) \in Nat /\ DOMAIN batch = 1 .. Len(batch)
  BY LenProperties DEF TypeInv, TypeOK
<1>2. new \in Seq(Header)
  <2>1. \A i \in 1 .. Len(requests) : [cmd |-> requests[i], epoch |-> psEpoch] \in Header
    BY DEF Header, TypeInv, TypeOK
  <2>2. QED
    BY <1>1, <2>1, IsASeq
<1>3. Len(new) = Len(requests)
  BY <1>1, <1>2, LenProperties
<1>4. \A i \in DOMAIN requests : new[i].cmd = requests[i]
  OBVIOUS
<1> HIDE DEF new
<1>5. /\ DOMAIN batch' = 1 .. Len(batch) + Len(requests)
      /\ \A i \in 1 .. Len(batch) : batch'[i] = batch[i]
      /\ \A i \in Len(batch) + 1 .. Len(batch) + Len(requests) :
            batch'[i] = new[i - Len(batch)]
  <2>1. batch' = batch \o new /\ batch \in Seq(Header)
    BY DEF new, TypeInv, TypeOK
  <2>2. Len(batch \o new) = Len(batch) + Len(requests)
    BY ZenonT(60), <1>2, <1>3, <2>1, ConcatProperties
  <2>3. DOMAIN (batch \o new) = 1 .. Len(batch) + Len(requests)
    BY <1>2, <2>1, <2>2, ConcatProperties, LenProperties
  <2>4. \A i \in 1 .. Len(batch) + Len(requests) :
           (batch \o new)[i] = IF i <= Len(batch) THEN batch[i] ELSE new[i - Len(batch)]
    BY <1>2, <1>3, <2>1, ConcatProperties
  <2>5. QED
    BY <1>1, <2>1, <2>3, <2>4
<1>6. \A i \in DOMAIN batch' :
        \/ i \in DOMAIN batch /\ batch'[i] = batch[i]
        \/ i - Len(batch) \in DOMAIN requests /\ batch'[i].cmd = requests[i - Len(batch)]
  <2>1. \A i \in 1 .. Len(batch) + Len(requests) :
           \/ i \in 1 .. Len(batch)
           \/ /\ i \in Len(batch) + 1 .. Len(batch) + Len(requests)
              /\ i - Len(batch) \in 1 .. Len(requests)
    BY <1>1
  <2>2. QED
    BY <1>1, <1>4, <1>5, <2>1
<1>7. \A i \in DOMAIN batch : i \in DOMAIN batch' /\ batch'[i] = batch[i]
  BY <1>1, <1>5
<1>8. \A i \in DOMAIN requests :
         i + Len(batch) \in DOMAIN batch' /\ batch'[i + Len(batch)].cmd = requests[i]
  <2>1. \A i \in 1 .. Len(requests) :
           /\ i + Len(batch) \in Len(batch) + 1 .. Len(batch) + Len(requests)
           /\ i + Len(batch) \in 1 .. Len(batch) + Len(requests)
           /\ (i + Len(batch)) - Len(batch) = i
    BY <1>1
  <2>2. QED
    BY <1>1, <1>4, <1>5, <2>1
<1>9. \A i \in DOMAIN batch : batch[i].cmd \in cmdsOf(batch)
  BY DEF cmdsOf
<1>10. \A i \in DOMAIN requests : requests[i] \in ToSet(requests)
  BY DEF ToSet
<1>11. Once(batch')
  <2>1. ASSUME NEW i \in DOMAIN batch', NEW j \in DOMAIN batch', batch'[i].cmd = batch'[j].cmd
        PROVE  i = j
    <3>1. i \in Int /\ j \in Int
      BY <1>1, <1>5
    <3>2. CASE i \in DOMAIN batch /\ j \in DOMAIN batch
      BY <1>7, <2>1, <3>2 DEF NoneTwice
    <3>3. CASE i - Len(batch) \in DOMAIN requests /\ j - Len(batch) \in DOMAIN requests
               /\ batch'[i].cmd = requests[i - Len(batch)]
               /\ batch'[j].cmd = requests[j - Len(batch)]
      <4>1. i - Len(batch) = j - Len(batch)
        BY <2>1, <3>3 DEF NoneTwice
      <4>2. QED
        BY <1>1, <3>1, <4>1
    <3>4. QED
      BY <1>6, <1>9, <1>10, <2>1, <3>2, <3>3
  <2>2. QED
    BY <2>1 DEF Once
<1>12. cmdsOf(batch') \subseteq cmdsOf(batch) \cup ToSet(requests)
  BY <1>6, <1>9, <1>10 DEF cmdsOf
<1>13. cmdsOf(batch) \cup ToSet(requests) \subseteq cmdsOf(batch')
  BY ZenonT(60), <1>7, <1>8 DEF cmdsOf, ToSet
<1>14. QED
  BY <1>11, <1>12, <1>13

\* The parts of ReplyInv, by name.
LEMMA ReplyInvParts ==
    ASSUME ReplyInv
    PROVE  /\ TypeInv /\ NoneTwice /\ NoneInTwo /\ held \subseteq submitted
           /\ \A c \in Cmds : (c \in held \/ c \notin submitted) => replies[c] = <<>>
           /\ Once(batch) /\ Once(pending) /\ OnceProposed(jobs)
           /\ requests \in Seq(Cmds) /\ batch \in Seq(Header)
           /\ jobs \in Seq(Job) /\ pending \in Seq(Filed)
BY DEF ReplyInv, OneHome, NoneTwice, Once, OnceProposed, TypeInv, TypeOK

\* A command enters the queue, or is refused at once.
LEMMA SubmitKeepsReplyInv ==
    ASSUME ReplyInv, TypeInv', NEW c \in Cmds, Submit(c)
    PROVE  ReplyInv'
<1>1. /\ c \notin submitted /\ submitted' = submitted \cup {c}
      /\ UNCHANGED <<batch, jobs, pending>>
  BY DEF Submit, delegateVars
<1>2. c \notin held /\ replies[c] = <<>>
  BY <1>1, ReplyInvParts
<1>3. /\ cmdsOf(batch)' = cmdsOf(batch) /\ proposed(jobs)' = proposed(jobs)
      /\ cmdsOf(pending)' = cmdsOf(pending)
  BY <1>1
<1>4. CASE requests' = Append(requests, c) /\ UNCHANGED replies
  <2>1. /\ \A i, j \in DOMAIN requests' : requests'[i] = requests'[j] => i = j
        /\ ToSet(requests') = ToSet(requests) \cup {c}
    BY <1>2, <1>4, ReplyInvParts, RequestsOnce DEF held
  <2>2. ToSet(requests)' = ToSet(requests) \cup {c}
    BY <2>1
  <2>3. NoneTwice'
    BY <1>1, <2>1, ReplyInvParts DEF NoneTwice
  <2>4. NoneInTwo'
    BY <1>2, <1>3, <2>2, ReplyInvParts DEF NoneInTwo, held
  <2>5. held' = held \cup {c}
    BY <1>3, <2>2 DEF held
  <2>6. QED
    BY <1>1, <1>2, <1>4, <2>3, <2>4, <2>5, ReplyInvParts DEF ReplyInv, OneHome, AtMostOneReply
<1>5. CASE replies' = resp(c, "storeNotMatch") /\ UNCHANGED requests
  <2>1. ToSet(requests)' = ToSet(requests)
    BY <1>5
  <2>2. NoneTwice' /\ NoneInTwo'
    BY <1>1, <1>3, <1>5, <2>1, ReplyInvParts DEF NoneTwice, NoneInTwo
  <2>3. held' = held
    BY <1>3, <2>1 DEF held
  <2>4. /\ \A d \in Cmds : d # c => replies'[d] = replies[d]
        /\ Len(replies'[c]) <= Len(replies[c]) + 1
    <3>1. TypeInv /\ "storeNotMatch" \in Answers
      BY ReplyInvParts, AnswersType
    <3>2. replies' = respAll({c}, "storeNotMatch")
      BY <1>5, <3>1, RespAdds
    <3>3. QED
      BY <3>1, <3>2, RespAllAdds
  <2>5. Len(replies'[c]) <= 1
    <3>1. Len(replies[c]) = 0
      BY <1>2
    <3>2. QED
      BY <2>4, <3>1
  <2>6. \A d \in Cmds : (d \in held' \/ d \notin submitted') => replies'[d] = <<>>
    BY <1>1, <1>2, <2>3, <2>4, ReplyInvParts
  <2>7. held' \subseteq submitted'
    BY <1>1, <2>3, ReplyInvParts
  <2>8. AtMostOneReply'
    BY <2>4, <2>5 DEF ReplyInv, AtMostOneReply
  <2>9. QED
    BY <2>2, <2>6, <2>7, <2>8 DEF ReplyInv, OneHome
<1>6. QED
  BY <1>4, <1>5 DEF Submit

\* The stop branch of handleEvent answers the queue and the batch.
LEMMA LoopStopKeepsReplyInv ==
    ASSUME ReplyInv, TypeInv', LoopStop
    PROVE  ReplyInv'
<1> DEFINE S == ToSet(requests) \cup cmdsOf(batch)
<1>1. /\ replies' = respAll(S, "storeNotMatch") /\ requests' = <<>> /\ batch' = <<>>
      /\ UNCHANGED <<jobs, pending, submitted>>
  BY DEF LoopStop, delegateVars
<1>2. ToSet(requests)' = {} /\ cmdsOf(batch)' = {}
  BY <1>1 DEF ToSet, cmdsOf
<1>3. proposed(jobs)' = proposed(jobs) /\ cmdsOf(pending)' = cmdsOf(pending)
  BY <1>1
<1>4. held' \subseteq held \ S
  BY <1>2, <1>3, ReplyInvParts DEF held, NoneInTwo
<1>5. S \subseteq held
  BY DEF held
<1>6. NoneTwice'
  BY <1>1, ReplyInvParts DEF NoneTwice
<1>7. NoneInTwo'
  BY <1>2, <1>3, ReplyInvParts DEF NoneInTwo
<1>8. /\ \A c \in Cmds : c \notin S => replies'[c] = replies[c]
      /\ \A c \in Cmds : Len(replies'[c]) <= Len(replies[c]) + 1
  BY <1>1, ReplyInvParts, RespAllAdds, AnswersType
<1> HIDE DEF S
<1>9. QED
  BY <1>1, <1>4, <1>5, <1>6, <1>7, <1>8, LettingGo

\* The queue is drained into the batch.
LEMMA HandleRequestKeepsReplyInv ==
    ASSUME ReplyInv, TypeInv', HandleRequest
    PROVE  ReplyInv'
<1>1. /\ requests' = <<>> /\ UNCHANGED <<jobs, pending, submitted, replies>>
      /\ batch' = batch \o [i \in DOMAIN requests |->
                                [cmd |-> requests[i], epoch |-> psEpoch]]
  BY DEF HandleRequest, delegateVars, clientVars
<1>2. Once(batch') /\ cmdsOf(batch') = cmdsOf(batch) \cup ToSet(requests)
  BY <1>1, ReplyInvParts, BatchOnce DEF NoneInTwo
<1>3. /\ ToSet(requests)' = {} /\ cmdsOf(batch)' = cmdsOf(batch) \cup ToSet(requests)
      /\ proposed(jobs)' = proposed(jobs) /\ cmdsOf(pending)' = cmdsOf(pending)
  <2>1. ToSet(requests)' = {}
    BY <1>1 DEF ToSet
  <2>2. QED
    BY <1>1, <1>2, <2>1
<1>4. NoneTwice'
  <2>1. UNCHANGED <<jobs, pending>> /\ DOMAIN requests' = {}
    BY <1>1
  <2>2. NoneTwice
    BY ReplyInvParts
  <2>3. QED
    BY <1>2, <2>1, <2>2 DEF NoneTwice, Once
<1>5. NoneInTwo'
  BY <1>3, ReplyInvParts DEF NoneInTwo
<1>6. held' = held
  BY <1>3 DEF held
<1>7. QED
  BY <1>1, <1>4, <1>5, <1>6 DEF ReplyInv, OneHome, AtMostOneReply

\* propose answers the head of the batch and drops it.
LEMMA ProposeAnswersKeepsReplyInv ==
    ASSUME ReplyInv, TypeInv', batch # <<>>, NEW a \in Answers,
           replies' = resp(Head(batch).cmd, a), batch' = Tail(batch),
           UNCHANGED <<requests, jobs, pending, submitted>>
    PROVE  ReplyInv'
<1> DEFINE c == Head(batch).cmd
<1>1. /\ Once(batch') /\ cmdsOf(batch') = cmdsOf(batch) \ {c} /\ c \in cmdsOf(batch)
  BY ReplyInvParts, TailOnce
<1>2. c \in Cmds
  <2>1. Head(batch) \in Header
    BY ReplyInvParts, HeadTailProperties
  <2>2. QED
    BY <2>1 DEF Header
<1> HIDE DEF c
<1>3. /\ cmdsOf(batch)' = cmdsOf(batch) \ {c} /\ ToSet(requests)' = ToSet(requests)
      /\ proposed(jobs)' = proposed(jobs) /\ cmdsOf(pending)' = cmdsOf(pending)
  BY <1>1
<1>4. NoneTwice'
  BY <1>1, ReplyInvParts DEF NoneTwice, Once
<1>5. NoneInTwo'
  BY <1>3, ReplyInvParts DEF NoneInTwo
<1>6. held' \subseteq held \ {c} /\ {c} \subseteq held
  BY <1>1, <1>3, ReplyInvParts DEF held, NoneInTwo
<1>7. replies' = respAll({c}, a)
  BY <1>2, ReplyInvParts, RespAdds DEF c
<1>8. /\ \A d \in Cmds : d \notin {c} => replies'[d] = replies[d]
      /\ \A d \in Cmds : Len(replies'[d]) <= Len(replies[d]) + 1
  BY ZenonT(60), <1>7, ReplyInvParts, RespAllAdds
<1>9. QED
  BY <1>4, <1>5, <1>6, <1>8, LettingGo

\* propose hands the head of the batch to the apply worker.
LEMMA ProposeAppendedKeepsReplyInv ==
    ASSUME ReplyInv, TypeInv', ProposeAppended
    PROVE  ReplyInv'
<1> DEFINE c == Head(batch).cmd
           job == [kind |-> "propose", cmd |-> c, term |-> cachedTerm]
<1>1. /\ batch # <<>> /\ batch' = Tail(batch) /\ jobs' = Append(jobs, job)
      /\ UNCHANGED <<requests, pending, submitted, replies>>
  BY DEF ProposeAppended, addApplyJob, delegateVars, clientVars
<1>2. Once(batch') /\ cmdsOf(batch') = cmdsOf(batch) \ {c} /\ c \in cmdsOf(batch)
  BY <1>1, ReplyInvParts, TailOnce
<1>3. job \in Job
  <2>1. Head(batch) \in Header
    BY <1>1, ReplyInvParts, HeadTailProperties
  <2>2. c \in Cmds /\ cachedTerm \in Nat
    BY <2>1, ReplyInvParts DEF Header, TypeInv, TypeOK
  <2>3. QED
    BY <2>2 DEF Job
<1>4. job.kind = "propose" /\ job.cmd = c
  OBVIOUS
<1> HIDE DEF c, job
<1>5. c \notin proposed(jobs)
  BY <1>2, ReplyInvParts DEF NoneInTwo
<1>6. OnceProposed(jobs') /\ proposed(jobs') = proposed(jobs) \cup {c}
  BY <1>1, <1>3, <1>4, <1>5, ReplyInvParts, PushPropose
<1>7. /\ cmdsOf(batch)' = cmdsOf(batch) \ {c} /\ ToSet(requests)' = ToSet(requests)
      /\ proposed(jobs)' = proposed(jobs) \cup {c} /\ cmdsOf(pending)' = cmdsOf(pending)
  BY <1>1, <1>2, <1>6
<1>8. NoneTwice'
  BY <1>1, <1>2, <1>6, ReplyInvParts DEF NoneTwice, Once, OnceProposed
<1>9. NoneInTwo'
  BY <1>2, <1>7, ReplyInvParts DEF NoneInTwo
<1>10. held' = held
  BY <1>2, <1>7 DEF held
<1>11. QED
  BY <1>1, <1>8, <1>9, <1>10 DEF ReplyInv, OneHome, AtMostOneReply

\* The apply worker answers every callback of the delegate and empties its
\* list, while it takes a job that is no proposal.
LEMMA AnswerPendingKeepsReplyInv ==
    ASSUME ReplyInv, TypeInv', NEW a \in Answers, answerPending(a),
           UNCHANGED <<requests, batch, submitted>>,
           OnceProposed(jobs'), proposed(jobs') = proposed(jobs)
    PROVE  ReplyInv'
<1> DEFINE S == cmdsOf(pending)
<1>1. replies' = respAll(S, a) /\ pending' = <<>>
  BY DEF answerPending
<1>2. cmdsOf(pending)' = {}
  BY <1>1 DEF cmdsOf
<1>3. /\ cmdsOf(batch)' = cmdsOf(batch) /\ ToSet(requests)' = ToSet(requests)
      /\ proposed(jobs)' = proposed(jobs)
  OBVIOUS
<1>4. NoneTwice'
  BY <1>1, ReplyInvParts DEF NoneTwice, OnceProposed
<1>5. NoneInTwo'
  BY <1>2, <1>3, ReplyInvParts DEF NoneInTwo
<1>6. held' \subseteq held \ S /\ S \subseteq held
  BY <1>2, <1>3, ReplyInvParts DEF held, NoneInTwo
<1>7. /\ \A c \in Cmds : c \notin S => replies'[c] = replies[c]
      /\ \A c \in Cmds : Len(replies'[c]) <= Len(replies[c]) + 1
  BY <1>1, ReplyInvParts, RespAllAdds
<1> HIDE DEF S
<1>8. QED
  BY <1>4, <1>5, <1>6, <1>7, LettingGo

\* doPropose moves a callback from its job to the delegate, or answers it.
LEMMA DoProposeKeepsReplyInv ==
    ASSUME ReplyInv, TypeInv', DoPropose
    PROVE  ReplyInv'
<1> DEFINE c == Head(jobs).cmd
<1>1. /\ nextJob("propose") /\ jobs' = Tail(jobs)
      /\ UNCHANGED <<requests, batch, submitted>>
  BY DEF DoPropose, loopVars
<1>2. Head(jobs) \in Job /\ Head(jobs).kind = "propose" /\ jobs # <<>>
  BY <1>1, ReplyInvParts, NextJobType DEF nextJob
<1>3. /\ OnceProposed(jobs') /\ proposed(jobs') = proposed(jobs) \ {c}
      /\ c \in proposed(jobs)
  BY <1>1, <1>2, ReplyInvParts, PopJob
<1>4. c \in Cmds /\ filed(Head(jobs)) \in Filed /\ filed(Head(jobs)).cmd = c
  BY <1>2, JobType DEF filed, Filed
<1> HIDE DEF c
<1>5. /\ cmdsOf(batch)' = cmdsOf(batch) /\ ToSet(requests)' = ToSet(requests)
      /\ proposed(jobs)' = proposed(jobs) \ {c}
  BY <1>1, <1>3
<1>6. CASE registered
  <2>1. pending' = Append(pending, filed(Head(jobs))) /\ UNCHANGED replies
    BY <1>6 DEF DoPropose
  <2>2. c \notin cmdsOf(pending)
    BY <1>3, ReplyInvParts DEF NoneInTwo
  <2>3. Once(pending') /\ cmdsOf(pending') = cmdsOf(pending) \cup {c}
    BY <1>4, <2>1, <2>2, ReplyInvParts, AppendOnce
  <2>4. cmdsOf(pending)' = cmdsOf(pending) \cup {c}
    BY <2>3
  <2>5. NoneTwice'
    BY <1>1, <1>3, <2>3, ReplyInvParts DEF NoneTwice, Once, OnceProposed
  <2>6. NoneInTwo'
    BY <1>3, <1>5, <2>4, ReplyInvParts DEF NoneInTwo
  <2>7. held' = held
    BY <1>3, <1>5, <2>4 DEF held
  <2>8. QED
    BY <1>1, <2>1, <2>5, <2>6, <2>7 DEF ReplyInv, OneHome, AtMostOneReply
<1>7. CASE ~registered
  <2>1. replies' = resp(c, "shardNotFound") /\ UNCHANGED pending
    BY <1>7 DEF DoPropose, c
  <2>2. cmdsOf(pending)' = cmdsOf(pending)
    BY <2>1
  <2>3. NoneTwice'
    BY <1>1, <1>3, <2>1, ReplyInvParts DEF NoneTwice, OnceProposed
  <2>4. NoneInTwo'
    BY <1>5, <2>2, ReplyInvParts DEF NoneInTwo
  <2>5. held' \subseteq held \ {c} /\ {c} \subseteq held
    BY <1>3, <1>5, <2>2, ReplyInvParts DEF held, NoneInTwo
  <2>6. TypeInv /\ "shardNotFound" \in Answers
    BY ReplyInvParts, AnswersType
  <2>7. replies' = respAll({c}, "shardNotFound")
    BY <1>4, <2>1, <2>6, RespAdds
  <2>8. /\ \A d \in Cmds : d \notin {c} => replies'[d] = replies[d]
        /\ \A d \in Cmds : Len(replies'[d]) <= Len(replies[d]) + 1
    BY <2>6, <2>7, RespAllAdds
  <2>9. QED
    BY <1>1, <2>3, <2>4, <2>5, <2>8, LettingGo
<1>8. QED
  BY <1>6, <1>7

\* Applying an entry answers exactly the callbacks it pops.
LEMMA ApplyEntryKeepsReplyInv ==
    ASSUME ReplyInv, TypeInv', NEW e, NEW n \in 0 .. Len(pending), applyEntry(e, n),
           UNCHANGED <<requests, batch, submitted>>,
           OnceProposed(jobs'), proposed(jobs') = proposed(jobs)
    PROVE  ReplyInv'
<1> DEFINE S == cmdsOf(SubSeq(pending, 1, n))
           answer == IF checkEpoch(dEpoch, e) THEN "ok" ELSE "epoch"
<1>1. pending' = SubSeq(pending, n + 1, Len(pending))
  BY DEF applyEntry, rest
<1>2. /\ Once(pending') /\ cmdsOf(pending') \subseteq cmdsOf(pending)
      /\ S \subseteq cmdsOf(pending) /\ S \cap cmdsOf(pending') = {}
      /\ n > 0 => /\ cmdsOf(SubSeq(pending, 1, n - 1)) \subseteq S
                  /\ pending[n].cmd \in S
  BY <1>1, ReplyInvParts, PopOnce
<1>3. /\ cmdsOf(batch)' = cmdsOf(batch) /\ ToSet(requests)' = ToSet(requests)
      /\ proposed(jobs)' = proposed(jobs) /\ cmdsOf(pending)' = cmdsOf(pending')
  OBVIOUS
<1>4. NoneTwice'
  BY <1>2, ReplyInvParts DEF NoneTwice, Once, OnceProposed
<1> HIDE DEF S, answer
<1>5. NoneInTwo'
  BY <1>2, <1>3, ReplyInvParts DEF NoneInTwo
<1>6. held' \subseteq held \ S /\ S \subseteq held
  BY <1>2, <1>3, ReplyInvParts DEF held, NoneInTwo
<1>7. /\ \A c \in Cmds : c \notin S => replies'[c] = replies[c]
      /\ \A c \in Cmds : Len(replies'[c]) <= Len(replies[c]) + 1
  <2>1. TypeInv /\ "stale" \in Answers /\ answer \in Answers
    BY ReplyInvParts, AnswersType DEF answer
  <2>2. CASE e.cmd # Empty /\ found(e, n)
    <3>1. replies' = respAllAnd(cmdsOf(SubSeq(pending, 1, n - 1)), "stale",
                                pending[n].cmd, answer)
      BY <2>2 DEF applyEntry, answer
    <3>2. n > 0
      BY <2>2 DEF found
    <3> DEFINE T == cmdsOf(SubSeq(pending, 1, n - 1))
               d == pending[n].cmd
    <3>3. T \subseteq S /\ d \in S
      BY <1>2, <3>2
    <3>4. replies' = respAllAnd(T, "stale", d, answer)
      BY <3>1
    <3> HIDE DEF T, d
    <3>5. /\ \A c \in Cmds : (c \notin T /\ c # d) => replies'[c] = replies[c]
          /\ \A c \in Cmds : Len(replies'[c]) <= Len(replies[c]) + 1
      BY ZenonT(60), <2>1, <3>4, RespAllAndAdds
    <3>6. QED
      BY <3>3, <3>5
  <2>3. CASE ~(e.cmd # Empty /\ found(e, n))
    <3>1. replies' = respAll(S, "stale")
      BY <2>3 DEF applyEntry, S
    <3>2. QED
      BY <2>1, <3>1, RespAllAdds
  <2>4. QED
    BY <2>2, <2>3
<1>8. QED
  BY <1>4, <1>5, <1>6, <1>7, LettingGo

\* Taking a job that is no proposal leaves the commands of the queue alone.
LEMMA TakeOther ==
    ASSUME ReplyInv, NEW kind, kind # "propose", nextJob(kind), jobs' = Tail(jobs)
    PROVE  OnceProposed(jobs') /\ proposed(jobs') = proposed(jobs)
<1>1. Head(jobs).kind = kind /\ jobs # <<>>
  BY DEF nextJob
<1>2. QED
  BY <1>1, ReplyInvParts, PopJob

LEMMA WorkerKeepsReplyInv ==
    ASSUME ReplyInv, TypeInv', Worker
    PROVE  ReplyInv'
<1>1. CASE DoRegistrationJob
  <2>1. /\ nextJob("register") /\ jobs' = Tail(jobs) /\ answerPending("stale")
        /\ UNCHANGED <<requests, batch, submitted>>
    BY <1>1 DEF DoRegistrationJob, loopVars
  <2>2. OnceProposed(jobs') /\ proposed(jobs') = proposed(jobs)
    BY <2>1, TakeOther
  <2>3. QED
    BY <2>1, <2>2, AnswersType, AnswerPendingKeepsReplyInv
<1>2. CASE DoPropose
  BY <1>2, DoProposeKeepsReplyInv
<1>3. CASE DoApplyCommittedEntries
  <2> DEFINE job == Head(jobs)
             left == [kind |-> "apply", first |-> job.first + 1,
                      entries |-> Tail(job.entries)]
  <2>1. nextJob("apply") /\ UNCHANGED <<requests, batch, submitted>>
    BY <1>3 DEF DoApplyCommittedEntries, loopVars
  <2>2. jobs' = Tail(jobs) \/ jobs' = <<left>> \o Tail(jobs)
    BY <1>3 DEF DoApplyCommittedEntries
  <2>3. OnceProposed(jobs') /\ proposed(jobs') = proposed(jobs)
    <3>1. OnceProposed(Tail(jobs)) /\ proposed(Tail(jobs)) = proposed(jobs)
          /\ Tail(jobs) \in Seq(Job)
      <4>1. Head(jobs).kind = "apply" /\ jobs # <<>>
        BY <2>1 DEF nextJob
      <4>2. QED
        BY <4>1, ReplyInvParts, PopJob, HeadTailProperties
    <3>2. CASE jobs' = <<left>> \o Tail(jobs)
      <4>1. jobs'[1] = left /\ 1 \in DOMAIN jobs' /\ jobs' \in Seq(Job)
        <5>1. jobs' \in Seq(Job)
          BY DEF TypeInv, TypeOK
        <5>2. QED
          BY <3>1, <3>2, <5>1
      <4>2. left.kind # "propose"
        OBVIOUS
      <4> HIDE DEF left
      <4>3. left \in Job
        BY <4>1
      <4>4. QED
        BY <3>1, <3>2, <4>2, <4>3, FrontOther
    <3>3. QED
      BY <2>2, <3>1, <3>2
  <2>4. CASE \E n \in 0 .. Len(pending) : applyEntry(Head(job.entries), n)
    BY <2>1, <2>3, <2>4, ApplyEntryKeepsReplyInv
  <2>5. CASE UNCHANGED <<pending, replies>>
    BY <2>1, <2>3, <2>5, NothingMoves
  <2>6. QED
    BY <1>3, <2>4, <2>5 DEF DoApplyCommittedEntries
<1>4. CASE DoApplyingSnapshotJob
  <2>1. /\ nextJob("snapshot") /\ jobs' = Tail(jobs)
        /\ UNCHANGED <<requests, batch, pending, submitted, replies>>
    BY <1>4 DEF DoApplyingSnapshotJob, loopVars, clientVars
  <2>2. QED
    BY <2>1, TakeOther, NothingMoves
<1>5. CASE DoDestroy
  <2>1. /\ nextJob("destroy") /\ jobs' = Tail(jobs) /\ answerPending("shardNotFound")
        /\ UNCHANGED <<requests, batch, submitted>>
    BY <1>5 DEF DoDestroy, loopVars
  <2>2. OnceProposed(jobs') /\ proposed(jobs') = proposed(jobs)
    BY <2>1, TakeOther
  <2>3. QED
    BY <2>1, <2>2, AnswersType, AnswerPendingKeepsReplyInv
<1>6. CASE RetryMustDestroy \/ RemovePR
  <2>1. UNCHANGED <<requests, batch, jobs, pending, submitted, replies>>
    BY <1>6 DEF RetryMustDestroy, RemovePR, loopVars, delegateVars, clientVars
  <2>2. QED
    BY <2>1, ReplyInvParts, NothingMoves
<1>7. QED
  BY <1>1, <1>2, <1>3, <1>4, <1>5, <1>6 DEF Worker

LEMMA LoopKeepsReplyInv ==
    ASSUME ReplyInv, TypeInv', Loop
    PROVE  ReplyInv'
<1>1. CASE LoopStart \/ HandleApplyResult \/ SkipReady
  <2>1. UNCHANGED <<requests, batch, jobs, pending, submitted, replies>>
    BY <1>1 DEF LoopStart, HandleApplyResult, SkipReady, loopVars, delegateVars, clientVars
  <2>2. QED
    BY <2>1, ReplyInvParts, NothingMoves
<1>2. CASE LoopStop
  BY <1>2, LoopStopKeepsReplyInv
<1>3. CASE HandleRequest
  BY <1>3, HandleRequestKeepsReplyInv
<1>4. CASE ProposeRefused
  <2>1. /\ batch # <<>> /\ batch' = Tail(batch)
        /\ UNCHANGED <<requests, jobs, pending, submitted>>
    BY <1>4 DEF ProposeRefused, delegateVars
  <2>2. \E a \in Answers : replies' = resp(Head(batch).cmd, a)
    BY <1>4, AnswersType DEF ProposeRefused
  <2>3. QED
    BY <2>1, <2>2, ProposeAnswersKeepsReplyInv
<1>5. CASE ProposeForwarded
  <2>1. /\ batch # <<>> /\ batch' = Tail(batch)
        /\ UNCHANGED <<requests, jobs, pending, submitted>>
        /\ replies' = resp(Head(batch).cmd, "notLeader")
    BY <1>5 DEF ProposeForwarded, delegateVars
  <2>2. QED
    BY <2>1, AnswersType, ProposeAnswersKeepsReplyInv
<1>6. CASE ProposeAppended
  BY <1>6, ProposeAppendedKeepsReplyInv
<1>7. CASE SnapshotReady
  <2> DEFINE snap == [kind |-> "snapshot", shard |-> shardAt(snapPend)]
             reg == registrationJob(snapPend, shardAt(snapPend).epoch)
  <2>1. /\ UNCHANGED <<requests, batch, pending, submitted, replies>>
        /\ jobs' = jobs \o <<snap, reg>>
    BY <1>7 DEF SnapshotReady, delegateVars, clientVars
  <2>2. snap \in Job /\ reg \in Job
    <3>1. shardAt(snapPend) \in Shard /\ snapPend \in Nat
      BY ReplyInvParts, ShardAtType DEF TypeInv, RaftInv, RaftTypeOK
    <3>2. QED
      BY <3>1 DEF registrationJob, Job, Shard
  <2>3. snap.kind # "propose" /\ reg.kind # "propose"
    BY DEF registrationJob
  <2> HIDE DEF snap, reg
  <2>4. jobs' = Append(Append(jobs, snap), reg)
    BY <2>1, <2>2, ReplyInvParts
  <2>5. /\ Append(jobs, snap) \in Seq(Job) /\ OnceProposed(Append(jobs, snap))
        /\ proposed(Append(jobs, snap)) = proposed(jobs)
    BY <2>2, <2>3, ReplyInvParts, PushOther, AppendProperties
  <2>6. OnceProposed(jobs') /\ proposed(jobs') = proposed(jobs)
    BY <2>2, <2>3, <2>4, <2>5, PushOther
  <2>7. QED
    BY <2>1, <2>6, NothingMoves
<1>8. CASE HandleReady
  <2> DEFINE job == [kind |-> "apply", first |-> lastReady + 1,
                     entries |-> SubSeq(rlog, lastReady + 1, rcommit)]
  <2>1. /\ UNCHANGED <<requests, batch, pending, submitted, replies>>
        /\ jobs' = jobs \/ jobs' = Append(jobs, job)
    BY <1>8 DEF HandleReady, addApplyJob, delegateVars, clientVars
  <2>2. OnceProposed(jobs') /\ proposed(jobs') = proposed(jobs)
    <3>1. CASE jobs' = Append(jobs, job)
      <4>1. job.kind # "propose"
        OBVIOUS
      <4> HIDE DEF job
      <4>2. jobs' \in Seq(Job) /\ jobs'[Len(jobs')] = job
        <5>1. Append(jobs, job) # <<>> /\ jobs \in Seq(Job)
          BY ReplyInvParts
        <5>2. QED
          BY <3>1, <5>1 DEF TypeInv, TypeOK
      <4>3. job \in Job
        <5>1. jobs' # <<>>
          BY <3>1, ReplyInvParts
        <5>2. QED
          BY <4>2, <5>1, LastInSet
      <4>4. QED
        BY <3>1, <4>1, <4>3, ReplyInvParts, PushOther
    <3>2. QED
      BY <2>1, <3>1, ReplyInvParts
  <2>3. QED
    BY <2>1, <2>2, NothingMoves
<1>9. QED
  BY <1>1, <1>2, <1>3, <1>4, <1>5, <1>6, <1>7, <1>8 DEF Loop

\* ReplyInv is inductive.
LEMMA NextKeepsReplyInv ==
    ASSUME ReplyInv, [Next]_vars
    PROVE  ReplyInv'
<1>1. TypeInv'
  BY ReplyInvParts, NextKeepsTypes
<1>2. ASSUME NEW c \in Cmds, Submit(c)
      PROVE  ReplyInv'
  BY <1>1, <1>2, SubmitKeepsReplyInv
<1>3. CASE Loop
  BY <1>1, <1>3, LoopKeepsReplyInv
<1>4. CASE Worker
  BY <1>1, <1>4, WorkerKeepsReplyInv
<1>5. CASE HandleGCPeerMsg
  <2>1. /\ jobs' = Append(jobs, [kind |-> "destroy"])
        /\ UNCHANGED <<requests, batch, pending, submitted, replies>>
    BY <1>5 DEF HandleGCPeerMsg, addApplyJob, loopVars, delegateVars, clientVars
  <2>2. [kind |-> "destroy"] \in Job
    BY DEF Job
  <2>3. OnceProposed(jobs') /\ proposed(jobs') = proposed(jobs)
    BY <2>1, <2>2, ReplyInvParts, PushOther
  <2>4. QED
    BY <1>1, <2>1, <2>3, NothingMoves
<1>6. CASE HandleStep \/ Group \/ UNCHANGED vars
  <2>1. UNCHANGED <<requests, batch, jobs, pending, submitted, replies>>
    BY <1>6 DEF HandleStep, Group, vars, loopVars, delegateVars, clientVars
  <2>2. QED
    BY <1>1, <2>1, ReplyInvParts, NothingMoves
<1>7. QED
  BY <1>2, <1>3, <1>4, <1>5, <1>6 DEF Next

\* A new replica holds no callback.
LEMMA InitReplyInv == Init => ReplyInv
<1> SUFFICES ASSUME Init PROVE ReplyInv
  OBVIOUS
<1>1. /\ requests = <<>> /\ batch = <<>> /\ pending = <<>> /\ submitted = {}
      /\ replies = [c \in Cmds |-> <<>>] /\ jobs = <<registrationJob(0, 0)>>
  BY DEF Init
<1>2. DOMAIN jobs = {1} /\ jobs[1].kind # "propose"
  BY <1>1 DEF registrationJob
<1>3. ToSet(requests) = {} /\ cmdsOf(batch) = {} /\ cmdsOf(pending) = {}
  BY <1>1 DEF ToSet, cmdsOf
<1>4. proposed(jobs) = {}
  BY <1>2 DEF proposed
<1>5. NoneTwice
  BY <1>1, <1>2 DEF NoneTwice
<1>6. NoneInTwo /\ held \subseteq submitted
  BY <1>3, <1>4 DEF NoneInTwo, held
<1>7. \A c \in Cmds : replies[c] = <<>> /\ Len(replies[c]) <= 1
  BY <1>1
<1>8. QED
  BY <1>5, <1>6, <1>7, InitTypeInv DEF ReplyInv, OneHome, AtMostOneReply

\* At every moment exactly one of the request queue, the batch, the apply
\* worker's queue and the delegate is responsible for a callback, for any
\* number of commands, elections, snapshots and destructions.
THEOREM CallbackHasOneHome == Spec => []OneHome
<1>1. ReplyInv => OneHome
  BY DEF ReplyInv
<1>2. ReplyInv /\ [Next]_vars => ReplyInv'
  BY NextKeepsReplyInv
<1>3. QED
  BY <1>1, <1>2, InitReplyInv, PTL DEF Spec

\* No callback of a command is ever invoked twice.
THEOREM RepliedAtMostOnce == Spec => []AtMostOneReply
<1>1. ReplyInv => AtMostOneReply
  BY DEF ReplyInv
<1>2. ReplyInv /\ [Next]_vars => ReplyInv'
  BY NextKeepsReplyInv
<1>3. QED
  BY <1>1, <1>2, InitReplyInv, PTL DEF Spec
=============================================================================
