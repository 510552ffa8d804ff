---------------------------- MODULE ReplicaReads ----------------------------
(***************************************************************************)
(* Reads through the read index, on top of the pipeline of ReplicaPipeline *)
(* (execReadIndex, readIndexQueue, doApplyReads).                          *)
(*                                                                         *)
(* A read is given to raft, which notes its commit index and asks a quorum *)
(* whether this replica still leads; the answer comes back in a Ready as a *)
(* ReadState, and the read is executed by the event worker once that index *)
(* is applied.  The replica keeps its own queue of the reads it gave to    *)
(* raft, and expects the ReadStates in the order of that queue.            *)
(*                                                                         *)
(* Every action of the pipeline happens here together with what it does to *)
(* the reads.  Raft's readOnly queue and the messages of the read index    *)
(* protocol belong to the external library.                                *)
(***************************************************************************)
EXTENDS ReplicaPipeline, FiniteSets

CONSTANT Reads        \* the reads clients send to this replica

VARIABLES
    readReqs,     \* reads in peerReplica.requests
    readBatch,    \* reads in peerReplica.batch
    pendingReads, \* readIndexQueue.reads, with readIndexCommittedIndex (0: not set)
    readyToRead,  \* readIndexQueue.readyToRead
    prevSoft,     \* the SoftState of the last Ready that was handled
    psTerm,       \* peerStorage.appliedIndexTerm
    dTerm,        \* applyDelegate.appliedIndexTerm
    readOnly,     \* raft: the reads waiting for a quorum, with their index
    readStates,   \* raft: the reads a quorum confirmed, for the next Ready
    readNet,      \* raft: messages of the read index protocol under way
    readReplies,  \* what each read was told, in order
    readFatal     \* how readIndexQueue.ready ended the process

\* Histories: how much of the log some client may know to be written, what
\* that was when a read was submitted, the data it saw, the reads whose
\* ReadState was thrown away, and those executed during a snapshot.
VARIABLES told, toldAt, readSeen, dropped, overtaken

loopReadVars == <<readReqs, readBatch, pendingReads, readyToRead, prevSoft, psTerm>>
raftReadVars == <<readOnly, readStates, readNet>>
answerVars == <<readReplies, readSeen, readFatal, dropped, overtaken>>
readVars == <<loopReadVars, dTerm, raftReadVars, answerVars, told, toldAt>>

ReadState == [read : Reads, index : Nat]

\* A quorum's acknowledgement of a heartbeat that carries a read, a read
\* forwarded to the leader, and the leader's answer to one.
ReadMsg == [kind : {"ack", "readIndex"}, read : Reads]
           \cup [kind : {"resp"}, read : Reads, index : Nat, term : Nat]

\* The type of every variable of the read path.
ReadTypeOK ==
    /\ readReqs \in Seq(Reads) /\ readBatch \in Seq(Reads)
    /\ pendingReads \in Seq(ReadState)
    /\ readyToRead \in 0 .. Len(pendingReads)
    /\ prevSoft \in {"follower", "candidate", "leader"} \X {"self", "other", "none"}
    /\ psTerm \in Nat /\ dTerm \in Nat
    /\ readOnly \in Seq(ReadState) /\ readStates \in Seq(ReadState)
    /\ readNet \subseteq ReadMsg
    /\ readReplies \in [Reads -> Seq({"ok", "notLeader", "stale", "shardNotFound",
                                      "storeNotMatch"})]
    /\ readFatal \in {"no", "uuid not match", "out of range"}
    /\ told \in Nat /\ toldAt \in [Reads -> Nat]
    /\ readSeen \in [Reads -> Seq(Cmds \cup Others)]
    /\ dropped \subseteq Reads /\ overtaken \subseteq Reads

ReadInit ==
    /\ Init
    /\ readReqs = <<>> /\ readBatch = <<>>
    /\ pendingReads = <<>> /\ readyToRead = 0
    /\ prevSoft = <<"follower", "none">>
    /\ psTerm = 0 /\ dTerm = 0
    /\ readOnly = <<>> /\ readStates = <<>> /\ readNet = {}
    /\ readReplies = [r \in Reads |-> <<>>] /\ readFatal = "no"
    /\ told = 0 /\ toldAt = [r \in Reads |-> 0]
    /\ readSeen = [r \in Reads |-> <<>>]
    /\ dropped = {} /\ overtaken = {}

----------------------------------------------------------------------------
(* Answers.                                                                *)

respRead(r, answer) == [readReplies EXCEPT ![r] = Append(@, answer)]

respReads(S, answer) ==
    [r \in Reads |-> IF r \in S THEN Append(readReplies[r], answer) ELSE readReplies[r]]

readsOf(q) == {q[i].read : i \in DOMAIN q}

\* What a client may know of the log: what another leader committed, and what
\* this one learned to be committed.
knownNow == CASE ~gself -> gcommit
              [] gself /\ role = "leader" -> rcommit
              [] OTHER -> 0

\* The history follows the steps that commit entries.
updateTold == told' = IF knownNow' > told THEN knownNow' ELSE told

----------------------------------------------------------------------------
(* Raft's side of the read index protocol.                                 *)

\* reset(): whoever is not leader any more forgets the reads it held.
resetReadOnly ==
    readOnly' = IF role = "leader" /\ role' = "leader" THEN readOnly ELSE <<>>

\* The leader has committed an entry of its term.
committedInTerm == IF rcommit = 0 THEN FALSE ELSE rlog[rcommit].term = rterm

\* A quorum that knows no newer leader acknowledges a heartbeat that carries
\* the read.  The acknowledgement may arrive late.
SendReadAck(r) ==
    /\ role = "leader" /\ gself
    /\ r \in readsOf(readOnly)
    /\ [kind |-> "ack", read |-> r] \notin readNet
    /\ readNet' = readNet \cup {[kind |-> "ack", read |-> r]}
    /\ UNCHANGED <<vars, loopReadVars, dTerm, readOnly, readStates, answerVars, told, toldAt>>

\* MsgHeartbeatResp: the read and those before it become ReadStates.
RecvReadAck(r) ==
    /\ pc = "step" /\ role = "leader"
    /\ [kind |-> "ack", read |-> r] \in readNet
    /\ \E i \in DOMAIN readOnly :
          /\ readOnly[i].read = r
          /\ readStates' = readStates \o SubSeq(readOnly, 1, i)
          /\ readOnly' = SubSeq(readOnly, i + 1, Len(readOnly))
    /\ readNet' = readNet \ {[kind |-> "ack", read |-> r]}
    /\ UNCHANGED <<vars, loopReadVars, dTerm, answerVars, told, toldAt>>

\* Another replica, the leader, answers a read this replica forwarded, once
\* it has committed an entry of its term.
AnswerForwarded(r) ==
    /\ ~gself /\ gcommit > 0 /\ glog[gcommit].term = gterm
    /\ [kind |-> "readIndex", read |-> r] \in readNet
    /\ readNet' = (readNet \ {[kind |-> "readIndex", read |-> r]})
                  \cup {[kind |-> "resp", read |-> r, index |-> gcommit, term |-> gterm]}
    /\ UNCHANGED <<vars, loopReadVars, dTerm, readOnly, readStates, answerVars, told, toldAt>>

\* MsgReadIndexResp: a follower keeps the answer as a ReadState.
RecvReadIndexResp ==
    /\ pc = "step" /\ role = "follower"
    /\ \E m \in readNet :
          /\ m.kind = "resp" /\ m.term = rterm
          /\ readStates' = Append(readStates, [read |-> m.read, index |-> m.index])
          /\ readNet' = readNet \ {m}
    /\ UNCHANGED <<vars, loopReadVars, dTerm, readOnly, answerVars, told, toldAt>>

----------------------------------------------------------------------------
(* The queue of the replica.                                               *)

\* readyToHandleRead: the empty entry of the current term is applied.
readyToHandleRead(term) == term = cachedTerm

\* The position in the queue of the i-th ReadState of a Ready.
slot(i) == readyToRead + i

\* readIndexQueue.ready, for all ReadStates of a Ready: each is the one the
\* queue expects next.
inOrder ==
    \A i \in DOMAIN readStates :
        slot(i) <= Len(pendingReads) /\ pendingReads[slot(i)].read = readStates[i].read

\* Or the first that is not ends the process.
firstBad(i) ==
    /\ ~(slot(i) <= Len(pendingReads) /\ pendingReads[slot(i)].read = readStates[i].read)
    /\ \A j \in 1 .. i - 1 : slot(j) <= Len(pendingReads)
                             /\ pendingReads[slot(j)].read = readStates[j].read

\* The queue with the indexes the ReadStates gave to it.
confirmed ==
    [i \in DOMAIN pendingReads |->
        IF i \in readyToRead + 1 .. readyToRead + Len(readStates)
        THEN [pendingReads[i] EXCEPT !.index = readStates[i - readyToRead].index]
        ELSE pendingReads[i]]

\* Mutant of mayRead: the index need not be applied.
mayRead_early(c, applied) == c.index > 0

\* doReadLEAppliedIndex: a read whose index is known and applied.
mayRead(c, applied) == c.index > 0 /\ c.index <= applied

\* The reads of a queue that are executed.
executable(q, applied) == {q[i].read : i \in {k \in DOMAIN q : mayRead(q[k], applied)}}

\* The j-th smallest number of a set, and the elements of q at the positions
\* of a set, in order.
nth(K, j) == CHOOSE i \in K : Cardinality({k \in K : k <= i}) = j
selectAt(q, K) == [j \in 1 .. Cardinality(K) |-> q[nth(K, j)]]

\* Mutants of remaining: the queue is emptied, or left as it was.
remaining_none(q, applied) == <<>>
remaining_all(q, applied) == q

\* The reads that stay.
remaining(q, applied) == selectAt(q, {i \in DOMAIN q : ~mayRead(q[i], applied)})

\* doExecReadCmd on a set of reads, which see the data that is there.
see(S, d) == readSeen' = [r \in Reads |-> IF r \in S THEN d ELSE readSeen[r]]

----------------------------------------------------------------------------
(* The actions: the clients, and the steps of the pipeline with what they  *)
(* do to the reads.                                                        *)

\* onRequestWithCB with a read.
SubmitRead(r) ==
    /\ readReplies[r] = <<>> /\ r \notin ToSet(readReqs) \cup ToSet(readBatch)
    /\ r \notin readsOf(pendingReads)
    /\ toldAt' = [toldAt EXCEPT ![r] = told]
    /\ IF live /\ ~stopped
       THEN readReqs' = Append(readReqs, r) /\ UNCHANGED readReplies
       ELSE readReplies' = respRead(r, "storeNotMatch") /\ UNCHANGED readReqs
    /\ UNCHANGED <<vars, readBatch, pendingReads, readyToRead, prevSoft, psTerm, dTerm,
                   raftReadVars, readSeen, readFatal, dropped, overtaken, told>>

\* The stop branch of handleEvent answers the queue and the batch, and not
\* the reads that wait for raft.
StopWithReads ==
    /\ LoopStop
    /\ readReplies' = respReads(ToSet(readReqs) \cup ToSet(readBatch), "storeNotMatch")
    /\ readReqs' = <<>> /\ readBatch' = <<>>
    /\ UNCHANGED <<pendingReads, readyToRead, prevSoft, psTerm, dTerm, raftReadVars,
                   readSeen, readFatal, dropped, overtaken, told, toldAt>>

\* handleStep and handleTick.
StepWithReads ==
    /\ HandleStep
    /\ resetReadOnly
    /\ updateTold
    /\ UNCHANGED <<loopReadVars, dTerm, readStates, readNet, answerVars, toldAt>>

\* handleApplyResult: doPostApply takes over the applied index and term, and
\* executes the reads that waited for them (maybeExecRead).
ApplyResultWithReads ==
    /\ HandleApplyResult
    /\ psTerm' = IF results = <<>> THEN psTerm ELSE dTerm
    /\ LET S == executable(pendingReads, psApplied') IN
       IF results # <<>> /\ readyToRead > 0 /\ readyToHandleRead(psTerm')
       THEN /\ pendingReads' = remaining(pendingReads, psApplied')
            /\ readyToRead' = readyToRead - Cardinality(S)
            /\ readReplies' = respReads(S, "ok")
            /\ see(S, data)
       ELSE UNCHANGED <<pendingReads, readyToRead, readReplies, readSeen>>
    /\ UNCHANGED <<readReqs, readBatch, prevSoft, dTerm, raftReadVars, readFatal,
                   dropped, overtaken, told, toldAt>>

\* Mutant of RequestWithReads: a read is taken from the queue and not pushed
\* to the batch.
RequestWithReads_notPushed ==
    /\ HandleRequest
    /\ readReqs' = <<>>
    /\ UNCHANGED <<readBatch, pendingReads, readyToRead, prevSoft, psTerm, dTerm,
                   raftReadVars, answerVars, told, toldAt>>

\* handleRequest, first loop.
RequestWithReads ==
    /\ HandleRequest
    /\ readBatch' = readBatch \o readReqs
    /\ readReqs' = <<>>
    /\ UNCHANGED <<pendingReads, readyToRead, prevSoft, psTerm, dTerm, raftReadVars,
                   answerVars, told, toldAt>>

\* propose() of a read that is refused: the replica is gone, was not leader
\* when the round started, or raft did nothing with the read, because it is
\* leader without a committed entry of its term or knows no leader.
ReadRefused ==
    /\ pc = "propose" /\ readBatch # <<>>
    /\ \/ ~live /\ readReplies' = respRead(Head(readBatch), "shardNotFound")
       \/ /\ live
          /\ \/ cachedLead # "self"
             \/ role = "leader" /\ ~committedInTerm
             \/ role # "leader" /\ rlead = "none"
          /\ readReplies' = respRead(Head(readBatch), "notLeader")
    /\ readBatch' = Tail(readBatch)
    /\ UNCHANGED <<vars, readReqs, pendingReads, readyToRead, prevSoft, psTerm, dTerm,
                   raftReadVars, readSeen, readFatal, dropped, overtaken, told, toldAt>>

\* execReadIndex: the counts of raft did not change because raft, follower
\* since this round's steps, forwarded the read to the leader it knows.
ReadForwarded ==
    /\ pc = "propose" /\ readBatch # <<>>
    /\ live /\ cachedLead = "self" /\ rlead = "other"
    /\ readNet' = readNet \cup {[kind |-> "readIndex", read |-> Head(readBatch)]}
    /\ readReplies' = respRead(Head(readBatch), "notLeader")
    /\ readBatch' = Tail(readBatch)
    /\ UNCHANGED <<vars, readReqs, pendingReads, readyToRead, prevSoft, psTerm, dTerm,
                   readOnly, readStates, readSeen, readFatal, dropped, overtaken, told, toldAt>>

\* execReadIndex: raft holds the read until a quorum confirms, with the commit
\* index it has now, and so does the queue.
ReadAccepted ==
    /\ pc = "propose" /\ readBatch # <<>>
    /\ live /\ cachedLead = "self" /\ role = "leader"
    /\ committedInTerm
    /\ readOnly' = Append(readOnly, [read |-> Head(readBatch), index |-> rcommit])
    /\ pendingReads' = Append(pendingReads, [read |-> Head(readBatch), index |-> 0])
    /\ readBatch' = Tail(readBatch)
    /\ UNCHANGED <<vars, readReqs, readyToRead, prevSoft, psTerm, dTerm, readStates,
                   readNet, answerVars, told, toldAt>>

\* doApplyReads, first half, on the ReadStates of a Ready: confirm reads and
\* execute those that may be, which see data d.  Without an applied entry of
\* the term the ReadStates are forgotten.  q, n and S are the queue, the
\* number of confirmed reads left in it, and the reads executed.
handleReadStates(applied, d, q, n, S) ==
    IF ~readyToHandleRead(psTerm) \/ readStates = <<>>
    THEN /\ q = pendingReads /\ n = readyToRead /\ S = {}
         /\ dropped' = dropped \cup readsOf(readStates)
         /\ UNCHANGED <<readSeen, readFatal>>
    ELSE IF inOrder
    THEN /\ S = executable(confirmed, applied)
         /\ q = remaining(confirmed, applied)
         /\ n = readyToRead + Len(readStates) - Cardinality(S)
         /\ see(S, d)
         /\ UNCHANGED <<readFatal, dropped>>
    ELSE /\ q = pendingReads /\ n = readyToRead /\ S = {}
         /\ \E i \in DOMAIN readStates :
               /\ firstBad(i)
               /\ readFatal' = IF slot(i) > Len(pendingReads)
                               THEN "out of range" ELSE "uuid not match"
         /\ UNCHANGED <<readSeen, dropped>>

\* The SoftState of the Ready says that leadership is lost.
leaderLost == prevSoft # <<role, rlead>> /\ role # "leader"

\* doApplyReads: then, if leadership was lost, all that is left is stale.
doApplyReads(applied, d) ==
    /\ readBatch = <<>>
    /\ \E S \in SUBSET Reads :
       \E q \in {pendingReads, remaining(confirmed, applied)} :
       \E n \in 0 .. Len(pendingReads) :
          /\ handleReadStates(applied, d, q, n, S)
          /\ pendingReads' = IF leaderLost THEN <<>> ELSE q
          /\ readyToRead' = IF leaderLost THEN 0 ELSE n
          /\ readReplies' = [r \in Reads |->
                CASE r \in S -> Append(readReplies[r], "ok")
                  [] leaderLost /\ r \in readsOf(q) -> Append(readReplies[r], "stale")
                  [] OTHER -> readReplies[r]]
    /\ readStates' = <<>>
    /\ prevSoft' = <<role, rlead>>
    /\ UNCHANGED <<readReqs, readBatch, psTerm, dTerm, readOnly, readNet, told, toldAt>>

\* handleReady.
ReadyWithReads ==
    /\ HandleReady
    /\ doApplyReads(psApplied, data)
    /\ UNCHANGED overtaken

\* handleReady with a snapshot: its job is queued before the reads are
\* executed, and the apply worker may have got anywhere with it.
SnapshotReadyWithReads ==
    /\ SnapshotReady
    /\ \E d \in {data, <<>>, shardAt(snapPend).data} : doApplyReads(snapPend, d)
    /\ overtaken' = overtaken \cup {r \in Reads : readReplies'[r] # readReplies[r]}

\* The delegate's term is that of the last empty entry it applied.
ApplyWithReads ==
    /\ DoApplyCommittedEntries
    /\ dTerm' = IF dApplied' # dApplied /\ Head(Head(jobs).entries).cmd = Empty
                THEN Head(Head(jobs).entries).term ELSE dTerm
    /\ UNCHANGED <<loopReadVars, raftReadVars, answerVars, told, toldAt>>

\* The group goes on.
GroupWithReads ==
    /\ Group
    /\ updateTold
    /\ UNCHANGED <<loopReadVars, dTerm, raftReadVars, answerVars, toldAt>>

\* A Fatalf or a panic of the queue ends the process.
running == readFatal = "no"

\* The steps of the event worker; some do not touch the reads.
ReadLoop ==
    \/ running /\ StopWithReads
    \/ running /\ ApplyResultWithReads
    \/ running /\ RequestWithReads
    \/ running /\ ReadRefused
    \/ running /\ ReadForwarded
    \/ running /\ ReadAccepted
    \/ running /\ ReadyWithReads
    \/ running /\ SnapshotReadyWithReads
    \/ running /\ LoopStart /\ UNCHANGED readVars
    \/ running /\ ProposeRefused /\ UNCHANGED readVars
    \/ running /\ ProposeForwarded /\ UNCHANGED readVars
    \/ running /\ ProposeAppended /\ UNCHANGED readVars
    \/ running /\ SkipReady /\ readBatch = <<>> /\ UNCHANGED readVars

\* The steps of the apply worker.
ReadWorker ==
    \/ running /\ ApplyWithReads
    \/ running /\ DoRegistrationJob /\ UNCHANGED readVars
    \/ running /\ DoPropose /\ UNCHANGED readVars
    \/ running /\ DoApplyingSnapshotJob /\ UNCHANGED readVars
    \/ running /\ DoDestroy /\ UNCHANGED readVars
    \/ running /\ RetryMustDestroy /\ UNCHANGED readVars
    \/ running /\ RemovePR /\ UNCHANGED readVars

ReadNext ==
    \/ \E r \in Reads : running /\ SubmitRead(r)
    \/ \E r \in Reads : running /\ SendReadAck(r)
    \/ \E r \in Reads : running /\ RecvReadAck(r)
    \/ \E r \in Reads : running /\ AnswerForwarded(r)
    \/ running /\ RecvReadIndexResp
    \/ running /\ StepWithReads
    \/ ReadLoop
    \/ ReadWorker
    \/ running /\ GroupWithReads
    \/ \E c \in Cmds : running /\ Submit(c) /\ UNCHANGED readVars
    \/ running /\ HandleGCPeerMsg /\ UNCHANGED readVars

ReadSpec == ReadInit /\ [][ReadNext]_<<vars, readVars>>

----------------------------------------------------------------------------
(* Properties.                                                             *)

\* Reads are linearizable: one that is answered has seen every write that any
\* client could know of when the read was submitted, although the leader that
\* accepted it may be deposed since.  Not so for a read executed while a
\* snapshot replaces the data under it.
ReadSeesTold ==
    \A r \in Reads \ overtaken : "ok" \in ToSet(readReplies[r]) =>
        IsPrefix(shardAt(toldAt[r]).data, readSeen[r])

\* The two queues of a leader agree: the reads raft will still report, in the
\* order it will, are those the replica waits for, but for the ReadStates that
\* doApplyReads threw away.
QueuesAgree ==
    (role = "leader" /\ running) =>
        LET expected == selectAt(pendingReads,
                            {i \in readyToRead + 1 .. Len(pendingReads) :
                                pendingReads[i].read \notin dropped})
            coming == readStates \o readOnly
        IN /\ Len(expected) = Len(coming)
           /\ \A i \in DOMAIN expected : expected[i].read = coming[i].read

\* A read is answered at most once, and not while it waits: not by the queue
\* and by the loss of leadership, nor by a ReadState that comes after it.
OneReadReply ==
    \A r \in Reads :
        /\ Len(readReplies[r]) <= 1
        /\ r \in readsOf(pendingReads) => readReplies[r] = <<>>

\* The assertion of readIndexQueue.ready: a ReadState is the one of the read
\* the queue expects next.
UuidsMatch == readFatal # "uuid not match"

----------------------------------------------------------------------------
(* Fairness, as for the pipeline; and heartbeats are sent on every tick, so *)
(* a leader that keeps its quorum hears of its reads.                      *)

ReadFairness ==
    /\ WF_<<vars, readVars>>(ReadLoop)
    /\ WF_<<vars, readVars>>(ReadWorker)
    /\ WF_<<vars, readVars>>(running /\ NoLeader /\ OtherElected /\ GroupWithReads)
    /\ WF_<<vars, readVars>>(running /\ GroupCommit /\ GroupWithReads)
    /\ WF_<<vars, readVars>>(running /\ SnapshotFileArrives /\ GroupWithReads)
    /\ WF_<<vars, readVars>>(\E r \in Reads : running /\ SendReadAck(r))
    /\ SF_<<vars, readVars>>(\E r \in Reads : running /\ RecvReadAck(r))
    /\ SF_<<vars, readVars>>(running /\ CatchUp /\ StepWithReads)
    /\ SF_<<vars, readVars>>(running /\ LearnCommit /\ StepWithReads)

FairReadSpec == ReadSpec /\ ReadFairness

\* The read is in the hands of this replica.
taken(r) == r \in ToSet(readReqs) \cup ToSet(readBatch) \cup readsOf(pendingReads)

\* Every read is answered, or one of four things happened: its ReadState was
\* thrown away, the replica was destroyed, a snapshot is blocked for good, or
\* the process died.
EveryReadAnswered ==
    \A r \in Reads : taken(r) ~>
        \/ readReplies[r] # <<>>
        \/ r \in dropped
        \/ disposed
        \/ SnapshotBlocked
        \/ ~running

=============================================================================
