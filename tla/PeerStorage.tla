---------------------------- MODULE PeerStorage ----------------------------
(***************************************************************************)
(* What one replica keeps on disk, and what is left of it after a crash.   *)
(*                                                                         *)
(* The metadata storage holds the raft log, the raft and the apply state   *)
(* and the state of the replica; the data storage holds what the commands  *)
(* wrote.  The two are different databases, and a crash takes from each of *)
(* them, on its own, a suffix of the writes that were not synced.  The     *)
(* event worker writes the log (handleRaftReadyAppend), the apply worker   *)
(* the data, the apply state and a snapshot (doApplyRaftCMD,               *)
(* doCompactRaftLog, doApplyingSnapshotJob), and a restart builds the      *)
(* replica again from what it finds (startShards, newPeerStorage).         *)
(*                                                                         *)
(* Indexes count from 0 where the code starts at raftInitLogIndex.  The    *)
(* replica exists and is not destroyed; raft itself is external.           *)
(***************************************************************************)
EXTENDS Naturals, Sequences, SequencesExt, FiniteSets, FiniteSetsExt

CONSTANTS
    MaxIndex,     \* bound: length of the log the group agrees on
    Logs,         \* the logs it may agree on
    MaxAppend,    \* bound: entries in one Ready
    MaxFiles,     \* bound: snapshot files kept at a time
    MaxCrashes    \* bound: how often the store crashes

ASSUME BoundsAssumption ==
    /\ MaxIndex \in Nat \ {0} /\ MaxAppend \in Nat \ {0}
    /\ MaxFiles \in Nat /\ MaxCrashes \in Nat

VARIABLES
    agreed,       \* the entries the group agrees on, by index (external)
    pendingSnap,  \* the index of raft's pending snapshot, or 0 (external)
    metas,        \* the metadata: the current version last, before it those
                  \* a crash may bring back
    datas,        \* the data, likewise: the writes it contains, by index
    files,        \* the indexes of which a complete snapshot file was received
    alive,        \* whether the store runs
    ps,           \* peerStorage.raftApplyState
    lastReady,    \* peerStorage.lastReadyIndex
    lastCompact,  \* peerStorage.lastCompactIndex
    jobs,         \* the queue of the apply worker, the running job first
    step,         \* how far the running job is
    delegate,     \* applyDelegate.applyState, or NoDelegate
    results,      \* peerReplica.applyResults
    fatal         \* the process ended on purpose

\* Histories: the log entries raft was told to be stable, whether the data of
\* a snapshot is not synced yet, and whether the data of one is missing: its
\* job failed, or a crash took the data after the file was deleted, and no
\* snapshot of the applied index was installed since.
VARIABLES stable, unsynced, snapshotLost

VARIABLE crashes

diskVars == <<metas, datas, files>>
loopVars == <<ps, lastReady, lastCompact>>
workerVars == <<jobs, step, delegate>>
historyVars == <<stable, unsynced, snapshotLost>>
vars == <<agreed, pendingSnap, diskVars, alive, loopVars, workerVars, results, fatal,
          historyVars, crashes>>

Indexes == 1 .. MaxIndex

\* What an entry does: a write, nothing (the entry of a new leader), or the
\* compaction of the log up to an index before it.
Entry == [kind : {"write", "empty"}, to : {0}] \cup [kind : {"compact"}, to : Indexes]
AgreedLogs == {l \in [Indexes -> Entry] : \A i \in Indexes : l[i].to < i}

ASSUME LogsAssumption == Logs \subseteq AgreedLogs

Meta == Last(metas)
Data == Last(datas)

\* The indexes up to n whose entry writes data.
writes(n) == {i \in 1 .. n : agreed[i].kind = "write"}

NoDelegate == [applied |-> 0, trunc |-> MaxIndex + 1]
ApplyState == [applied : 0 .. MaxIndex, trunc : 0 .. MaxIndex]
Job == [kind : {"apply", "snapshot", "register", "compact"},
        from : 0 .. MaxIndex, to : 0 .. MaxIndex]

\* The type of every variable.
TypeOK ==
    /\ agreed \in AgreedLogs /\ pendingSnap \in 0 .. MaxIndex
    /\ \A m \in Range(metas) :
          /\ m.state \in {"normal", "applying"}
          /\ m.last \in 0 .. MaxIndex /\ m.commit \in 0 .. MaxIndex
          /\ m.applied \in 0 .. MaxIndex /\ m.trunc \in 0 .. MaxIndex
          /\ DOMAIN m.log \subseteq Indexes /\ Range(m.log) \subseteq {"agreed", "lost"}
    /\ Len(metas) > 0 /\ Len(datas) > 0
    /\ Range(datas) \subseteq SUBSET Indexes /\ files \subseteq Indexes
    /\ alive \in BOOLEAN /\ ps \in ApplyState
    /\ lastReady \in 0 .. MaxIndex /\ lastCompact \in 0 .. MaxIndex
    /\ jobs \in Seq(Job)
    /\ step \in {"start", "written", "removed", "installed", "cleaned"}
    /\ delegate \in ApplyState \cup {NoDelegate}
    /\ \A r \in Range(results) : r.first \in 0 .. MaxIndex /\ r.state \in ApplyState
    /\ fatal \in BOOLEAN /\ unsynced \in BOOLEAN /\ snapshotLost \in BOOLEAN
    /\ crashes \in 0 .. MaxCrashes
    /\ DOMAIN stable \subseteq Indexes /\ Range(stable) \subseteq {"agreed", "lost"}

emptyLog == [i \in {} |-> "agreed"]

Init ==
    /\ agreed \in Logs /\ pendingSnap = 0
    /\ metas = <<[state |-> "normal", last |-> 0, commit |-> 0, applied |-> 0,
                  trunc |-> 0, log |-> emptyLog]>>
    /\ datas = <<{}>> /\ files = {}
    /\ alive = TRUE
    /\ ps = [applied |-> 0, trunc |-> 0] /\ lastReady = 0 /\ lastCompact = 0
    /\ jobs = <<[kind |-> "register", from |-> 0, to |-> 0]>> /\ step = "start"
    /\ delegate = NoDelegate /\ results = <<>> /\ fatal = FALSE
    /\ stable = emptyLog /\ unsynced = FALSE /\ snapshotLost = FALSE /\ crashes = 0

running == alive /\ ~fatal

\* A batch written with sync makes everything before it durable; one written
\* without may be lost in a crash, with what follows it.  An empty batch is not
\* written at all.
writeSync(m) == metas' = <<m>>
writeNoSync(m) == metas' = Append(metas, m)

----------------------------------------------------------------------------
(* The event worker.                                                       *)

isApplyingSnapshot == \E j \in Range(jobs) : j.kind = "snapshot"
isApplyComplete == Meta.commit = ps.applied

\* Entries from .. last replace the log's tail; those up to n are agreed on.
doAppendEntries(log, from, last, n) ==
    [i \in {x \in DOMAIN log : x < from} \cup from .. last |->
        IF i < from THEN log[i] ELSE IF i <= n THEN "agreed" ELSE "lost"]

\* Raft hands out a Ready: the entries from .. last to append (none when last
\* is before from) of which those up to n are agreed on, and the commit index.
readyOfRaft(from, last, n, commit) ==
    /\ from \in Meta.commit + 1 .. Meta.last + 1
    /\ last < from + MaxAppend
    /\ last >= from \/ (from = Meta.last + 1 /\ last = Meta.last)
    /\ n >= from => \A i \in DOMAIN Meta.log : i < from => Meta.log[i] = "agreed"
    /\ LET log == doAppendEntries(Meta.log, from, last, n)
       IN \A i \in DOMAIN log : i <= commit => log[i] = "agreed"

applyCommittedEntries_skipped(commit) ==
    /\ lastReady' = Max({commit, lastReady})
    /\ IF delegate # NoDelegate /\ commit > lastReady
       THEN jobs' = Append(jobs, [kind |-> "apply", from |-> lastReady + 1, to |-> commit])
       ELSE UNCHANGED jobs

\* applyCommittedEntries: committed entries go to the apply worker, once the
\* delegate is registered.
applyCommittedEntries(commit) ==
    IF delegate # NoDelegate /\ commit > lastReady
    THEN /\ jobs' = Append(jobs, [kind |-> "apply", from |-> lastReady + 1, to |-> commit])
         /\ lastReady' = commit
    ELSE UNCHANGED <<jobs, lastReady>>

saveReady_noSync(from, last, n, commit) ==
    writeNoSync([Meta EXCEPT !.log = doAppendEntries(@, from, last, n),
                             !.last = last, !.commit = commit])

\* The log, the last index and the hard state are saved in one synced batch,
\* which is empty when a Ready only hands out committed entries.
saveReady(from, last, n, commit) ==
    IF last >= from \/ commit # Meta.commit
    THEN writeSync([Meta EXCEPT !.log = doAppendEntries(@, from, last, n),
                                !.last = last, !.commit = commit])
    ELSE UNCHANGED metas

\* With a snapshot pending in raft, handleReady returns early or hands it out.
HandleReady(from, last, n, commit) ==
    /\ running /\ ~isApplyingSnapshot /\ pendingSnap = 0
    /\ readyOfRaft(from, last, n, commit)
    /\ last >= from \/ commit > Meta.commit \/ commit > lastReady
    /\ saveReady(from, last, n, commit)
    /\ applyCommittedEntries(commit)
    /\ stable' = doAppendEntries(Meta.log, from, last, n)
    /\ UNCHANGED <<agreed, pendingSnap, datas, files, alive, ps, lastCompact, step,
                   delegate, results, fatal, unsynced, snapshotLost, crashes>>

\* The committed entries that could not be handed over yet.
HandleCommitted == HandleReady(Meta.last + 1, Meta.last, Meta.last, Meta.commit)

\* Raft accepts a snapshot beyond what it knows to be committed (external).
RecvSnapshot(s) ==
    /\ running /\ s > Meta.commit /\ s > pendingSnap
    /\ pendingSnap' = s
    /\ UNCHANGED <<agreed, diskVars, alive, loopVars, workerVars, results, fatal,
                   historyVars, crashes>>

\* A job of the apply worker completes a snapshot file (ReceiveSnapData), which
\* may come late or once more.
ReceiveFile(s) ==
    /\ running /\ step = "start" /\ s \notin files /\ Cardinality(files) < MaxFiles
    /\ files' = files \cup {s}
    /\ UNCHANGED <<agreed, pendingSnap, metas, datas, alive, loopVars, workerVars,
                   results, fatal, historyVars, crashes>>

\* The snapshot manager deletes files that are two hours old.
GCFile(s) ==
    /\ running /\ s \in files
    /\ files' = files \ {s}
    /\ UNCHANGED <<agreed, pendingSnap, metas, datas, alive, loopVars, workerVars,
                   results, fatal, historyVars, crashes>>

waitsForApply == isApplyComplete

\* A Ready with a snapshot, and perhaps with entries up to last after it: the
\* metadata is replaced in one synced batch, then the snapshot job and a new
\* registration are queued.  Entries committed after it wait for a later Ready.
SnapshotReady(s, last, n, commit) ==
    /\ running /\ ~isApplyingSnapshot /\ waitsForApply
    /\ pendingSnap = s /\ s \in files
    /\ last \in s .. s + MaxAppend /\ commit <= n
    /\ LET log == doAppendEntries(emptyLog, s + 1, last, n)
       IN /\ writeSync([state |-> "applying", last |-> last, commit |-> commit,
                        applied |-> s, trunc |-> s, log |-> log])
          /\ stable' = log
    /\ ps' = [applied |-> s, trunc |-> s] /\ lastReady' = s
    /\ jobs' = jobs \o <<[kind |-> "snapshot", from |-> s, to |-> s],
                         [kind |-> "register", from |-> s, to |-> s]>>
    /\ pendingSnap' = 0
    /\ UNCHANGED <<agreed, datas, files, alive, lastCompact, step, delegate, results,
                   fatal, unsynced, snapshotLost, crashes>>

compactJob_more(from, to) == [kind |-> "compact", from |-> from, to |-> to + 2]
compactJob(from, to) == [kind |-> "compact", from |-> from, to |-> to + 1]

\* doApplyCompactRaftLog divides by the entries handed out after the first
\* index, and counts those after the new truncated one.
sizeHintFails(r) == lastReady <= r.first \/ lastReady <= r.state.trunc

\* doPostApply takes over the apply state; a compaction queues the deletion.
PostApply ==
    /\ running /\ results # <<>>
    /\ LET r == Head(results)
           compacted == r.first > 0
       IN /\ ps' = r.state
          /\ fatal' = (compacted /\ sizeHintFails(r))
          /\ jobs' = IF compacted THEN Append(jobs, compactJob(lastCompact, r.state.trunc))
                     ELSE jobs
          /\ lastCompact' = IF compacted THEN r.state.trunc + 1 ELSE lastCompact
    /\ results' = Tail(results)
    /\ UNCHANGED <<agreed, pendingSnap, diskVars, alive, lastReady, step, delegate,
                   historyVars, crashes>>

----------------------------------------------------------------------------
(* The apply worker.                                                       *)

runs(kind) == running /\ jobs # <<>> /\ Head(jobs).kind = kind

Register ==
    /\ runs("register")
    /\ delegate' = [applied |-> Head(jobs).from, trunc |-> Head(jobs).to]
    /\ jobs' = Tail(jobs)
    /\ UNCHANGED <<agreed, pendingSnap, diskVars, alive, loopVars, step, results, fatal,
                   historyVars, crashes>>

\* The rest of the running apply job after one of its entries.
nextEntry ==
    LET j == Head(jobs)
    IN jobs' = IF j.from = j.to THEN Tail(jobs)
               ELSE <<[j EXCEPT !.from = @ + 1]>> \o Tail(jobs)

\* An entry is only applied right after the one before it.
indexMatches == Head(jobs).from = delegate.applied + 1

applying(kinds) ==
    /\ runs("apply") /\ indexMatches
    /\ agreed[Head(jobs).from].kind \in kinds

\* The apply state of an empty entry is saved without sync.
ApplyEmpty ==
    /\ applying({"empty"})
    /\ LET state == [delegate EXCEPT !.applied = @ + 1]
       IN /\ delegate' = state
          /\ writeNoSync([Meta EXCEPT !.applied = state.applied, !.trunc = state.trunc])
          /\ results' = Append(results, [first |-> 0, state |-> state])
    /\ nextEntry
    /\ UNCHANGED <<agreed, pendingSnap, datas, files, alive, loopVars, step, fatal,
                   historyVars, crashes>>

writeData_noSync(d) == datas' = Append(datas, d)
writeData(d) == datas' = <<d>>

\* The data of a command is written first, with sync; a compaction has none.
ApplyData ==
    /\ applying({"write", "compact"}) /\ step = "start"
    /\ IF agreed[Head(jobs).from].kind = "write"
       THEN writeData(Data \cup {Head(jobs).from}) /\ unsynced' = FALSE
       ELSE UNCHANGED <<datas, unsynced>>
    /\ step' = "written"
    /\ UNCHANGED <<agreed, pendingSnap, metas, files, alive, loopVars, jobs, delegate,
                   results, fatal, stable, snapshotLost, crashes>>

\* compactRaftLog, on the apply state before the entry.
compactTo(e) == IF e.kind = "compact" /\ e.to > delegate.trunc + 1 THEN e.to ELSE delegate.trunc

\* Then the apply state, with sync.
ApplyMeta ==
    /\ applying({"write", "compact"}) /\ step = "written"
    /\ LET to == compactTo(agreed[Head(jobs).from])
           state == [applied |-> delegate.applied + 1, trunc |-> to]
       IN /\ delegate' = state
          /\ writeSync([Meta EXCEPT !.applied = state.applied, !.trunc = to])
          /\ results' = Append(results, [first |-> IF to > delegate.trunc
                                                   THEN delegate.trunc + 1 ELSE 0,
                                         state |-> state])
    /\ step' = "start" /\ nextEntry
    /\ UNCHANGED <<agreed, pendingSnap, datas, files, alive, loopVars, fatal,
                   historyVars, crashes>>

\* doCompactRaftLog: the first job after a restart looks for the first key.
CompactRaftLog ==
    /\ runs("compact")
    /\ LET from == IF Head(jobs).from = 0 THEN Min(DOMAIN Meta.log \cup {Head(jobs).to})
                   ELSE Head(jobs).from
           log == [i \in DOMAIN Meta.log \ (from .. Head(jobs).to - 1) |-> Meta.log[i]]
       IN IF from < Head(jobs).to THEN writeNoSync([Meta EXCEPT !.log = log])
          ELSE UNCHANGED metas
    /\ jobs' = Tail(jobs)
    /\ UNCHANGED <<agreed, pendingSnap, datas, files, alive, loopVars, step, delegate,
                   results, fatal, historyVars, crashes>>

\* doApplyingSnapshotJob removes the shard's data,
SnapshotRemove ==
    /\ runs("snapshot") /\ step = "start"
    /\ datas' = Append(datas, {})
    /\ step' = "removed"
    /\ UNCHANGED <<agreed, pendingSnap, metas, files, alive, loopVars, jobs, delegate,
                   results, fatal, historyVars, crashes>>

\* installs the file, both without sync,
SnapshotInstall ==
    /\ runs("snapshot") /\ step = "removed" /\ Head(jobs).from \in files
    /\ datas' = Append(datas, writes(Head(jobs).from))
    /\ step' = "installed" /\ unsynced' = TRUE
    /\ snapshotLost' = (snapshotLost /\ Head(jobs).from # Meta.applied)
    /\ UNCHANGED <<agreed, pendingSnap, metas, files, alive, loopVars, jobs, delegate,
                   results, fatal, stable, crashes>>

\* deletes it,
SnapshotClean ==
    /\ runs("snapshot") /\ step = "installed"
    /\ files' = files \ {Head(jobs).from} /\ step' = "cleaned"
    /\ UNCHANGED <<agreed, pendingSnap, metas, datas, alive, loopVars, jobs, delegate,
                   results, fatal, historyVars, crashes>>

\* and makes the replica normal again.
SnapshotDone ==
    /\ runs("snapshot") /\ step = "cleaned"
    /\ writeSync([Meta EXCEPT !.state = "normal"])
    /\ jobs' = Tail(jobs) /\ step' = "start"
    /\ UNCHANGED <<agreed, pendingSnap, datas, files, alive, loopVars, delegate,
                   results, fatal, historyVars, crashes>>

\* Without its file the job fails, and the replica goes on.
SnapshotMissing ==
    /\ runs("snapshot") /\ step = "removed" /\ Head(jobs).from \notin files
    /\ jobs' = Tail(jobs) /\ step' = "start" /\ snapshotLost' = TRUE
    /\ UNCHANGED <<agreed, pendingSnap, diskVars, alive, loopVars, delegate, results,
                   fatal, stable, unsynced, crashes>>

\* It fails as well when the file cannot be unpacked or installed as a whole,
\* and the file is deleted all the same.
SnapshotFails ==
    /\ runs("snapshot") /\ step = "removed" /\ Head(jobs).from \in files
    /\ \E d \in SUBSET writes(Head(jobs).from) : datas' = Append(datas, d)
    /\ files' = files \ {Head(jobs).from}
    /\ jobs' = Tail(jobs) /\ step' = "start" /\ snapshotLost' = TRUE
    /\ UNCHANGED <<agreed, pendingSnap, metas, alive, loopVars, delegate, results,
                   fatal, stable, unsynced, crashes>>

----------------------------------------------------------------------------
(* Crash and restart.                                                      *)

\* The file is gone, and the data it held was not safely in place.
lost(m, d) == m.state = "normal" /\ unsynced /\ d # Data

\* The store crashes: each storage keeps a prefix of what was not synced.
Crash ==
    /\ running /\ crashes < MaxCrashes
    /\ \E m \in Range(metas), d \in Range(datas) :
          /\ metas' = <<m>> /\ datas' = <<d>>
          /\ snapshotLost' = (snapshotLost \/ lost(m, d))
    /\ alive' = FALSE /\ unsynced' = FALSE /\ crashes' = crashes + 1 /\ pendingSnap' = 0
    /\ jobs' = <<>> /\ step' = "start" /\ delegate' = NoDelegate /\ results' = <<>>
    /\ UNCHANGED <<agreed, files, loopVars, fatal, stable>>

\* What newPeerStorage and raft require of the states they load.
loadable(m) ==
    /\ m.trunc <= m.commit /\ m.commit <= m.last /\ m.applied <= m.commit
    /\ m.last = m.trunc \/ m.last \in DOMAIN m.log

initLastReady_commit(m) == m.commit
initLastReady(m) == m.applied

\* startShards: the replica starts from what is on disk; a snapshot that was
\* being applied is applied again.
Restart ==
    /\ ~alive
    /\ alive' = TRUE /\ fatal' = ~loadable(Meta)
    /\ ps' = [applied |-> Meta.applied, trunc |-> Meta.trunc]
    /\ lastReady' = initLastReady(Meta) /\ lastCompact' = 0
    /\ jobs' = [i \in 1 .. (IF Meta.state = "applying" THEN 1 ELSE 0) |->
                   [kind |-> "snapshot", from |-> Meta.trunc, to |-> Meta.trunc]]
               \o <<[kind |-> "register", from |-> Meta.applied, to |-> Meta.trunc]>>
    /\ UNCHANGED <<agreed, pendingSnap, diskVars, step, delegate, results, historyVars,
                   crashes>>

----------------------------------------------------------------------------
Worker == \/ Register \/ ApplyEmpty \/ ApplyData \/ ApplyMeta \/ CompactRaftLog
          \/ SnapshotRemove \/ SnapshotInstall \/ SnapshotClean \/ SnapshotDone
          \/ SnapshotMissing \/ SnapshotFails

Next == \/ \E from \in 1 .. MaxIndex + 1, last \in 0 .. MaxIndex :
              \E n \in from - 1 .. last, commit \in Meta.commit .. last :
                 HandleReady(from, last, n, commit)
        \/ \E s \in Indexes : RecvSnapshot(s) \/ ReceiveFile(s) \/ GCFile(s)
        \/ \E s \in Indexes, last \in Indexes :
              \E n \in s .. last, commit \in s .. last : SnapshotReady(s, last, n, commit)
        \/ PostApply
        \/ Worker
        \/ Crash
        \/ Restart

Spec == Init /\ [][Next]_vars

\* The workers run while there is work, and a store that is down is started.
FairSpec == Spec /\ WF_vars(Worker) /\ WF_vars(PostApply) /\ WF_vars(Restart)
                 /\ WF_vars(HandleCommitted)

----------------------------------------------------------------------------
(* Properties.                                                             *)

\* The process never ends itself: a restart always finds states that fit
\* together and the last entry of the log (initLastTerm, and what raft checks
\* of a hard state), entries reach the delegate one after the other, and
\* doApplyCompactRaftLog never divides by zero or goes below it.
NoFatal == ~fatal /\ (runs("apply") => indexMatches)

\* Every entry raft may still ask for (after peerStorage's truncated index) is
\* on disk: the asynchronous deletion never overtakes the event worker's view.
ReadableLog ==
    running => \A i \in ps.trunc + 1 .. Meta.last : i \in DOMAIN Meta.log

\* What raft was told to be stable, and may have acknowledged to the leader, is
\* still in the log after a crash unless it was compacted since.
StableSurvives ==
    \A i \in DOMAIN stable :
       i > Meta.trunc => i \in DOMAIN Meta.log /\ Meta.log[i] = stable[i]

\* The data of a normal replica holds exactly the writes up to its applied
\* index, or one more, which is then executed again: whatever a crash leaves of
\* the two storages.  Excepted is a replica one of whose snapshots failed to be
\* installed, or lost its unsynced data in a crash, until a snapshot of the
\* applied index is installed.
DataMatches ==
    Meta.state = "normal" /\ ~snapshotLost =>
       LET later == writes(MaxIndex) \ writes(Meta.applied)
       IN \/ Data = writes(Meta.applied)
          \/ later # {} /\ Data = writes(Min(later))

\* Raft has a pending snapshot, and committed entries were not handed out
\* before it came: handleReady returns early each time.
SnapshotBlocked == pendingSnap # 0 /\ lastReady < Meta.commit

\* Whatever is committed is applied in the end and stays so, through crashes,
\* restarts and snapshots: lastReadyIndex and the registration of the delegate
\* leave no entry behind.  Excepted is a replica that its pending snapshot
\* blocks.
CommittedIsApplied ==
    \A i \in Indexes : Meta.commit >= i ~> [](Meta.applied >= i \/ SnapshotBlocked)
=============================================================================
