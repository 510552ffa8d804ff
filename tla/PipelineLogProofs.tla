------------------------- MODULE PipelineLogProofs -------------------------
(***************************************************************************)
(* What a replica executes and what it tells its clients agree with the    *)
(* log of the group.  The argument has four parts:                         *)
(*                                                                         *)
(*  - the logs (LogsInv): what the replica holds as committed is chosen, a *)
(*    command is in the two logs at one place at most, never after it was  *)
(*    turned away, and its callback carries the term of that place;        *)
(*  - the history of the group (HistoryInv): every shard holds each        *)
(*    command at most once, and only one whose entry passed the epoch      *)
(*    check;                                                               *)
(*  - the queue (PlanInv): some h counts the entries given out before each *)
(*    job of the apply worker, the jobs continue one another, and the      *)
(*    delegate stands where the queue starts;                              *)
(*  - the answers (ToldInv): "ok" and "epoch" are the verdicts of a chosen *)
(*    entry.                                                               *)
(***************************************************************************)
EXTENDS ReplicaPipelineProofs

----------------------------------------------------------------------------
(* The two logs.                                                           *)

\* The shard after the first k entries, in a history S of shards.
after(S, k) == IF k = 0 THEN NewShard ELSE S[k]

\* What this replica knows to be chosen is chosen, a leader's log begins with
\* what it sent, and the history is that of the chosen entries.
LogInv ==
    /\ rcommit <= gcommit
    /\ \A i \in 1 .. rcommit : rlog[i] = glog[i]
    /\ gself /\ role = "leader" => \A i \in 1 .. Len(glog) : rlog[i] = glog[i]
    /\ \A k \in 1 .. gcommit : gshards[k] = execEntry(after(gshards, k - 1), glog[k])

\* An entry at an index of one of the two logs.
InLog(e, x) ==
    \/ x \in 1 .. Len(glog) /\ glog[x] = e
    \/ x \in 1 .. Len(rlog) /\ rlog[x] = e

\* A step that leaves the chosen entries and their history alone.
Stays ==
    /\ gcommit <= gcommit'
    /\ \A i \in 1 .. gcommit : glog'[i] = glog[i] /\ gshards'[i] = gshards[i]

\* A step that puts no command of this replica at a new place of the logs.
NothingNew ==
    \A e \in Entry, x \in Nat : (e.cmd \in Cmds /\ InLog(e, x)') => InLog(e, x)

\* The entries of a prefix.
LEMMA PrefixElements ==
    ASSUME NEW S, NEW s \in Seq(S), NEW n \in 0 .. Len(s)
    PROVE  /\ SubSeq(s, 1, n) \in Seq(S) /\ Len(SubSeq(s, 1, n)) = n
           /\ \A i \in 1 .. n : SubSeq(s, 1, n)[i] = s[i]
OBVIOUS

LEMMA IsPrefixElements ==
    ASSUME NEW S, NEW s \in Seq(S), NEW t \in Seq(S), IsPrefix(s, t)
    PROVE  Len(s) <= Len(t) /\ \A i \in 1 .. Len(s) : s[i] = t[i]
<1>1. Len(s) <= Len(t) /\ SubSeq(s, 1, Len(s)) = SubSeq(t, 1, Len(s))
  BY DEF IsPrefix
<1>2. Len(s) \in 0 .. Len(s) /\ Len(s) \in 0 .. Len(t)
  BY <1>1, LenProperties
<1> DEFINE n == Len(s)
<1>3. \A i \in 1 .. n : SubSeq(s, 1, n)[i] = s[i] /\ SubSeq(t, 1, n)[i] = t[i]
  BY <1>2, PrefixElements
<1>4. QED
  BY <1>1, <1>3

\* The history, when more is chosen or the log changes behind what is chosen.
LEMMA HistoryStays ==
    ASSUME TypeInv, LogInv, Stays, gcommit' = gcommit, gshards' = gshards
    PROVE  \A k \in 1 .. gcommit' : gshards'[k] = execEntry(after(gshards', k - 1), glog'[k])
BY DEF LogInv, Stays

\* Steps of the rest of the group, but for one that appends a forwarded
\* proposal.
LEMMA GroupKeepsLog ==
    ASSUME TypeInv, LogInv, TypeInv', GroupNext
    PROVE  LogInv' /\ Stays /\ (~OtherAppendForwarded => NothingNew)
<1>0. RaftInv /\ RaftTypeOK /\ glog \in Seq(Entry) /\ rlog \in Seq(Entry)
      /\ gcommit \in Nat /\ rcommit \in Nat /\ gcommit <= Len(glog) /\ rcommit <= Len(rlog)
      /\ Len(glog) \in Nat /\ Len(rlog) \in Nat /\ Len(gshards) = gcommit
      /\ gshards \in Seq(Shard)
  BY LenProperties DEF TypeInv, RaftInv, RaftTypeOK
<1>1. CASE OtherElected
  <2>1. PICK t \in gterm + 1 .. MaxTerm, base \in {glog, rlog} :
           \E n \in gcommit .. Len(base) :
              /\ SubSeq(base, 1, gcommit) = chosen
              /\ glog' = Append(SubSeq(base, 1, n), EmptyEntry(t))
              /\ gterm' = t
    BY <1>1 DEF OtherElected
  <2>2. PICK n \in gcommit .. Len(base) :
              /\ SubSeq(base, 1, gcommit) = chosen
              /\ glog' = Append(SubSeq(base, 1, n), EmptyEntry(t))
              /\ gterm' = t
    BY <2>1
  <2>3. ~gself' /\ UNCHANGED <<gcommit, gshards, rcommit, rlog, role>>
    BY <1>1, Zenon DEF OtherElected, nodeVars
  <2>4. base \in Seq(Entry) /\ n \in 0 .. Len(base) /\ gcommit \in 0 .. Len(base)
    BY <1>0, <2>2
  <2>5. /\ SubSeq(base, 1, n) \in Seq(Entry) /\ Len(SubSeq(base, 1, n)) = n
        /\ \A i \in 1 .. n : SubSeq(base, 1, n)[i] = base[i]
    BY <2>4, PrefixElements
  <2>6. EmptyEntry(t) \in Entry /\ EmptyEntry(t).cmd \notin Cmds
    <3>1. t \in Nat
      BY MaxTermAssumption DEF TypeInv, RaftInv, RaftTypeOK
    <3>2. QED
      BY <3>1, CommandsAssumption DEF EmptyEntry, Entry
  <2>7. /\ Len(glog') = n + 1
        /\ \A i \in 1 .. n : glog'[i] = base[i]
        /\ glog'[n + 1] = EmptyEntry(t)
    <3> DEFINE p == SubSeq(base, 1, n)
    <3>1. glog' = Append(p, EmptyEntry(t)) /\ p \in Seq(Entry) /\ Len(p) = n
          /\ \A i \in 1 .. n : p[i] = base[i]
      BY <2>2, <2>5
    <3>2. n \in Nat
      BY <2>4
    <3> HIDE DEF p
    <3>3. Len(glog') = n + 1 /\ glog'[n + 1] = EmptyEntry(t)
      BY <2>6, <3>1, <3>2, AppendProperties
    <3>4. \A i \in 1 .. n : glog'[i] = p[i]
      BY <2>6, <3>1, <3>2, AppendProperties
    <3>5. QED
      BY <3>1, <3>3, <3>4
  <2>8. \A i \in 1 .. gcommit : base[i] = glog[i]
    <3>1. \A i \in 1 .. gcommit : SubSeq(base, 1, gcommit)[i] = base[i]
      BY <2>4, PrefixElements
    <3>2. \A i \in 1 .. gcommit : SubSeq(glog, 1, gcommit)[i] = glog[i]
      BY <1>0, PrefixElements
    <3>3. QED
      BY <2>2, <3>1, <3>2 DEF chosen
  <2>9. Stays
    BY <1>0, <2>3, <2>4, <2>7, <2>8 DEF Stays
  <2>10. NothingNew
    <3>1. \A e \in Entry, x \in Nat :
             (x \in 1 .. Len(glog') /\ glog'[x] = e /\ e.cmd \in Cmds) =>
                x \in 1 .. n /\ base[x] = e
      BY <2>4, <2>6, <2>7
    <3>2. base = glog \/ base = rlog
      OBVIOUS
    <3>3. n <= Len(base)
      BY <2>4
    <3>4. QED
      BY <1>0, <2>3, <2>4, <3>1, <3>2, <3>3 DEF NothingNew, InLog
  <2>11. LogInv'
    <3>1. \A i \in 1 .. rcommit' : rlog'[i] = glog'[i]
      BY <1>0, <2>3, <2>9 DEF LogInv, Stays
    <3>2. QED
      BY <2>3, <2>9, <3>1, HistoryStays DEF LogInv
  <2>12. QED
    BY <2>9, <2>10, <2>11
<1>2. CASE OtherAppend \/ OtherAppendForwarded
  <2>1. PICK e \in Entry : glog' = Append(glog, e) /\ (e.cmd \in Cmds => OtherAppendForwarded)
    <3>1. CASE OtherAppend
      <4>1. PICK o \in Others : glog' = Append(glog, [term |-> gterm, cmd |-> o,
                                                      epoch |-> shardAt(gcommit).epoch])
        BY <3>1 DEF OtherAppend
      <4>2. shardAt(gcommit).epoch \in Nat
        BY <1>0, ShardAtType DEF Shard
      <4>3. [term |-> gterm, cmd |-> o, epoch |-> shardAt(gcommit).epoch] \in Entry
        BY <4>2 DEF Entry, TypeInv, RaftInv, RaftTypeOK
      <4>4. o \notin Cmds
        BY CommandsAssumption
      <4>5. QED
        BY <4>1, <4>3, <4>4
    <3>2. CASE OtherAppendForwarded
      <4>1. PICK p \in net : glog' = Append(glog, [term |-> gterm, cmd |-> p.cmd,
                                                  epoch |-> p.epoch])
        BY <3>2 DEF OtherAppendForwarded
      <4>2. [term |-> gterm, cmd |-> p.cmd, epoch |-> p.epoch] \in Entry
        BY DEF Entry, TypeInv, RaftInv, RaftTypeOK
      <4>3. QED
        BY <3>2, <4>1, <4>2
    <3>3. QED
      BY <1>2, <3>1, <3>2
  <2>2. /\ Len(glog') = Len(glog) + 1 /\ glog'[Len(glog) + 1] = e
        /\ \A i \in 1 .. Len(glog) : glog'[i] = glog[i]
    BY <1>0, <2>1, AppendProperties
  <2>3. ~gself /\ ~gself' /\ UNCHANGED <<gcommit, gshards, rcommit, rlog, role>>
    <3>1. ~gself /\ UNCHANGED gself
      BY <1>2, Zenon DEF OtherAppend, OtherAppendForwarded
    <3>2. UNCHANGED <<gcommit, gshards, rcommit, rlog, role>>
      BY <1>2 DEF OtherAppend, OtherAppendForwarded, nodeVars
    <3>3. QED
      BY <3>1, <3>2, Zenon
  <2>4. Stays
    BY SMTT(30), <1>0, <2>2, <2>3 DEF Stays
  <2>5. LogInv'
    <3>1. \A i \in 1 .. rcommit' : rlog'[i] = glog'[i]
      BY SMTT(30), <1>0, <2>3, <2>4 DEF LogInv, Stays
    <3>2. QED
      BY <2>3, <2>4, <3>1, HistoryStays DEF LogInv
  <2>6. ~OtherAppendForwarded => NothingNew
    BY <1>0, <2>1, <2>2, <2>3 DEF NothingNew, InLog
  <2>7. QED
    BY <2>4, <2>5, <2>6
<1>3. CASE GroupCommit
  <2>1. /\ gcommit + 1 \in 1 .. Len(glog) /\ gcommit' = gcommit + 1
        /\ gshards' = Append(gshards, execEntry(shardAt(gcommit), glog[gcommit + 1]))
        /\ UNCHANGED <<glog, gself, rlog, rcommit, role>>
    BY <1>0, <1>3 DEF GroupCommit, nodeVars
  <2>2. execEntry(shardAt(gcommit), glog[gcommit + 1]) \in Shard
    <3>1. glog[gcommit + 1] \in Entry /\ shardAt(gcommit) \in Shard
      BY <1>0, <2>1, ShardAtType
    <3>2. QED
      BY <3>1, ExecEntryType
  <2>3. /\ \A i \in 1 .. gcommit : gshards'[i] = gshards[i]
        /\ gshards'[gcommit + 1] = execEntry(shardAt(gcommit), glog[gcommit + 1])
    BY <1>0, <2>1, <2>2, AppendProperties
  <2>4. Stays
    BY <1>0, <2>1, <2>3 DEF Stays
  <2>5. \A k \in 0 .. gcommit : after(gshards', k) = after(gshards, k)
    BY <1>0, <2>3 DEF after
  <2>6. shardAt(gcommit) = after(gshards, gcommit)
    BY DEF shardAt, after
  <2>7. ASSUME NEW k \in 1 .. gcommit'
        PROVE  gshards'[k] = execEntry(after(gshards', k - 1), glog'[k])
    <3>1. CASE k = gcommit + 1
      BY <1>0, <2>1, <2>3, <2>5, <2>6, <3>1
    <3>2. CASE k \in 1 .. gcommit
      <4>1. after(gshards', k - 1) = after(gshards, k - 1)
        BY <1>0, <2>5, <3>2
      <4>2. QED
        BY <2>1, <2>3, <3>2, <4>1 DEF LogInv
    <3>3. QED
      BY <1>0, <2>1, <3>1, <3>2
  <2>8. LogInv'
    <3>1. rcommit' <= gcommit'
      BY <1>0, <2>1 DEF LogInv
    <3>2. QED
      BY <2>1, <2>7, <3>1 DEF LogInv
  <2>9. NothingNew
    BY <2>1 DEF NothingNew, InLog
  <2>10. QED
    BY <2>4, <2>8, <2>9
<1>4. CASE SnapshotFileArrives
  <2>1. UNCHANGED <<glog, gcommit, gshards, gself, rlog, rcommit, role>>
    BY <1>4 DEF SnapshotFileArrives, groupVars
  <2>2. QED
    BY <1>0, <2>1 DEF LogInv, Stays, NothingNew, InLog
<1>5. QED
  BY <1>1, <1>2, <1>3, <1>4 DEF GroupNext

\* Steps of this replica's RawNode.
LEMMA HandleStepKeepsLog ==
    ASSUME TypeInv, LogInv, TypeInv', HandleStep
    PROVE  LogInv' /\ Stays /\ NothingNew
<1>0. RaftInv /\ RaftTypeOK /\ glog \in Seq(Entry) /\ rlog \in Seq(Entry)
      /\ gcommit \in Nat /\ rcommit \in Nat /\ gcommit <= Len(glog) /\ rcommit <= Len(rlog)
      /\ Len(glog) \in Nat /\ Len(rlog) \in Nat
      /\ (gself /\ role = "leader" => Len(glog) <= Len(rlog))
  BY LenProperties DEF TypeInv, RaftInv, RaftTypeOK
<1>1. CASE Campaign \/ StepDown
  <2>1. UNCHANGED <<glog, gcommit, gshards, gself, rlog, rcommit>> /\ role' # "leader"
    BY <1>1 DEF Campaign, StepDown, groupVars
  <2>2. Stays /\ NothingNew
    BY <1>0, <2>1 DEF Stays, NothingNew, InLog
  <2>3. LogInv'
    BY <2>1, <2>2, HistoryStays DEF LogInv
  <2>4. QED
    BY <2>2, <2>3
<1>2. CASE Win
  <2>1. /\ IsPrefix(chosen, rlog) /\ rlog' = Append(rlog, EmptyEntry(rterm)) /\ glog' = rlog
        /\ UNCHANGED <<gcommit, gshards, rcommit>>
    BY <1>2 DEF Win
  <2>2. EmptyEntry(rterm) \in Entry /\ EmptyEntry(rterm).cmd \notin Cmds
    BY CommandsAssumption DEF EmptyEntry, Entry, TypeInv, RaftInv, RaftTypeOK
  <2>3. /\ Len(rlog') = Len(rlog) + 1 /\ rlog'[Len(rlog) + 1] = EmptyEntry(rterm)
        /\ \A i \in 1 .. Len(rlog) : rlog'[i] = rlog[i]
    BY <1>0, <2>1, <2>2, AppendProperties
  <2>4. gcommit <= Len(rlog) /\ \A i \in 1 .. gcommit : rlog[i] = glog[i]
    <3>1. /\ chosen \in Seq(Entry) /\ Len(chosen) = gcommit
          /\ \A i \in 1 .. gcommit : chosen[i] = glog[i]
      BY <1>0, PrefixElements DEF chosen
    <3>2. Len(chosen) <= Len(rlog) /\ \A i \in 1 .. Len(chosen) : chosen[i] = rlog[i]
      BY <1>0, <2>1, <3>1, IsPrefixElements
    <3>3. QED
      BY <3>1, <3>2
  <2>5. Stays
    BY <1>0, <2>1, <2>4 DEF Stays
  <2>6. LogInv'
    <3>1. \A i \in 1 .. rcommit' : rlog'[i] = glog'[i]
      BY <1>0, <2>1, <2>3
    <3>2. \A i \in 1 .. Len(glog') : rlog'[i] = glog'[i]
      BY <2>1, <2>3
    <3>3. rcommit' <= gcommit'
      BY <2>1 DEF LogInv
    <3>4. QED
      BY <2>1, <2>5, <3>1, <3>2, <3>3, HistoryStays DEF LogInv
  <2>7. NothingNew
    BY <1>0, <2>1, <2>2, <2>3 DEF NothingNew, InLog
  <2>8. QED
    BY <2>5, <2>6, <2>7
<1>3. CASE FollowLeader
  <2>1. ~gself /\ UNCHANGED <<glog, gcommit, gshards, gself>>
    BY <1>3 DEF FollowLeader, groupVars
  <2>2. PICK n \in rcommit .. Len(glog) :
          /\ rlog' = IF IsPrefix(SubSeq(glog, 1, n), rlog)
                     THEN rlog ELSE SubSeq(glog, 1, n)
          /\ rcommit' \in {rcommit} \cup
                          (IF n < gcommit THEN rcommit .. n ELSE rcommit .. gcommit)
    BY <1>3 DEF FollowLeader
  <2>3. /\ SubSeq(glog, 1, n) \in Seq(Entry) /\ Len(SubSeq(glog, 1, n)) = n
        /\ \A i \in 1 .. n : SubSeq(glog, 1, n)[i] = glog[i]
    BY <1>0, PrefixElements
  <2>4. rcommit' <= n /\ rcommit' <= gcommit /\ n \in Nat
    BY <1>0, <2>2 DEF LogInv
  <2>5. \A i \in 1 .. n : rlog'[i] = glog[i]
    <3>1. CASE IsPrefix(SubSeq(glog, 1, n), rlog)
      <4> DEFINE p == SubSeq(glog, 1, n)
      <4>1. p \in Seq(Entry) /\ Len(p) = n /\ \A i \in 1 .. n : p[i] = glog[i]
        BY <2>3
      <4>2. \A i \in 1 .. Len(p) : p[i] = rlog[i]
        BY <1>0, <3>1, <4>1, IsPrefixElements
      <4>3. QED
        BY <2>2, <3>1, <4>1, <4>2
    <3>2. QED
      BY <2>2, <2>3, <3>1
  <2>6. NothingNew
    <3>1. rlog' = rlog \/ (Len(rlog') = n /\ \A i \in 1 .. n : rlog'[i] = glog[i])
      BY <2>2, <2>3
    <3>2. QED
      BY <1>0, <2>1, <2>4, <3>1 DEF NothingNew, InLog
  <2>7. Stays
    BY <1>0, <2>1 DEF Stays
  <2>8. LogInv'
    <3>1. \A i \in 1 .. rcommit' : rlog'[i] = glog'[i]
      <4>1. rcommit' \in Nat
        BY DEF TypeInv, RaftInv, RaftTypeOK
      <4>2. QED
        BY <2>1, <2>4, <2>5, <4>1
    <3>2. QED
      BY <2>1, <2>4, <2>7, <3>1, HistoryStays DEF LogInv
  <2>9. QED
    BY <2>6, <2>7, <2>8
<1>4. CASE LearnCommit
  <2>1. UNCHANGED <<glog, gcommit, gshards, gself, rlog, role>>
    BY <1>4 DEF LearnCommit, groupVars
  <2>2. PICK n \in rcommit + 1 .. gcommit :
          n <= Len(rlog) /\ SubSeq(rlog, 1, n) = SubSeq(glog, 1, n) /\ rcommit' = n
    BY <1>4 DEF LearnCommit
  <2>3. n \in 0 .. Len(rlog) /\ n \in 0 .. Len(glog)
    BY <1>0, <2>2
  <2>4. \A i \in 1 .. n : SubSeq(rlog, 1, n)[i] = rlog[i] /\ SubSeq(glog, 1, n)[i] = glog[i]
    BY <1>0, <2>3, PrefixElements
  <2>5. \A i \in 1 .. n : rlog[i] = glog[i]
    BY <2>2, <2>4
  <2>6. QED
    BY <1>0, <2>1, <2>2, <2>5 DEF LogInv, Stays, NothingNew, InLog
<1>5. CASE RecvProp
  <2>1. role = "leader" /\ UNCHANGED <<glog, gcommit, gshards, gself, rcommit, role>>
    BY <1>5 DEF RecvProp, groupVars
  <2>2. PICK o \in Others : rlog' = Append(rlog, [term |-> rterm, cmd |-> o,
                                                  epoch |-> shardAt(gcommit).epoch])
    BY <1>5 DEF RecvProp
  <2>3. shardAt(gcommit).epoch \in Nat
    BY <1>0, ShardAtType DEF Shard, RaftInv
  <2> DEFINE e == [term |-> rterm, cmd |-> o, epoch |-> shardAt(gcommit).epoch]
  <2>4. e \in Entry /\ e.cmd \notin Cmds
    BY <2>3, CommandsAssumption DEF Entry, TypeInv, RaftInv, RaftTypeOK
  <2> HIDE DEF e
  <2>5. /\ Len(rlog') = Len(rlog) + 1 /\ rlog'[Len(rlog) + 1] = e
        /\ \A i \in 1 .. Len(rlog) : rlog'[i] = rlog[i]
    BY <1>0, <2>2, <2>4, AppendProperties DEF e
  <2>6. Stays
    BY <1>0, <2>1 DEF Stays
  <2>7. NothingNew
    BY <1>0, <2>1, <2>4, <2>5 DEF NothingNew, InLog
  <2>8. LogInv'
    BY <1>0, <2>1, <2>5 DEF LogInv
  <2>9. QED
    BY <2>6, <2>7, <2>8
<1>6. CASE RecvSnapshot
  <2>1. ~gself /\ UNCHANGED <<glog, gcommit, gshards, gself>>
    BY <1>6 DEF RecvSnapshot, groupVars
  <2>2. PICK k \in rcommit + 1 .. gcommit : rlog' = SubSeq(glog, 1, k) /\ rcommit' = k
    BY <1>6 DEF RecvSnapshot
  <2>3. k \in 0 .. Len(glog)
    BY <1>0, <2>2
  <2>4. Len(rlog') = k /\ \A i \in 1 .. k : rlog'[i] = glog[i]
    BY <1>0, <2>2, <2>3, PrefixElements
  <2>5. QED
    BY <1>0, <2>1, <2>2, <2>3, <2>4 DEF LogInv, Stays, NothingNew, InLog
<1>7. QED
  BY <1>1, <1>2, <1>3, <1>4, <1>5, <1>6 DEF HandleStep

\* A step that puts at most one command of this replica at a new place.
OneNew(f, n) ==
    \A e \in Entry, x \in Nat :
        (e.cmd \in Cmds /\ InLog(e, x)') => (InLog(e, x) \/ (e = f /\ x = n))

\* A proposal that is appended, by this replica or after it was forwarded.
proposal == [term |-> rterm, cmd |-> Head(batch).cmd, epoch |-> Head(batch).epoch]
forwardedBy(p) == [term |-> gterm, cmd |-> p.cmd, epoch |-> p.epoch]

LEMMA BatchHead ==
    ASSUME TypeInv, batch # <<>>
    PROVE  Head(batch) \in Header /\ Head(batch).cmd \in Cmds /\ Head(batch).epoch \in Nat
           /\ Head(batch).cmd \in cmdsOf(batch) /\ Tail(batch) \in Seq(Header)
<1>1. batch \in Seq(Header)
  BY DEF TypeInv, TypeOK
<1>2. Head(batch) \in Header /\ Tail(batch) \in Seq(Header)
  BY <1>1, HeadTailProperties
<1>3. Head(batch) = batch[1] /\ 1 \in DOMAIN batch
  BY <1>1, EmptySeq, LenProperties
<1>4. QED
  BY <1>2, <1>3 DEF Header, cmdsOf

LEMMA ProposeAppendedKeepsLog ==
    ASSUME TypeInv, LogInv, TypeInv', ProposeAppended
    PROVE  LogInv' /\ Stays /\ proposal \in Entry /\ OneNew(proposal, Len(rlog) + 1)
<1>0. RaftInv /\ glog \in Seq(Entry) /\ rlog \in Seq(Entry)
      /\ gcommit \in Nat /\ rcommit \in Nat /\ gcommit <= Len(glog) /\ rcommit <= Len(rlog)
      /\ Len(glog) \in Nat /\ Len(rlog) \in Nat
      /\ (gself /\ role = "leader" => Len(glog) <= Len(rlog))
  BY LenProperties DEF TypeInv, RaftInv, RaftTypeOK
<1>1. /\ batch # <<>> /\ rlog' = Append(rlog, proposal)
      /\ UNCHANGED <<glog, gcommit, gshards, gself, rcommit, role>>
  BY DEF ProposeAppended, proposal, groupVars
<1>2. proposal \in Entry
  BY <1>1, BatchHead DEF proposal, Entry, TypeInv, RaftInv, RaftTypeOK
<1>3. /\ Len(rlog') = Len(rlog) + 1 /\ rlog'[Len(rlog) + 1] = proposal
      /\ \A i \in 1 .. Len(rlog) : rlog'[i] = rlog[i]
  BY <1>0, <1>1, <1>2, AppendProperties
<1>4. Stays
  BY <1>0, <1>1 DEF Stays
<1>5. LogInv'
  BY <1>0, <1>1, <1>3 DEF LogInv
<1>6. OneNew(proposal, Len(rlog) + 1)
  BY <1>0, <1>1, <1>3 DEF OneNew, InLog
<1>7. QED
  BY <1>2, <1>4, <1>5, <1>6

LEMMA ForwardedIsOneNew ==
    ASSUME TypeInv, NEW p \in net, glog' = Append(glog, forwardedBy(p)), UNCHANGED rlog
    PROVE  forwardedBy(p) \in Entry /\ OneNew(forwardedBy(p), Len(glog) + 1)
<1>1. forwardedBy(p) \in Entry
  BY DEF forwardedBy, Entry, TypeInv, RaftInv, RaftTypeOK
<1>2. glog \in Seq(Entry) /\ Len(glog) \in Nat
  BY LenProperties DEF TypeInv, RaftInv, RaftTypeOK
<1>3. /\ Len(glog') = Len(glog) + 1 /\ glog'[Len(glog) + 1] = forwardedBy(p)
      /\ \A i \in 1 .. Len(glog) : glog'[i] = glog[i]
  BY <1>1, <1>2, AppendProperties
<1>4. OneNew(forwardedBy(p), Len(glog) + 1)
  BY <1>2, <1>3 DEF OneNew, InLog
<1>5. QED
  BY <1>1, <1>4

\* The messages of a Ready.
LEMMA SendMessagesKeepsLog ==
    ASSUME TypeInv, LogInv, TypeInv', sendMessages,
           UNCHANGED <<gcommit, gshards, gself, role, rlog, rcommit>>
    PROVE  LogInv' /\ Stays /\ NothingNew
<1>0. RaftInv /\ glog \in Seq(Entry) /\ rlog \in Seq(Entry)
      /\ gcommit \in Nat /\ rcommit \in Nat /\ gcommit <= Len(glog) /\ rcommit <= Len(rlog)
      /\ Len(glog) \in Nat /\ Len(rlog) \in Nat
      /\ (gself /\ role = "leader" => Len(glog) <= Len(rlog))
  BY LenProperties DEF TypeInv, RaftInv, RaftTypeOK
<1>1. CASE gself /\ role = "leader"
  <2>1. glog' = rlog
    BY <1>1 DEF sendMessages
  <2>2. Stays
    BY <1>0, <1>1, <2>1 DEF Stays, LogInv
  <2>3. LogInv'
    <3>1. \A i \in 1 .. rcommit' : rlog'[i] = glog'[i]
      BY <2>1
    <3>2. \A i \in 1 .. Len(glog') : rlog'[i] = glog'[i]
      BY <2>1
    <3>3. rcommit' <= gcommit'
      BY DEF LogInv
    <3>4. QED
      BY <2>2, <3>1, <3>2, <3>3, HistoryStays DEF LogInv
  <2>4. NothingNew
    BY <2>1 DEF NothingNew, InLog
  <2>5. QED
    BY <2>2, <2>3, <2>4
<1>2. CASE ~(gself /\ role = "leader")
  <2>1. glog' = glog
    BY <1>2 DEF sendMessages
  <2>2. QED
    BY <1>0, <2>1 DEF LogInv, Stays, NothingNew, InLog
<1>3. QED
  BY <1>1, <1>2

\* What a step does to the logs.
LEMMA NextKeepsLog ==
    ASSUME TypeInv, LogInv, TypeInv', [Next]_vars
    PROVE  LogInv' /\ Stays
           /\ (NothingNew \/ ProposeAppended \/ (Group /\ OtherAppendForwarded))
<1>1. CASE Group
  BY <1>1, GroupKeepsLog DEF Group
<1>2. CASE HandleStep
  BY <1>2, HandleStepKeepsLog
<1>3. CASE ProposeAppended
  BY <1>3, ProposeAppendedKeepsLog
<1>4. CASE SnapshotReady \/ HandleReady
  <2>1. sendMessages /\ UNCHANGED <<gcommit, gshards, gself, role, rlog, rcommit>>
    BY <1>4 DEF SnapshotReady, HandleReady
  <2>2. QED
    BY <2>1, SendMessagesKeepsLog
<1>5. CASE UNCHANGED <<glog, gcommit, gshards, gself, role, rlog, rcommit>>
  <2>1. gcommit \in Nat
    BY DEF TypeInv, RaftInv, RaftTypeOK
  <2>2. Stays /\ NothingNew
    BY <1>5, <2>1 DEF Stays, NothingNew, InLog
  <2>3. LogInv'
    BY <1>5 DEF LogInv
  <2>4. QED
    BY <2>2, <2>3
<1>6. CASE Worker \/ HandleGCPeerMsg \/ \E c \in Cmds : Submit(c)
  <2>1. UNCHANGED raftVars
    BY <1>6 DEF Worker, HandleGCPeerMsg, Submit, DoRegistrationJob, DoPropose,
       DoApplyCommittedEntries, DoApplyingSnapshotJob, DoDestroy, RetryMustDestroy, RemovePR
  <2>2. QED
    BY <1>5, <2>1 DEF raftVars, groupVars, nodeVars
<1>7. CASE LoopStart \/ LoopStop \/ HandleApplyResult \/ HandleRequest \/ ProposeRefused
           \/ ProposeForwarded \/ SkipReady
  <2>1. UNCHANGED <<glog, gcommit, gshards, gself, nodeVars>>
    BY <1>7 DEF LoopStart, LoopStop, HandleApplyResult, HandleRequest, ProposeRefused,
       ProposeForwarded, SkipReady, raftVars, groupVars
  <2>2. QED
    BY <1>5, <2>1 DEF nodeVars
<1>8. CASE UNCHANGED vars
  BY <1>5, <1>8 DEF vars, raftVars, groupVars, nodeVars
<1>9. QED
  BY <1>1, <1>2, <1>3, <1>4, <1>6, <1>7, <1>8 DEF Next, Loop

----------------------------------------------------------------------------
(* The answers a step adds.                                                *)

LEMMA AppendTold ==
    ASSUME NEW s \in Seq(Answers), NEW a \in Answers, NEW b \in ToSet(Append(s, a))
    PROVE  b \in ToSet(s) \/ b = a
<1>1. /\ Len(Append(s, a)) = Len(s) + 1 /\ Append(s, a)[Len(s) + 1] = a
      /\ \A i \in 1 .. Len(s) : Append(s, a)[i] = s[i]
      /\ Len(s) \in Nat
      /\ Append(s, a) \in Seq(Answers)
  BY AppendProperties, LenProperties
<1>2. PICK i \in DOMAIN Append(s, a) : b = Append(s, a)[i]
  BY DEF ToSet
<1>3. i \in 1 .. Len(s) + 1
  BY <1>1, <1>2, LenProperties
<1>4. CASE i = Len(s) + 1
  BY <1>1, <1>2, <1>4
<1>5. CASE i \in 1 .. Len(s)
  <2>1. i \in DOMAIN s /\ b = s[i]
    BY <1>1, <1>2, <1>5, LenProperties
  <2>2. QED
    BY <2>1 DEF ToSet
<1>6. QED
  BY <1>1, <1>3, <1>4, <1>5

LEMMA RespAllTells ==
    ASSUME TypeInv, NEW S, NEW a \in Answers, NEW c \in Cmds,
           NEW b \in ToSet(respAll(S, a)[c])
    PROVE  b \in ToSet(replies[c]) \/ (b = a /\ c \in S)
<1>1. replies[c] \in Seq(Answers)
  BY DEF TypeInv, TypeOK
<1>2. CASE c \in S /\ hasCB(c)
  <2>1. respAll(S, a)[c] = Append(replies[c], a)
    BY <1>2 DEF respAll
  <2>2. QED
    BY <1>1, <1>2, <2>1, AppendTold
<1>3. CASE ~(c \in S /\ hasCB(c))
  <2>1. respAll(S, a)[c] = replies[c]
    BY <1>3 DEF respAll
  <2>2. QED
    BY <2>1
<1>4. QED
  BY <1>2, <1>3

LEMMA RespTells ==
    ASSUME TypeInv, NEW d \in Cmds, NEW a \in Answers, NEW c \in Cmds,
           NEW b \in ToSet(resp(d, a)[c])
    PROVE  b \in ToSet(replies[c]) \/ (b = a /\ c = d)
<1>1. b \in ToSet(respAll({d}, a)[c])
  BY RespAdds
<1>2. QED
  BY <1>1, RespAllTells

LEMMA RespAllAndTells ==
    ASSUME TypeInv, NEW S, NEW a \in Answers, NEW d, NEW last \in Answers, NEW c \in Cmds,
           NEW b \in ToSet(respAllAnd(S, a, d, last)[c])
    PROVE  b \in ToSet(replies[c]) \/ b = a \/ (b = last /\ c = d /\ hasCB(c))
<1>1. replies[c] \in Seq(Answers)
  BY DEF TypeInv, TypeOK
<1>2. CASE c = d /\ hasCB(c)
  <2>1. respAllAnd(S, a, d, last)[c] = Append(replies[c], last)
    BY <1>2 DEF respAllAnd
  <2>2. QED
    BY <1>1, <1>2, <2>1, AppendTold
<1>3. CASE c # d /\ c \in S /\ hasCB(c)
  <2>1. respAllAnd(S, a, d, last)[c] = Append(replies[c], a)
    BY <1>3 DEF respAllAnd
  <2>2. QED
    BY <1>1, <2>1, AppendTold
<1>4. CASE ~(c = d /\ hasCB(c)) /\ ~(c # d /\ c \in S /\ hasCB(c))
  <2>1. respAllAnd(S, a, d, last)[c] = replies[c]
    BY <1>4 DEF respAllAnd
  <2>2. QED
    BY <2>1
<1>5. QED
  BY <1>2, <1>3, <1>4

\* The commands the event worker still has to propose.
waiting == ToSet(requests) \cup cmdsOf(batch)

\* The entry the apply worker is at, and the answer its command gets.
entry == Head(Head(jobs).entries)
verdict == IF checkEpoch(dEpoch, entry) THEN "ok" ELSE "epoch"

\* Only a command that waits, or was never taken, is turned away; only the
\* command of the entry being applied is told how it went.
LEMMA NewAnswers ==
    ASSUME TypeInv, [Next]_vars, NEW c \in Cmds, NEW b \in ToSet(replies'[c]),
           b \notin ToSet(replies[c]), b \in {"rejected", "storeNotMatch", "ok", "epoch"}
    PROVE  \/ b \in {"rejected", "storeNotMatch"} /\ (c \in waiting \/ c \notin submitted)
           \/ /\ b \in {"ok", "epoch"} /\ DoApplyCommittedEntries
              /\ registered /\ Head(jobs).first = dApplied + 1
              /\ c = entry.cmd /\ hasCB(c) /\ b = verdict
<1> DEFINE Goal ==
           \/ b \in {"rejected", "storeNotMatch"} /\ (c \in waiting \/ c \notin submitted)
           \/ /\ b \in {"ok", "epoch"} /\ DoApplyCommittedEntries
              /\ registered /\ Head(jobs).first = dApplied + 1
              /\ c = entry.cmd /\ hasCB(c) /\ b = verdict
<1>0. SUFFICES Goal
  OBVIOUS
<1> HIDE DEF Goal
<1>1. CASE UNCHANGED replies
  BY <1>1
<1>2. ASSUME NEW d \in Cmds, Submit(d)
      PROVE  Goal
  <2>1. d \notin submitted /\ (UNCHANGED replies \/ replies' = resp(d, "storeNotMatch"))
    BY <1>2 DEF Submit
  <2>2. CASE replies' = resp(d, "storeNotMatch")
    BY <2>1, <2>2, RespTells, AnswersType DEF Goal
  <2>3. QED
    BY <1>1, <2>1, <2>2
<1>3. CASE LoopStop
  <2>1. replies' = respAll(waiting, "storeNotMatch")
    BY <1>3 DEF LoopStop, waiting
  <2>2. b \in ToSet(respAll(waiting, "storeNotMatch")[c])
    BY <2>1
  <2>3. QED
    BY <2>2, RespAllTells, AnswersType DEF Goal
<1>4. CASE ProposeRefused \/ ProposeForwarded
  <2>1. batch # <<>>
    BY <1>4 DEF ProposeRefused, ProposeForwarded
  <2>2. PICK a \in {"shardNotFound", "notLeader", "rejected"} :
           replies' = resp(Head(batch).cmd, a)
    BY <1>4, Zenon DEF ProposeRefused, ProposeForwarded
  <2>3. Head(batch).cmd \in Cmds /\ Head(batch).cmd \in waiting
    BY <2>1, BatchHead DEF waiting
  <2>4. b = a /\ c = Head(batch).cmd
    BY <2>2, <2>3, RespTells, AnswersType
  <2>5. QED
    BY <2>2, <2>3, <2>4 DEF Goal
<1>5. CASE DoRegistrationJob \/ DoDestroy
  <2>1. PICK a \in {"stale", "shardNotFound"} : answerPending(a)
    BY <1>5 DEF DoRegistrationJob, DoDestroy
  <2>2. replies' = respAll(cmdsOf(pending), a)
    BY <2>1 DEF answerPending
  <2>3. b \in ToSet(respAll(cmdsOf(pending), a)[c])
    BY <2>2
  <2>4. b = a
    BY <2>1, <2>3, RespAllTells, AnswersType
  <2>5. QED
    BY <2>4
<1>6. CASE DoPropose
  <2>1. CASE replies' = resp(Head(jobs).cmd, "shardNotFound")
    <3>1. Head(jobs).cmd \in Cmds
      BY <1>6, NextJobType, JobType DEF DoPropose, TypeInv, TypeOK
    <3>2. b = "shardNotFound"
      BY <2>1, <3>1, RespTells, AnswersType
    <3>3. QED
      BY <3>2
  <2>2. QED
    BY <1>1, <1>6, <2>1 DEF DoPropose
<1>7. CASE DoApplyCommittedEntries
  <2>1. CASE UNCHANGED replies
    BY <1>1, <2>1
  <2>2. CASE ~UNCHANGED replies
    <3>1. registered /\ Head(jobs).first = dApplied + 1
          /\ \E n \in 0 .. Len(pending) : applyEntry(entry, n)
      BY <1>7, <2>2 DEF DoApplyCommittedEntries, entry
    <3>2. PICK n \in 0 .. Len(pending) : applyEntry(entry, n)
      BY <3>1
    <3>3. CASE entry.cmd # Empty /\ found(entry, n)
      <4> DEFINE S == cmdsOf(SubSeq(pending, 1, n - 1))
                 d == pending[n].cmd
      <4>1. replies' = respAllAnd(S, "stale", d, verdict)
        BY <3>2, <3>3 DEF applyEntry, verdict
      <4>2. d = entry.cmd
        BY <3>3 DEF found
      <4>3. verdict \in Answers /\ verdict \in {"ok", "epoch"}
        BY AnswersType DEF verdict
      <4> HIDE DEF S, d
      <4>4. b \in ToSet(respAllAnd(S, "stale", d, verdict)[c])
        BY <4>1
      <4>5. b = verdict /\ c = d /\ hasCB(c)
        <5>1. "stale" \in Answers
          BY AnswersType
        <5>2. b \in ToSet(replies[c]) \/ b = "stale" \/ (b = verdict /\ c = d /\ hasCB(c))
          BY <4>3, <4>4, <5>1, RespAllAndTells, Zenon
        <5>3. QED
          BY <5>2
      <4>6. QED
        BY <1>7, <3>1, <4>2, <4>3, <4>5 DEF Goal
    <3>4. CASE ~(entry.cmd # Empty /\ found(entry, n))
      <4> DEFINE S == cmdsOf(SubSeq(pending, 1, n))
      <4>1. replies' = respAll(S, "stale")
        BY <3>2, <3>4 DEF applyEntry
      <4> HIDE DEF S
      <4>2. b \in ToSet(respAll(S, "stale")[c])
        BY <4>1
      <4>3. b = "stale"
        BY <4>2, RespAllTells, AnswersType
      <4>4. QED
        BY <4>3
    <3>5. QED
      BY <3>3, <3>4
  <2>3. QED
    BY <2>1, <2>2
<1>8. CASE LoopStart \/ HandleApplyResult \/ HandleRequest \/ ProposeAppended \/ SkipReady
           \/ SnapshotReady \/ HandleReady \/ HandleStep \/ DoApplyingSnapshotJob
           \/ RetryMustDestroy \/ RemovePR \/ HandleGCPeerMsg \/ Group \/ UNCHANGED vars
  <2>1. UNCHANGED replies
    BY <1>8 DEF LoopStart, HandleApplyResult, HandleRequest, ProposeAppended, SkipReady,
       SnapshotReady, HandleReady, HandleStep, DoApplyingSnapshotJob, RetryMustDestroy,
       RemovePR, HandleGCPeerMsg, Group, vars, clientVars
  <2>2. QED
    BY <1>1, <2>1
<1>9. QED
  BY <1>2, <1>3, <1>4, <1>5, <1>6, <1>7, <1>8 DEF Next, Loop, Worker

----------------------------------------------------------------------------
(* A command is in the logs at one place.                                  *)

Unlogged(c) == \A e \in Entry, x \in Nat : InLog(e, x) => e.cmd # c

\* The commands on their way to the leader.
forwarded == {p.cmd : p \in net}

\* The commands that were turned away.
refused(c) == "rejected" \in ToSet(replies[c]) \/ "storeNotMatch" \in ToSet(replies[c])

LoggedOnce ==
    \A e, f \in Entry, x, y \in Nat :
        (InLog(e, x) /\ InLog(f, y) /\ e.cmd = f.cmd /\ e.cmd \in Cmds) => (x = y /\ e = f)

\* A command gets into a log once: out of the batch, or off the network, and
\* never after it was turned away.
OnceInv ==
    /\ LoggedOnce
    /\ \A c \in waiting \cup forwarded : Unlogged(c)
    /\ waiting \cap forwarded = {}
    /\ \A p, q \in net : p.cmd = q.cmd => p = q
    /\ \A e \in Entry, x \in Nat : (InLog(e, x) /\ e.cmd \in Cmds) => e.cmd \in submitted
    /\ forwarded \subseteq submitted
    /\ \A c \in Cmds : refused(c) => Unlogged(c) /\ c \notin forwarded

\* The commands that wait to be proposed.
LEMMA WaitingStep ==
    ASSUME ReplyInv, [Next]_vars
    PROVE  /\ submitted \subseteq submitted'
           /\ waiting' \subseteq waiting \cup (submitted' \ submitted)
           /\ ProposeAppended \/ ProposeForwarded => Head(batch).cmd \notin waiting'
<1> DEFINE Moves == /\ submitted \subseteq submitted'
                    /\ waiting' \subseteq waiting \cup (submitted' \ submitted)
<1>0. /\ NoneTwice /\ NoneInTwo /\ TypeInv /\ Once(batch)
      /\ ToSet(requests) \cap cmdsOf(batch) = {}
  BY ReplyInvParts DEF NoneInTwo
<1>1. ASSUME NEW c \in Cmds, Submit(c)
      PROVE  Moves
  <2>1. /\ c \notin submitted /\ submitted' = submitted \cup {c} /\ batch' = batch
        /\ requests' = Append(requests, c) \/ requests' = requests
    BY <1>1 DEF Submit
  <2>2. CASE requests' = Append(requests, c)
    <3>1. c \notin ToSet(requests)
      BY <2>1, ReplyInvParts DEF held
    <3>2. ToSet(requests') = ToSet(requests) \cup {c}
      BY <1>0, <2>2, <3>1, RequestsOnce
    <3>3. QED
      BY <2>1, <3>2 DEF waiting
  <2>3. QED
    BY <2>1, <2>2 DEF waiting
<1>2. ASSUME LoopStop
      PROVE  Moves
  <2>1. requests' = <<>> /\ batch' = <<>> /\ submitted' = submitted
    BY <1>2 DEF LoopStop
  <2>2. ToSet(requests') = {} /\ cmdsOf(batch') = {}
    BY <2>1 DEF ToSet, cmdsOf
  <2>3. QED
    BY <2>1, <2>2 DEF waiting
<1>3. ASSUME HandleRequest
      PROVE  Moves
  <2>1. /\ requests' = <<>> /\ submitted' = submitted
        /\ batch' = batch \o [i \in DOMAIN requests |->
                                  [cmd |-> requests[i], epoch |-> psEpoch]]
    BY <1>3 DEF HandleRequest, clientVars
  <2>2. cmdsOf(batch') = cmdsOf(batch) \cup ToSet(requests)
    BY <1>0, <2>1, BatchOnce
  <2>3. ToSet(requests') = {}
    BY <2>1 DEF ToSet
  <2>4. QED
    BY <2>1, <2>2, <2>3 DEF waiting
<1>4. ASSUME ProposeRefused \/ ProposeForwarded \/ ProposeAppended
      PROVE  Moves
  <2>1. /\ batch # <<>> /\ batch' = Tail(batch) /\ requests' = requests
        /\ submitted' = submitted
    BY <1>4 DEF ProposeRefused, ProposeForwarded, ProposeAppended, clientVars
  <2>2. batch \in Seq(Header)
    BY ReplyInvParts
  <2>3. cmdsOf(batch') = cmdsOf(batch) \ {Head(batch).cmd} /\ Head(batch).cmd \in cmdsOf(batch)
    BY <1>0, <2>1, <2>2, TailOnce
  <2>4. QED
    BY <1>0, <2>1, <2>3 DEF waiting
<1>5. ASSUME UNCHANGED <<requests, batch, submitted>>
      PROVE  Moves
  BY <1>5 DEF waiting
<1>6. ASSUME LoopStart \/ HandleApplyResult \/ SkipReady \/ SnapshotReady \/ HandleReady
           \/ HandleStep \/ HandleGCPeerMsg \/ Group \/ UNCHANGED vars
      PROVE  Moves
  <2>1. UNCHANGED <<requests, batch, submitted>>
    BY <1>6 DEF LoopStart, HandleApplyResult, SkipReady, SnapshotReady, HandleReady,
       HandleStep, HandleGCPeerMsg, Group, vars, loopVars, clientVars
  <2>2. QED
    BY <1>5, <2>1
<1>7. ASSUME Worker
      PROVE  Moves
  <2>1. UNCHANGED <<requests, batch, submitted>>
    BY <1>7 DEF Worker, DoRegistrationJob, DoPropose, DoApplyCommittedEntries,
       DoApplyingSnapshotJob, DoDestroy, RetryMustDestroy, RemovePR, loopVars, clientVars
  <2>2. QED
    BY <1>5, <2>1
<1>9. Moves
  BY <1>1, <1>2, <1>3, <1>4, <1>6, <1>7 DEF Next, Loop
<1>10. ProposeAppended \/ ProposeForwarded => Head(batch).cmd \notin waiting'
  <2>1. SUFFICES ASSUME ProposeAppended \/ ProposeForwarded
                 PROVE  Head(batch).cmd \notin waiting'
    OBVIOUS
  <2>2. /\ batch # <<>> /\ batch' = Tail(batch) /\ requests' = requests
    BY <2>1 DEF ProposeForwarded, ProposeAppended
  <2>3. batch \in Seq(Header)
    BY ReplyInvParts
  <2>4. cmdsOf(batch') = cmdsOf(batch) \ {Head(batch).cmd} /\ Head(batch).cmd \in cmdsOf(batch)
    BY <1>0, <2>2, <2>3, TailOnce
  <2>5. QED
    BY <1>0, <2>2, <2>4 DEF waiting
<1>11. QED
  BY <1>9, <1>10

\* What is in flight to the leader.
LEMMA NetStep ==
    ASSUME [Next]_vars
    PROVE  \/ net' = net
           \/ ProposeForwarded /\ net' = net \cup {Head(batch)}
           \/ Group /\ OtherAppendForwarded
<1>1. CASE Worker \/ HandleGCPeerMsg \/ \E c \in Cmds : Submit(c)
  <2>1. UNCHANGED raftVars
    BY <1>1 DEF Worker, HandleGCPeerMsg, Submit, DoRegistrationJob, DoPropose,
       DoApplyCommittedEntries, DoApplyingSnapshotJob, DoDestroy, RetryMustDestroy, RemovePR
  <2>2. QED
    BY <2>1 DEF raftVars, groupVars
<1>2. CASE LoopStart \/ LoopStop \/ HandleApplyResult \/ HandleRequest \/ ProposeRefused
           \/ SkipReady \/ SnapshotReady \/ HandleReady \/ ProposeAppended
  BY <1>2 DEF LoopStart, LoopStop, HandleApplyResult, HandleRequest, ProposeRefused,
       SkipReady, SnapshotReady, HandleReady, ProposeAppended, raftVars, groupVars
<1>3. CASE ProposeForwarded
  BY <1>3 DEF ProposeForwarded
<1>4. CASE HandleStep
  BY <1>4 DEF HandleStep, Campaign, Win, StepDown, FollowLeader, LearnCommit, RecvProp,
       RecvSnapshot, groupVars
<1>5. CASE Group
  BY <1>5 DEF Group, GroupNext, OtherElected, OtherAppend, GroupCommit, SnapshotFileArrives,
       groupVars
<1>6. CASE UNCHANGED vars
  BY <1>6 DEF vars, raftVars, groupVars
<1>7. QED
  BY <1>1, <1>2, <1>3, <1>4, <1>5, <1>6 DEF Next, Loop

LEMMA NewlyRefused ==
    ASSUME TypeInv, [Next]_vars, NEW c \in Cmds, refused(c)'
    PROVE  refused(c) \/ c \in waiting \/ c \notin submitted
<1>1. CASE "rejected" \in ToSet(replies'[c])
  <2>1. CASE "rejected" \notin ToSet(replies[c])
    BY <1>1, <2>1, NewAnswers
  <2>2. QED
    BY <2>1 DEF refused
<1>2. CASE "storeNotMatch" \in ToSet(replies'[c])
  <2>1. CASE "storeNotMatch" \notin ToSet(replies[c])
    BY <1>2, <2>1, NewAnswers
  <2>2. QED
    BY <2>1 DEF refused
<1>3. QED
  BY <1>1, <1>2 DEF refused

\* Commands nobody submitted are nowhere.
LEMMA NotSubmitted ==
    ASSUME OnceInv, NEW c \in Cmds, c \notin submitted
    PROVE  Unlogged(c) /\ c \notin forwarded
BY DEF OnceInv, Unlogged

\* What a step that puts nothing new in the logs leaves out of them.
LEMMA StillUnlogged ==
    ASSUME NEW c \in Cmds, Unlogged(c), NEW f, NEW n, OneNew(f, n), f.cmd # c
    PROVE  Unlogged(c)'
BY DEF Unlogged, OneNew

LEMMA NothingNewUnlogged ==
    ASSUME NEW c \in Cmds, Unlogged(c), NothingNew
    PROVE  Unlogged(c)'
BY DEF Unlogged, NothingNew

\* Waiting and forwarded commands are commands of clients.
LEMMA WaitingCmds ==
    ASSUME ReplyInv
    PROVE  waiting \subseteq Cmds /\ forwarded \subseteq Cmds /\ waiting \subseteq submitted
           /\ \A c \in waiting : ~refused(c)
<1>1. TypeInv /\ held \subseteq submitted
      /\ \A c \in Cmds : c \in held => replies[c] = <<>>
  BY ReplyInvParts
<1>2. waiting \subseteq held
  BY DEF waiting, held
<1>3. forwarded \subseteq Cmds /\ submitted \subseteq Cmds
  BY <1>1 DEF forwarded, TypeInv, TypeOK, RaftTypeOK
<1>4. \A c \in Cmds : replies[c] = <<>> => ~refused(c)
  BY DEF refused, ToSet
<1>5. QED
  BY <1>1, <1>2, <1>3, <1>4

\* A command gets into the logs.
LEMMA OneNewKeepsOnce ==
    ASSUME ReplyInv, OnceInv, [Next]_vars,
           NEW f \in Entry, NEW n \in Nat, OneNew(f, n), f.cmd \in Cmds, Unlogged(f.cmd),
           f.cmd \in submitted, ~refused(f.cmd), replies' = replies,
           net' \subseteq net, f.cmd \notin waiting', f.cmd \notin forwarded'
    PROVE  OnceInv'
<1>1. submitted \subseteq submitted' /\ waiting' \subseteq waiting \cup (submitted' \ submitted)
  BY WaitingStep
<1>2. forwarded' \subseteq forwarded
  BY DEF forwarded
<1>3. waiting \subseteq Cmds /\ forwarded \subseteq Cmds
  BY WaitingCmds
<1>4. submitted' = submitted \/ submitted' \subseteq Cmds
  BY NextKeepsTypes, ReplyInvParts DEF TypeInv, TypeOK
<1>5. \A e \in Entry, x \in Nat :
         (e.cmd \in Cmds /\ InLog(e, x)') => (InLog(e, x) \/ (e = f /\ x = n))
  BY DEF OneNew
<1>6. \A e \in Entry, x \in Nat : InLog(e, x) => e.cmd # f.cmd
  BY DEF Unlogged
<1>7. LoggedOnce'
  <2>1. SUFFICES ASSUME NEW e \in Entry, NEW g \in Entry, NEW x \in Nat, NEW y \in Nat,
                        InLog(e, x)', InLog(g, y)', e.cmd = g.cmd, e.cmd \in Cmds
                 PROVE  x = y /\ e = g
    BY DEF LoggedOnce
  <2>2. CASE InLog(e, x) /\ InLog(g, y)
    BY <2>1, <2>2 DEF OnceInv, LoggedOnce
  <2>3. CASE e = f /\ x = n
    BY <1>5, <1>6, <2>1, <2>3
  <2>4. CASE g = f /\ y = n
    BY <1>5, <1>6, <2>1, <2>4
  <2>5. QED
    BY <1>5, <2>1, <2>2, <2>3, <2>4
<1>8. ASSUME NEW c \in waiting' \cup forwarded'
      PROVE  Unlogged(c)'
  <2>1. c # f.cmd /\ c \in Cmds
    BY <1>1, <1>2, <1>3, <1>4
  <2>2. Unlogged(c)
    <3>1. CASE c \in waiting \cup forwarded
      BY <3>1 DEF OnceInv
    <3>2. CASE c \notin submitted
      BY <2>1, <3>2, NotSubmitted
    <3>3. QED
      BY <1>1, <1>2, <3>1, <3>2
  <2>3. QED
    BY <2>1, <2>2, StillUnlogged
<1>9. waiting' \cap forwarded' = {}
  BY <1>1, <1>2 DEF OnceInv
<1>10. \A p, q \in net' : p.cmd = q.cmd => p = q
  BY DEF OnceInv
<1>11. ASSUME NEW e \in Entry, NEW x \in Nat, InLog(e, x)', e.cmd \in Cmds
       PROVE  e.cmd \in submitted'
  BY <1>1, <1>5, <1>11 DEF OnceInv
<1>12. forwarded' \subseteq submitted'
  BY <1>1, <1>2 DEF OnceInv
<1>13. ASSUME NEW c \in Cmds, refused(c)'
       PROVE  Unlogged(c)' /\ c \notin forwarded'
  <2>1. refused(c)
    BY <1>13 DEF refused
  <2>2. Unlogged(c) /\ c \notin forwarded /\ c # f.cmd
    BY <2>1 DEF OnceInv
  <2>3. QED
    BY <1>2, <2>2, StillUnlogged
<1>14. QED
  BY <1>7, <1>8, <1>9, <1>10, <1>11, <1>12, <1>13 DEF OnceInv

\* Nothing gets into the logs.
LEMMA NothingNewKeepsOnce ==
    ASSUME ReplyInv, OnceInv, [Next]_vars, NothingNew,
           net' = net \/ (ProposeForwarded /\ net' = net \cup {Head(batch)})
    PROVE  OnceInv'
<1>0. TypeInv /\ TypeInv'
  BY NextKeepsTypes, ReplyInvParts
<1>1. submitted \subseteq submitted' /\ waiting' \subseteq waiting \cup (submitted' \ submitted)
  BY WaitingStep
<1>2. /\ waiting \subseteq Cmds /\ forwarded \subseteq Cmds /\ waiting \subseteq submitted
      /\ \A c \in waiting : ~refused(c)
      /\ submitted' \subseteq Cmds
  BY <1>0, WaitingCmds DEF TypeInv, TypeOK
<1> DEFINE d == Head(batch).cmd
<1>3. \/ net' = net /\ forwarded' = forwarded
      \/ /\ ProposeForwarded /\ net' = net \cup {Head(batch)}
         /\ forwarded' = forwarded \cup {d} /\ d \in waiting /\ d \notin waiting'
  <2>1. CASE net' = net
    BY <2>1 DEF forwarded
  <2>2. CASE ProposeForwarded /\ net' = net \cup {Head(batch)}
    <3>1. batch # <<>>
      BY <2>2 DEF ProposeForwarded
    <3>2. d \in waiting
      BY <1>0, <3>1, BatchHead DEF waiting
    <3>3. d \notin waiting'
      BY <2>2, WaitingStep
    <3>4. forwarded' = forwarded \cup {d}
      BY <2>2 DEF forwarded
    <3>5. QED
      BY <2>2, <3>2, <3>3, <3>4
  <2>3. QED
    BY <2>1, <2>2
<1>4. \A c \in forwarded' : c \in forwarded \/ (c \in waiting /\ c \notin waiting')
  BY <1>3
<1>5. \A p, q \in net' : p.cmd = q.cmd => p = q
  <2>1. d \in waiting => \A p \in net : p.cmd # d
    BY DEF OnceInv, forwarded
  <2>2. QED
    BY <1>3, <2>1 DEF OnceInv
<1> HIDE DEF d
<1>6. LoggedOnce'
  BY DEF OnceInv, LoggedOnce, NothingNew
<1>7. ASSUME NEW c \in waiting' \cup forwarded'
      PROVE  Unlogged(c)'
  <2>1. c \in Cmds
    BY <1>1, <1>2, <1>4
  <2>2. Unlogged(c)
    <3>1. CASE c \in waiting \cup forwarded
      BY <3>1 DEF OnceInv
    <3>2. CASE c \notin submitted
      BY <2>1, <3>2, NotSubmitted
    <3>3. QED
      BY <1>1, <1>4, <3>1, <3>2
  <2>3. QED
    BY <2>1, <2>2, NothingNewUnlogged
<1>8. waiting' \cap forwarded' = {}
  BY <1>1, <1>4 DEF OnceInv
<1>9. ASSUME NEW e \in Entry, NEW x \in Nat, InLog(e, x)', e.cmd \in Cmds
      PROVE  e.cmd \in submitted'
  BY <1>1, <1>9 DEF OnceInv, NothingNew
<1>10. forwarded' \subseteq submitted'
  BY <1>1, <1>2, <1>4 DEF OnceInv
<1>11. ASSUME NEW c \in Cmds, refused(c)'
       PROVE  Unlogged(c)' /\ c \notin forwarded'
  <2>1. refused(c) \/ c \in waiting \/ c \notin submitted
    BY <1>0, <1>11, NewlyRefused
  <2>2. Unlogged(c) /\ c \notin forwarded
    BY <2>1, NotSubmitted DEF OnceInv
  <2>3. c \notin forwarded'
    <3>1. CASE ProposeForwarded /\ c = d
      <4>1. batch # <<>> /\ d \in Cmds
        BY <1>0, <3>1, BatchHead DEF ProposeForwarded, d
      <4>2. replies' = resp(d, "notLeader")
        BY <3>1 DEF ProposeForwarded, d
      <4>3. ~refused(c)
        BY <1>2, <1>3, <2>2, <3>1, <4>1, <1>0, BatchHead DEF waiting, d
      <4>4. "rejected" \notin ToSet(replies'[c]) /\ "storeNotMatch" \notin ToSet(replies'[c])
        BY <1>0, <4>1, <4>2, <4>3, RespTells, AnswersType DEF refused
      <4>5. QED
        BY <1>11, <4>4 DEF refused
    <3>2. QED
      BY <1>3, <2>2, <3>1
  <2>4. QED
    BY <2>2, <2>3, NothingNewUnlogged
<1>12. QED
  BY <1>5, <1>6, <1>7, <1>8, <1>9, <1>10, <1>11 DEF OnceInv

LEMMA NextKeepsOnce ==
    ASSUME ReplyInv, LogInv, OnceInv, [Next]_vars
    PROVE  OnceInv'
<1>0. TypeInv /\ TypeInv'
  BY NextKeepsTypes, ReplyInvParts
<1>1. CASE ProposeAppended
  <2>1. /\ batch # <<>> /\ net' = net /\ replies' = replies
    BY <1>1 DEF ProposeAppended, groupVars, clientVars
  <2>2. proposal \in Entry /\ OneNew(proposal, Len(rlog) + 1)
    BY <1>0, <1>1, ProposeAppendedKeepsLog
  <2>3. proposal.cmd = Head(batch).cmd /\ Head(batch).cmd \in waiting
    BY <1>0, <2>1, BatchHead DEF proposal, waiting
  <2>4. /\ proposal.cmd \in Cmds /\ proposal.cmd \in submitted /\ ~refused(proposal.cmd)
    BY <2>3, WaitingCmds
  <2>5. Unlogged(proposal.cmd) /\ proposal.cmd \notin forwarded'
    BY <2>1, <2>3 DEF OnceInv, forwarded
  <2>6. proposal.cmd \notin waiting'
    BY <1>1, <2>3, WaitingStep
  <2>7. Len(rlog) + 1 \in Nat
    BY <1>0, LenProperties DEF TypeInv, RaftInv, RaftTypeOK
  <2> DEFINE f == proposal
             n == Len(rlog) + 1
  <2> HIDE DEF f, n
  <2>8. QED
    BY <2>1, <2>2, <2>4, <2>5, <2>6, <2>7, OneNewKeepsOnce
<1>2. CASE Group /\ OtherAppendForwarded
  <2>1. PICK p \in net : glog' = Append(glog, forwardedBy(p)) /\ net' = net \ {p}
    BY <1>2 DEF OtherAppendForwarded, forwardedBy
  <2>2. UNCHANGED <<rlog, requests, batch, replies>>
    BY <1>2 DEF Group, OtherAppendForwarded, nodeVars, loopVars, clientVars
  <2>3. forwardedBy(p) \in Entry /\ OneNew(forwardedBy(p), Len(glog) + 1)
    BY <1>0, <2>1, <2>2, ForwardedIsOneNew
  <2>4. forwardedBy(p).cmd = p.cmd /\ p.cmd \in forwarded
    BY DEF forwardedBy, forwarded
  <2>5. /\ p.cmd \in Cmds /\ p.cmd \in submitted /\ ~refused(p.cmd) /\ Unlogged(p.cmd)
        /\ p.cmd \notin waiting
    BY <2>4, WaitingCmds DEF OnceInv
  <2>6. p.cmd \notin waiting' /\ p.cmd \notin forwarded'
    BY <2>1, <2>2, <2>5 DEF waiting, forwarded, OnceInv
  <2>7. Len(glog) + 1 \in Nat
    BY <1>0, LenProperties DEF TypeInv, RaftInv, RaftTypeOK
  <2>8. QED
    BY <2>1, <2>2, <2>3, <2>4, <2>5, <2>6, <2>7, OneNewKeepsOnce
<1>3. CASE ~ProposeAppended /\ ~(Group /\ OtherAppendForwarded)
  BY <1>0, <1>3, NextKeepsLog, NetStep, NothingNewKeepsOnce
<1>4. QED
  BY <1>1, <1>2, <1>3

----------------------------------------------------------------------------
(* The term a callback is filed under.                                     *)

\* A replica that led when the round of handleEvent started still leads in
\* the cached term, or does not lead: it cannot win an election within the
\* round, because the votes it asks for are only sent at its end.
TermInv ==
    /\ rlead = "self" <=> role = "leader"
    /\ (pc # "idle" /\ cachedLead = "self") =>
          /\ role = "leader" => rterm = cachedTerm
          /\ role = "candidate" => ~asked

LEMMA NextKeepsTerm ==
    ASSUME TypeInv, TermInv, [Next]_vars
    PROVE  TermInv'
<1>0. asked \in BOOLEAN
  BY DEF TypeInv, RaftInv, RaftTypeOK
<1>1. CASE HandleStep
  <2>1. pc = "step" /\ UNCHANGED <<pc, cachedLead, cachedTerm>>
    BY <1>1 DEF HandleStep, loopVars
  <2>2. CASE Campaign
    <3>1. role' = "candidate" /\ rlead' = "none" /\ ~asked'
      BY <2>2, Zenon DEF Campaign
    <3>2. QED
      BY <2>1, <3>1 DEF TermInv
  <2>3. CASE Win
    <3>1. role = "candidate" /\ asked /\ role' = "leader" /\ rlead' = "self"
      BY <2>3, Zenon DEF Win
    <3>2. cachedLead # "self"
      BY <2>1, <3>1 DEF TermInv
    <3>3. QED
      BY <2>1, <3>1, <3>2 DEF TermInv
  <2>4. CASE StepDown \/ FollowLeader \/ RecvSnapshot
    <3>1. role' = "follower" /\ rlead' \in {"none", "other"}
      BY <2>4 DEF StepDown, FollowLeader, RecvSnapshot
    <3>2. QED
      BY <2>1, <3>1 DEF TermInv
  <2>5. CASE LearnCommit \/ RecvProp
    <3>1. UNCHANGED <<role, rlead, rterm, asked>>
      BY <2>5 DEF LearnCommit, RecvProp
    <3>2. QED
      BY <2>1, <3>1 DEF TermInv
  <2>6. QED
    BY <1>1, <2>2, <2>3, <2>4, <2>5 DEF HandleStep
<1>2. CASE LoopStart
  <2>1. cachedLead' = rlead /\ cachedTerm' = rterm /\ UNCHANGED <<role, rlead, rterm, asked>>
    BY <1>2 DEF LoopStart, cacheRaftStatus, raftVars, nodeVars
  <2>2. QED
    BY <2>1 DEF TermInv
<1>3. CASE SkipReady \/ SnapshotReady \/ HandleReady
  <2>1. pc' = "idle" /\ UNCHANGED <<role, rlead>>
    BY <1>3 DEF SkipReady, SnapshotReady, HandleReady, raftVars, nodeVars
  <2>2. QED
    BY <2>1 DEF TermInv
<1>4. CASE /\ UNCHANGED <<role, rlead, rterm, asked, cachedLead, cachedTerm>>
           /\ pc' # "idle" => pc # "idle"
  BY <1>4 DEF TermInv
<1>5. CASE Worker \/ HandleGCPeerMsg \/ (\E c \in Cmds : Submit(c)) \/ LoopStop
           \/ UNCHANGED vars
  <2>1. UNCHANGED raftVars /\ UNCHANGED <<pc, cachedLead, cachedTerm>>
    BY <1>5 DEF Worker, HandleGCPeerMsg, Submit, DoRegistrationJob, DoPropose,
       DoApplyCommittedEntries, DoApplyingSnapshotJob, DoDestroy, RetryMustDestroy, RemovePR,
       LoopStop, vars, loopVars
  <2>2. QED
    BY <1>4, <2>1 DEF raftVars, nodeVars
<1>6. CASE HandleApplyResult \/ HandleRequest \/ ProposeRefused \/ ProposeForwarded
           \/ ProposeAppended
  <2>1. UNCHANGED <<role, rlead, rterm, asked, cachedLead, cachedTerm>> /\ pc # "idle"
    BY <1>6 DEF HandleApplyResult, HandleRequest, ProposeRefused, ProposeForwarded,
       ProposeAppended, raftVars, nodeVars
  <2>2. QED
    BY <1>4, <2>1
<1>7. CASE Group
  <2>1. UNCHANGED <<role, rlead, rterm, asked>>
    BY <1>7 DEF Group, GroupNext, OtherElected, OtherAppend, OtherAppendForwarded,
       GroupCommit, SnapshotFileArrives, nodeVars
  <2>2. UNCHANGED <<pc, cachedLead, cachedTerm>>
    BY <1>7 DEF Group, loopVars
  <2>3. QED
    BY <1>4, <2>1, <2>2
<1>8. QED
  BY <1>1, <1>2, <1>3, <1>5, <1>6, <1>7 DEF Next, Loop

\* A callback with the delegate, or on its way to it, and its term.
FiledAs(c, t) ==
    \/ \E i \in DOMAIN pending : pending[i].cmd = c /\ pending[i].term = t
    \/ \E i \in DOMAIN jobs : /\ jobs[i].kind = "propose"
                              /\ jobs[i].cmd = c /\ jobs[i].term = t

\* The entry of a callback has the term of the callback, wherever it is.
FiledInv ==
    \A c \in Cmds, t \in Nat : FiledAs(c, t) =>
        /\ c \notin forwarded
        /\ \A e \in Entry, x \in Nat : (InLog(e, x) /\ e.cmd = c) => e.term = t

\* Callbacks come from the batch and go.
LEMMA FiledStep ==
    ASSUME TypeInv, TypeInv', [Next]_vars, NEW c \in Cmds, NEW t \in Nat, FiledAs(c, t)'
    PROVE  FiledAs(c, t) \/ (ProposeAppended /\ c = Head(batch).cmd /\ t = cachedTerm)
<1>0. /\ jobs \in Seq(Job) /\ pending \in Seq(Filed)
      /\ Len(jobs) \in Nat /\ DOMAIN jobs = 1 .. Len(jobs)
      /\ Len(pending) \in Nat /\ DOMAIN pending = 1 .. Len(pending)
  BY LenProperties DEF TypeInv, TypeOK
<1> DEFINE Fresh == ProposeAppended /\ c = Head(batch).cmd /\ t = cachedTerm
<1>1. ASSUME NEW i \in DOMAIN pending', pending'[i].cmd = c, pending'[i].term = t
      PROVE  FiledAs(c, t)
  <2>1. CASE DoPropose
    <3>1. CASE UNCHANGED pending
      BY <1>1, <3>1 DEF FiledAs
    <3>2. CASE pending' = Append(pending, filed(Head(jobs)))
      <4>1. Head(jobs) \in Job /\ Head(jobs).kind = "propose" /\ Head(jobs) = jobs[1]
            /\ 1 \in DOMAIN jobs
        <5>1. jobs # <<>> /\ nextJob("propose")
          BY <2>1 DEF DoPropose, nextJob
        <5>2. QED
          BY <1>0, <5>1, EmptySeq, NextJobType
      <4>2. filed(Head(jobs)) \in Filed
        BY <4>1, JobType DEF filed, Filed
      <4>3. /\ DOMAIN pending' = 1 .. Len(pending) + 1
            /\ pending'[Len(pending) + 1] = filed(Head(jobs))
            /\ \A k \in 1 .. Len(pending) : pending'[k] = pending[k]
        BY <1>0, <3>2, <4>2, AppendProperties
      <4>4. CASE i = Len(pending) + 1
        BY <1>1, <4>1, <4>3, <4>4 DEF FiledAs, filed
      <4>5. CASE i \in 1 .. Len(pending)
        BY <1>0, <1>1, <4>3, <4>5 DEF FiledAs
      <4>6. QED
        BY <1>0, <1>1, <4>3, <4>4, <4>5
    <3>3. QED
      BY <2>1, <3>1, <3>2 DEF DoPropose
  <2>2. CASE DoApplyCommittedEntries
    <3>1. UNCHANGED pending \/ \E n \in 0 .. Len(pending) :
             pending' = SubSeq(pending, n + 1, Len(pending))
      BY <2>2 DEF DoApplyCommittedEntries, applyEntry, rest
    <3>2. ASSUME NEW n \in 0 .. Len(pending), pending' = SubSeq(pending, n + 1, Len(pending))
          PROVE  n + i \in DOMAIN pending /\ pending'[i] = pending[n + i]
      BY <1>0, <1>1, <3>2
    <3>3. QED
      BY <1>1, <3>1, <3>2 DEF FiledAs
  <2>3. CASE DoRegistrationJob \/ DoDestroy
    <3>1. pending' = <<>>
      BY <2>3 DEF DoRegistrationJob, DoDestroy, answerPending
    <3>2. QED
      BY <1>1, <3>1
  <2>4. CASE UNCHANGED pending
    BY <1>1, <2>4 DEF FiledAs
  <2>5. CASE HandleGCPeerMsg \/ (\E d \in Cmds : Submit(d)) \/ HandleStep \/ Group \/ Loop
             \/ UNCHANGED vars
    <3>1. UNCHANGED pending
      BY <2>5 DEF Loop, LoopStart, LoopStop, HandleApplyResult, HandleRequest, ProposeRefused,
         ProposeForwarded, ProposeAppended, SkipReady, SnapshotReady, HandleReady,
         HandleGCPeerMsg, Submit, HandleStep, Group, vars, delegateVars
    <3>2. QED
      BY <2>4, <3>1
  <2>6. CASE DoApplyingSnapshotJob \/ RetryMustDestroy \/ RemovePR
    <3>1. UNCHANGED pending
      BY <2>6 DEF DoApplyingSnapshotJob, RetryMustDestroy, RemovePR, delegateVars
    <3>2. QED
      BY <2>4, <3>1
  <2>7. QED
    BY <2>1, <2>2, <2>3, <2>5, <2>6 DEF Next, Worker
<1>2. ASSUME NEW i \in DOMAIN jobs', jobs'[i].kind = "propose",
             jobs'[i].cmd = c, jobs'[i].term = t
      PROVE  FiledAs(c, t) \/ Fresh
  <2>1. CASE \E k \in DOMAIN jobs : jobs[k] = jobs'[i]
    BY <1>2, <2>1 DEF FiledAs
  <2>2. CASE UNCHANGED jobs
    BY <1>2, <2>1, <2>2
  <2>3. CASE jobs # <<>> /\ jobs' = Tail(jobs)
    <3>1. i + 1 \in DOMAIN jobs /\ jobs[i + 1] = jobs'[i]
      BY <1>0, <1>2, <2>3
    <3>2. QED
      BY <2>1, <3>1
  <2>4. ASSUME NEW job \in Job, jobs' = Append(jobs, job)
        PROVE  (\E k \in DOMAIN jobs : jobs[k] = jobs'[i]) \/ jobs'[i] = job
    <3>1. /\ DOMAIN jobs' = 1 .. Len(jobs) + 1 /\ jobs'[Len(jobs) + 1] = job
          /\ \A k \in 1 .. Len(jobs) : jobs'[k] = jobs[k]
      BY <1>0, <2>4, AppendProperties
    <3>2. QED
      BY <1>0, <1>2, <3>1
  <2>5. CASE ProposeAppended
    <3> DEFINE job == [kind |-> "propose", cmd |-> Head(batch).cmd, term |-> cachedTerm]
    <3>1. jobs' = Append(jobs, job)
      BY <2>5 DEF ProposeAppended, addApplyJob
    <3>2. job \in Job
      <4>1. batch # <<>> /\ cachedTerm \in Nat
        BY <2>5 DEF ProposeAppended, TypeInv, TypeOK
      <4>2. QED
        BY <4>1, BatchHead DEF Job
    <3>3. job.cmd = Head(batch).cmd /\ job.term = cachedTerm
      OBVIOUS
    <3> HIDE DEF job
    <3>4. (\E k \in DOMAIN jobs : jobs[k] = jobs'[i]) \/ jobs'[i] = job
      BY <2>4, <3>1, <3>2
    <3>5. QED
      BY <1>2, <2>1, <2>5, <3>3, <3>4
  <2>6. CASE HandleReady
    <3> DEFINE job == [kind |-> "apply", first |-> lastReady + 1,
                       entries |-> SubSeq(rlog, lastReady + 1, rcommit)]
    <3>1. jobs' = Append(jobs, job) \/ UNCHANGED jobs
      BY <2>6 DEF HandleReady, addApplyJob
    <3>2. job.kind = "apply"
      OBVIOUS
    <3>3. CASE jobs' = Append(jobs, job)
      <4> HIDE DEF job
      <4>1. jobs'[Len(jobs) + 1] = job /\ Len(jobs') = Len(jobs) + 1
            /\ \A k \in 1 .. Len(jobs) : jobs'[k] = jobs[k]
        BY <1>0, <3>3
      <4>2. DOMAIN jobs' = 1 .. Len(jobs) + 1
        BY <1>0, <4>1, LenProperties DEF TypeInv, TypeOK
      <4>3. i # Len(jobs) + 1
        BY <1>2, <3>2, <4>1
      <4>4. i \in DOMAIN jobs /\ jobs[i] = jobs'[i]
        BY <1>0, <4>1, <4>2, <4>3
      <4>5. QED
        BY <2>1, <4>4
    <3>4. QED
      BY <2>2, <3>1, <3>3
  <2>7. CASE SnapshotReady
    <3> DEFINE two == <<[kind |-> "snapshot", shard |-> shardAt(snapPend)],
                        registrationJob(snapPend, shardAt(snapPend).epoch)>>
    <3>1. jobs' = jobs \o two
      BY <2>7 DEF SnapshotReady
    <3>2. Len(two) = 2 /\ two[1].kind = "snapshot" /\ two[2].kind = "register"
      BY DEF registrationJob
    <3>3. /\ DOMAIN jobs' = 1 .. Len(jobs) + 2
          /\ \A k \in 1 .. Len(jobs) : jobs'[k] = jobs[k]
          /\ jobs'[Len(jobs) + 1] = two[1] /\ jobs'[Len(jobs) + 2] = two[2]
      BY <1>0, <3>1
    <3> HIDE DEF two
    <3>4. i \in 1 .. Len(jobs)
      BY <1>0, <1>2, <3>2, <3>3
    <3>5. i \in DOMAIN jobs /\ jobs[i] = jobs'[i]
      BY <1>0, <3>3, <3>4
    <3>6. QED
      BY <2>1, <3>5
  <2>8. CASE HandleGCPeerMsg
    <3>1. jobs' = Append(jobs, [kind |-> "destroy"]) /\ [kind |-> "destroy"] \in Job
      BY <2>8 DEF HandleGCPeerMsg, addApplyJob, Job
    <3>2. (\E k \in DOMAIN jobs : jobs[k] = jobs'[i]) \/ jobs'[i] = [kind |-> "destroy"]
      BY <2>4, <3>1
    <3>3. QED
      BY <1>2, <2>1, <3>2
  <2>9. CASE DoApplyCommittedEntries
    <3> DEFINE left == [kind |-> "apply", first |-> Head(jobs).first + 1,
                        entries |-> Tail(Head(jobs).entries)]
    <3>1. jobs # <<>> /\ (jobs' = Tail(jobs) \/ jobs' = <<left>> \o Tail(jobs))
      BY <2>9 DEF DoApplyCommittedEntries, nextJob
    <3>2. CASE jobs' = <<left>> \o Tail(jobs)
      <4>1. left.kind = "apply"
        OBVIOUS
      <4> HIDE DEF left
      <4>2. /\ DOMAIN jobs' = 1 .. Len(jobs) /\ jobs'[1] = left
            /\ \A k \in 2 .. Len(jobs) : jobs'[k] = jobs[k]
        BY <1>0, <3>1, <3>2
      <4>3. i \in DOMAIN jobs /\ jobs[i] = jobs'[i]
        BY <1>0, <1>2, <4>1, <4>2
      <4>4. QED
        BY <2>1, <4>3
    <3>3. QED
      BY <2>3, <3>1, <3>2
  <2>10. CASE DoRegistrationJob \/ DoPropose \/ DoApplyingSnapshotJob \/ DoDestroy
    BY <2>3, <2>10 DEF DoRegistrationJob, DoPropose, DoApplyingSnapshotJob, DoDestroy, nextJob
  <2>11. CASE LoopStart \/ LoopStop \/ HandleApplyResult \/ HandleRequest \/ ProposeRefused
              \/ ProposeForwarded \/ SkipReady \/ HandleStep \/ Group \/ RetryMustDestroy
              \/ RemovePR \/ (\E d \in Cmds : Submit(d)) \/ UNCHANGED vars
    <3>1. UNCHANGED jobs
      BY <2>11 DEF LoopStart, LoopStop, HandleApplyResult, HandleRequest, ProposeRefused,
         ProposeForwarded, SkipReady, HandleStep, Group, RetryMustDestroy, RemovePR, Submit,
         vars
    <3>2. QED
      BY <2>2, <3>1
  <2>12. QED
    BY <2>5, <2>6, <2>7, <2>8, <2>9, <2>10, <2>11 DEF Next, Loop, Worker
<1>3. QED
  BY <1>1, <1>2 DEF FiledAs

\* A callback that is filed is not that of a command that waits.
LEMMA FiledHome ==
    ASSUME ReplyInv, NEW c \in Cmds, NEW t, FiledAs(c, t)
    PROVE  c \notin cmdsOf(batch)
<1>1. c \in cmdsOf(pending) \/ c \in proposed(jobs)
  BY DEF FiledAs, cmdsOf, proposed
<1>2. QED
  BY <1>1, ReplyInvParts DEF NoneInTwo

LEMMA NextKeepsFiled ==
    ASSUME ReplyInv, LogInv, OnceInv, TermInv, FiledInv, [Next]_vars
    PROVE  FiledInv'
<1>0. TypeInv /\ TypeInv'
  BY NextKeepsTypes, ReplyInvParts
<1> SUFFICES ASSUME NEW c \in Cmds, NEW t \in Nat, FiledAs(c, t)'
             PROVE  /\ c \notin forwarded'
                    /\ \A e \in Entry, x \in Nat : (InLog(e, x)' /\ e.cmd = c) => e.term = t
  BY DEF FiledInv
<1>1. CASE FiledAs(c, t)
  <2>1. /\ c \notin forwarded
        /\ \A e \in Entry, x \in Nat : (InLog(e, x) /\ e.cmd = c) => e.term = t
    BY <1>1 DEF FiledInv
  <2>2. c \notin cmdsOf(batch)
    BY <1>1, FiledHome
  <2>3. CASE ProposeAppended
    <3>1. batch # <<>> /\ net' = net
      BY <2>3 DEF ProposeAppended, groupVars
    <3>2. OneNew(proposal, Len(rlog) + 1)
      BY <1>0, <2>3, ProposeAppendedKeepsLog
    <3>3. proposal.cmd # c
      BY <1>0, <2>2, <3>1, BatchHead DEF proposal
    <3>4. forwarded' = forwarded
      BY <3>1 DEF forwarded
    <3>5. QED
      BY <2>1, <3>2, <3>3, <3>4 DEF OneNew
  <2>4. CASE Group /\ OtherAppendForwarded
    <3>1. PICK p \in net : glog' = Append(glog, forwardedBy(p)) /\ net' = net \ {p}
      BY <2>4 DEF OtherAppendForwarded, forwardedBy
    <3>2. UNCHANGED rlog
      BY <2>4 DEF Group, OtherAppendForwarded, nodeVars
    <3>3. OneNew(forwardedBy(p), Len(glog) + 1)
      BY <1>0, <3>1, <3>2, ForwardedIsOneNew
    <3>4. forwardedBy(p).cmd # c /\ c \notin forwarded'
      BY <2>1, <3>1 DEF forwardedBy, forwarded
    <3>5. QED
      BY <2>1, <3>3, <3>4 DEF OneNew
  <2>5. CASE ~ProposeAppended /\ ~(Group /\ OtherAppendForwarded)
    <3>1. NothingNew
      BY <1>0, <2>5, NextKeepsLog
    <3>2. net' = net \/ (ProposeForwarded /\ net' = net \cup {Head(batch)})
      BY <2>5, NetStep
    <3>3. c \notin forwarded'
      <4>1. CASE ProposeForwarded /\ net' = net \cup {Head(batch)}
        <5>1. batch # <<>>
          BY <4>1 DEF ProposeForwarded
        <5>2. Head(batch).cmd # c
          BY <1>0, <2>2, <5>1, BatchHead
        <5>3. QED
          BY <2>1, <4>1, <5>2 DEF forwarded
      <4>2. QED
        BY <2>1, <3>2, <4>1 DEF forwarded
    <3>4. QED
      BY <2>1, <3>1, <3>3 DEF NothingNew
  <2>6. QED
    BY <2>3, <2>4, <2>5
<1>2. CASE ProposeAppended /\ c = Head(batch).cmd /\ t = cachedTerm
  <2>1. /\ batch # <<>> /\ net' = net /\ pc = "propose" /\ cachedLead = "self"
        /\ role = "leader"
    BY <1>2 DEF ProposeAppended, groupVars
  <2>2. c \in waiting
    BY <1>0, <1>2, <2>1, BatchHead DEF waiting
  <2>3. Unlogged(c) /\ c \notin forwarded'
    BY <2>1, <2>2 DEF OnceInv, forwarded
  <2>4. OneNew(proposal, Len(rlog) + 1)
    BY <1>0, <1>2, ProposeAppendedKeepsLog
  <2>5. proposal.term = t
    BY <1>2, <2>1 DEF TermInv, proposal
  <2>6. QED
    BY <2>3, <2>4, <2>5 DEF OneNew, Unlogged
<1>3. QED
  BY <1>0, <1>1, <1>2, FiledStep

\* What the logs hold, and under which terms, as one inductive invariant.
LogsInv == ReplyInv /\ LogInv /\ OnceInv /\ TermInv /\ FiledInv

LEMMA InitLogsInv == Init => LogsInv
<1>1. SUFFICES ASSUME Init PROVE LogsInv
  OBVIOUS
<1>2. ReplyInv
  BY <1>1, InitReplyInv
<1>3. /\ glog = <<>> /\ rlog = <<>> /\ gcommit = 0 /\ rcommit = 0 /\ net = {}
      /\ role = "follower" /\ rlead = "none" /\ pc = "idle"
      /\ requests = <<>> /\ batch = <<>> /\ pending = <<>>
      /\ replies = [c \in Cmds |-> <<>>] /\ ~gself
  BY <1>1, Zenon DEF Init, RaftInit
<1>4. \A e \in Entry, x \in Nat : ~InLog(e, x)
  BY <1>3 DEF InLog
<1>5. LogInv
  BY <1>3 DEF LogInv
<1>6. OnceInv
  <2>1. waiting = {} /\ forwarded = {}
    BY <1>3 DEF waiting, forwarded, ToSet, cmdsOf
  <2>2. \A c \in Cmds : ~refused(c)
    BY <1>3 DEF refused, ToSet
  <2>3. QED
    BY <1>3, <1>4, <2>1, <2>2 DEF OnceInv, LoggedOnce
<1>7. TermInv
  BY <1>3 DEF TermInv
<1>8. FiledInv
  <2>1. jobs = <<registrationJob(0, 0)>>
    BY <1>1 DEF Init
  <2>2. \A i \in DOMAIN jobs : jobs[i].kind = "register"
    BY <2>1 DEF registrationJob
  <2>3. QED
    BY <1>3, <2>2 DEF FiledInv, FiledAs
<1>9. QED
  BY <1>2, <1>5, <1>6, <1>7, <1>8 DEF LogsInv

LEMMA NextKeepsLogsInv ==
    ASSUME LogsInv, [Next]_vars
    PROVE  LogsInv'
<1>1. TypeInv /\ TypeInv'
  BY NextKeepsTypes, ReplyInvParts DEF LogsInv
<1>2. ReplyInv'
  BY NextKeepsReplyInv DEF LogsInv
<1>3. LogInv'
  BY <1>1, NextKeepsLog DEF LogsInv
<1>4. OnceInv'
  BY NextKeepsOnce DEF LogsInv
<1>5. TermInv'
  BY <1>1, NextKeepsTerm DEF LogsInv
<1>6. FiledInv'
  BY NextKeepsFiled DEF LogsInv
<1>7. QED
  BY <1>2, <1>3, <1>4, <1>5, <1>6 DEF LogsInv

LEMMA LogsInvGivesTerm == LogsInv => FiledUnderItsTerm
<1>1. SUFFICES ASSUME LogsInv, NEW i \in DOMAIN rlog
               PROVE  /\ \A j \in DOMAIN pending :
                            pending[j].cmd = rlog[i].cmd => pending[j].term = rlog[i].term
                      /\ \A j \in DOMAIN jobs :
                            (jobs[j].kind = "propose" /\ jobs[j].cmd = rlog[i].cmd) =>
                                jobs[j].term = rlog[i].term
  BY DEF FiledUnderItsTerm
<1>2. TypeInv /\ pending \in Seq(Filed) /\ jobs \in Seq(Job) /\ rlog \in Seq(Entry)
  BY <1>1, ReplyInvParts DEF LogsInv, TypeInv, RaftInv, RaftTypeOK
<1>3. rlog[i] \in Entry /\ i \in Nat /\ InLog(rlog[i], i)
  BY <1>2, LenProperties DEF InLog
<1>4. ASSUME NEW j \in DOMAIN pending, pending[j].cmd = rlog[i].cmd
      PROVE  pending[j].term = rlog[i].term
  <2>1. pending[j] \in Filed
    BY <1>2
  <2>2. pending[j].cmd \in Cmds /\ pending[j].term \in Nat
    BY <2>1 DEF Filed
  <2>3. FiledAs(pending[j].cmd, pending[j].term)
    BY DEF FiledAs
  <2>4. QED
    BY <1>1, <1>3, <1>4, <2>2, <2>3 DEF LogsInv, FiledInv
<1>5. ASSUME NEW j \in DOMAIN jobs, jobs[j].kind = "propose", jobs[j].cmd = rlog[i].cmd
      PROVE  jobs[j].term = rlog[i].term
  <2>1. jobs[j] \in Job
    BY <1>2
  <2>2. jobs[j].cmd \in Cmds /\ jobs[j].term \in Nat
    BY <1>5, <2>1, JobType
  <2>3. FiledAs(jobs[j].cmd, jobs[j].term)
    BY <1>5 DEF FiledAs
  <2>4. QED
    BY <1>1, <1>3, <1>5, <2>2, <2>3 DEF LogsInv, FiledInv
<1>6. QED
  BY <1>4, <1>5

\* A callback is filed under the term its entry was appended in, although
\* propose takes the term from the status cached when the round started.
THEOREM CallbackHasEntrysTerm == Spec => []FiledUnderItsTerm
<1>1. LogsInv /\ [Next]_vars => LogsInv'
  BY NextKeepsLogsInv
<1>2. QED
  BY InitLogsInv, <1>1, LogsInvGivesTerm, PTL DEF Spec

----------------------------------------------------------------------------
(* The history of the group.                                               *)

\* Executing an entry writes its command or nothing.
LEMMA ExecEntryData ==
    ASSUME NEW s \in Shard, NEW e \in Entry
    PROVE  /\ execEntry(s, e) \in Shard
           /\ \/ execEntry(s, e).data = s.data
              \/ /\ execEntry(s, e).data = Append(s.data, e.cmd)
                 /\ e.cmd \in Cmds \cup Others /\ checkEpoch(s.epoch, e)
           /\ (e.cmd \in Cmds \ Splits /\ checkEpoch(s.epoch, e)) =>
                 execEntry(s, e).data = Append(s.data, e.cmd)
           /\ \A t \in Shard : t.epoch = s.epoch => execEntry(t, e).epoch = execEntry(s, e).epoch
<1>1. execEntry(s, e) \in Shard
  BY ExecEntryType
<1>2. e.cmd \in Cmds \cup Others \cup {Empty}
  BY DEF Entry
<1>3. CASE e.cmd = Empty \/ ~checkEpoch(s.epoch, e)
  <2>1. \A t \in Shard : t.epoch = s.epoch => execEntry(t, e) = t
    <3>1. SUFFICES ASSUME NEW t \in Shard, t.epoch = s.epoch PROVE execEntry(t, e) = t
      OBVIOUS
    <3>2. e.cmd = Empty \/ ~checkEpoch(t.epoch, e)
      BY <1>3, <3>1, Zenon
    <3>3. ~(e.cmd \in Splits /\ checkEpoch(t.epoch, e))
      BY <3>2, CommandsAssumption
    <3>4. QED
      BY <3>2, <3>3 DEF execEntry
  <2>2. QED
    BY <1>1, <1>3, <2>1, CommandsAssumption
<1>4. CASE e.cmd \in Splits /\ checkEpoch(s.epoch, e) /\ e.cmd # Empty
  <2>1. \A t \in Shard : t.epoch = s.epoch => execEntry(t, e) = doExecSplit(t)
    BY <1>4 DEF execEntry
  <2>2. QED
    BY <1>1, <1>4, <2>1 DEF doExecSplit
<1>5. CASE e.cmd \notin Splits /\ checkEpoch(s.epoch, e) /\ e.cmd # Empty
  <2>1. \A t \in Shard : t.epoch = s.epoch => execEntry(t, e) = execWriteRequest(t, e)
    BY <1>5 DEF execEntry
  <2>2. QED
    BY <1>1, <1>2, <1>5, <2>1 DEF execWriteRequest
<1>6. QED
  BY <1>3, <1>4, <1>5

\* The history grows by one shard at a time.
LEMMA CommitStep ==
    ASSUME TypeInv, [Next]_vars
    PROVE  gcommit' = gcommit \/ gcommit' = gcommit + 1
<1>1. CASE Worker \/ HandleGCPeerMsg \/ \E c \in Cmds : Submit(c)
  <2>1. UNCHANGED raftVars
    BY <1>1 DEF Worker, HandleGCPeerMsg, Submit, DoRegistrationJob, DoPropose,
       DoApplyCommittedEntries, DoApplyingSnapshotJob, DoDestroy, RetryMustDestroy, RemovePR
  <2>2. QED
    BY <2>1 DEF raftVars, groupVars
<1>2. CASE Loop
  BY <1>2 DEF Loop, LoopStart, LoopStop, HandleApplyResult, HandleRequest, ProposeRefused,
       ProposeForwarded, SkipReady, SnapshotReady, HandleReady, ProposeAppended, raftVars,
       groupVars
<1>3. CASE HandleStep
  BY <1>3 DEF HandleStep, Campaign, Win, StepDown, FollowLeader, LearnCommit, RecvProp,
       RecvSnapshot, groupVars
<1>4. CASE Group
  BY <1>4 DEF Group, GroupNext, OtherElected, OtherAppend, OtherAppendForwarded, GroupCommit,
       SnapshotFileArrives, groupVars
<1>5. CASE UNCHANGED vars
  BY <1>5 DEF vars, raftVars, groupVars
<1>6. QED
  BY <1>1, <1>2, <1>3, <1>4, <1>5 DEF Next

LEMMA AfterShard ==
    ASSUME NEW S \in Seq(Shard), NEW k \in 0 .. Len(S)
    PROVE  /\ after(S, k) \in Shard /\ after(S, k).data \in Seq(Cmds \cup Others)
           /\ after(S, k).epoch \in Nat
<1>1. NewShard \in Shard
  <2>1. <<>> \in Seq(Cmds \cup Others)
    OBVIOUS
  <2>2. QED
    BY <2>1 DEF NewShard, Shard
<1>2. k # 0 => S[k] \in Shard
  BY LenProperties
<1>3. after(S, k) \in Shard
  BY <1>1, <1>2 DEF after
<1>4. QED
  BY <1>3 DEF Shard

LEMMA AfterType ==
    ASSUME TypeInv, NEW k \in 0 .. gcommit
    PROVE  /\ after(gshards, k) \in Shard /\ after(gshards, k) = shardAt(k)
           /\ after(gshards, k).data \in Seq(Cmds \cup Others)
           /\ after(gshards, k).epoch \in Nat
<1>1. k \in 0 .. Len(gshards) /\ gshards \in Seq(Shard)
  BY DEF TypeInv, RaftInv, RaftTypeOK
<1>2. after(gshards, k) = shardAt(k)
  BY DEF after, shardAt
<1>3. QED
  BY <1>1, <1>2, AfterShard

\* The shards of the history hold the commands of the entries that were
\* executed, each once, and only grow.
Executed(c, k, log, S) ==
    \E x \in 1 .. k : log[x].cmd = c /\ checkEpoch(after(S, x - 1).epoch, log[x])

HistoryOf(k, log, S) ==
    /\ \A i \in DOMAIN after(S, k).data :
          after(S, k).data[i] \in Cmds => Executed(after(S, k).data[i], k, log, S)
    /\ \A i, j \in DOMAIN after(S, k).data :
          (after(S, k).data[i] = after(S, k).data[j] /\ after(S, k).data[i] \in Cmds) => i = j

Extends(s, t) == \A i \in DOMAIN s : i \in DOMAIN t /\ t[i] = s[i]

HistoryInv ==
    \A k \in 0 .. gcommit :
        /\ HistoryOf(k, glog, gshards)
        /\ Extends(after(gshards, k).data, after(gshards, gcommit).data)

LEMMA HistoryFrame ==
    ASSUME TypeInv, LogInv, Stays, NEW k \in 0 .. gcommit, HistoryOf(k, glog, gshards)
    PROVE  HistoryOf(k, glog', gshards') /\ after(gshards', k) = after(gshards, k)
<1>0. gcommit \in Nat
  BY DEF TypeInv, RaftInv, RaftTypeOK
<1>1. \A j \in 0 .. gcommit : after(gshards', j) = after(gshards, j)
  BY <1>0 DEF after, Stays
<1>2. \A x \in 1 .. k : glog'[x] = glog[x] /\ after(gshards', x - 1) = after(gshards, x - 1)
  BY <1>0, <1>1 DEF Stays
<1>3. \A c : Executed(c, k, glog, gshards) => Executed(c, k, glog', gshards')
  BY <1>2 DEF Executed
<1>4. after(gshards', k) = after(gshards, k)
  BY <1>1
<1>5. QED
  BY <1>3, <1>4 DEF HistoryOf

LEMMA NextKeepsHistory ==
    ASSUME LogsInv, LogsInv', HistoryInv, [Next]_vars
    PROVE  HistoryInv'
<1>0. /\ TypeInv /\ TypeInv' /\ LogInv /\ LogInv' /\ Stays
      /\ gcommit \in Nat /\ gcommit' \in Nat
  <2>1. TypeInv /\ TypeInv' /\ LogInv /\ LogInv'
    BY ReplyInvParts DEF LogsInv, ReplyInv
  <2>2. QED
    BY <2>1, NextKeepsLog DEF TypeInv, RaftInv, RaftTypeOK
<1>1. \A k \in 0 .. gcommit : HistoryOf(k, glog', gshards') /\ after(gshards', k) = after(gshards, k)
  BY <1>0, HistoryFrame DEF HistoryInv
<1>2. CASE gcommit' = gcommit
  BY <1>0, <1>1, <1>2 DEF HistoryInv
<1>3. CASE gcommit' = gcommit + 1
  <2> DEFINE n == gcommit + 1
             old == after(gshards', gcommit)
             e == glog'[n]
             new == after(gshards', n)
  <2>1. /\ n \in 1 .. gcommit' /\ gcommit \in 0 .. gcommit' /\ n \in 0 .. gcommit'
        /\ n \in Nat /\ n # 0 /\ n - 1 = gcommit
    BY <1>0, <1>3
  <2>2. new = execEntry(old, e)
    <3>1. new = gshards'[n]
      BY <2>1 DEF after
    <3>2. QED
      BY <1>0, <2>1, <3>1 DEF LogInv
  <2>3. e \in Entry /\ n \in 1 .. Len(glog')
    BY <1>0, <1>3, <2>1 DEF TypeInv, RaftInv, RaftTypeOK
  <2>4. old \in Shard /\ old.data \in Seq(Cmds \cup Others)
    BY SMTT(30), <1>0, <1>3, AfterShard DEF TypeInv, RaftInv, RaftTypeOK
  <2>5. HistoryOf(gcommit, glog', gshards')
    BY <1>0, <1>1
  <2>6. \/ new.data = old.data
        \/ /\ new.data = Append(old.data, e.cmd) /\ e.cmd \in Cmds \cup Others
           /\ checkEpoch(old.epoch, e)
    BY <2>2, <2>3, <2>4, ExecEntryData
  <2>11. \A x, y \in 1 .. Len(glog') :
            (glog'[x].cmd = glog'[y].cmd /\ glog'[x].cmd \in Cmds) => x = y
    <3>1. LoggedOnce'
      BY DEF LogsInv, OnceInv
    <3>2. glog' \in Seq(Entry)
      BY <1>0 DEF TypeInv, RaftInv, RaftTypeOK
    <3>3. \A x \in 1 .. Len(glog') : glog'[x] \in Entry /\ x \in Nat
      BY <3>2
    <3>4. QED
      BY <3>1, <3>3 DEF LoggedOnce, InLog
  <2>7. \A c : Executed(c, gcommit, glog', gshards') => Executed(c, n, glog', gshards')
    BY <1>0, <2>1 DEF Executed
  <2>8. HistoryOf(n, glog', gshards') /\ Extends(old.data, new.data)
    <3>1. CASE new.data = old.data
      BY <2>5, <2>7, <3>1 DEF HistoryOf, Extends
    <3>2. CASE /\ new.data = Append(old.data, e.cmd) /\ e.cmd \in Cmds \cup Others
               /\ checkEpoch(old.epoch, e)
      <4> DEFINE m == Len(old.data)
      <4>1. /\ m \in Nat /\ DOMAIN old.data = 1 .. m /\ DOMAIN new.data = 1 .. m + 1
            /\ \A i \in 1 .. m : new.data[i] = old.data[i]
            /\ new.data[m + 1] = e.cmd
        BY <2>4, <3>2, AppendProperties, LenProperties
      <4>2. Executed(e.cmd, n, glog', gshards')
        <5>1. n \in 1 .. n /\ after(gshards', n - 1) = old /\ glog'[n] = e
          BY <2>1
        <5>2. QED
          BY <3>2, <5>1 DEF Executed
      <4>3. ASSUME NEW i \in 1 .. m, old.data[i] = e.cmd, e.cmd \in Cmds
            PROVE  FALSE
        <5>1. Executed(e.cmd, gcommit, glog', gshards')
          BY <2>5, <4>1, <4>3 DEF HistoryOf
        <5>2. PICK x \in 1 .. gcommit : glog'[x].cmd = e.cmd
          BY <5>1 DEF Executed
        <5>3. x \in 1 .. Len(glog')
          BY <1>0, <2>3, <5>2 DEF TypeInv, RaftInv, RaftTypeOK
        <5>5. x = n
          BY <2>3, <2>11, <4>3, <5>2, <5>3
        <5>6. QED
          BY <1>0, <5>5
      <4> HIDE DEF old, new, e, m
      <4>4. \A i \in 1 .. m + 1 : i \in 1 .. m \/ i = m + 1
        BY <4>1
      <4>5. \A i \in DOMAIN new.data : new.data[i] \in Cmds =>
               Executed(new.data[i], n, glog', gshards')
        <5>1. \A i \in DOMAIN old.data : old.data[i] \in Cmds =>
                 Executed(old.data[i], gcommit, glog', gshards')
          BY <2>5 DEF HistoryOf, old
        <5>2. QED
          BY <2>7, <4>1, <4>2, <4>4, <5>1
      <4>6. \A i, j \in DOMAIN new.data :
               (new.data[i] = new.data[j] /\ new.data[i] \in Cmds) => i = j
        <5>1. \A i, j \in DOMAIN old.data :
                 (old.data[i] = old.data[j] /\ old.data[i] \in Cmds) => i = j
          BY <2>5 DEF HistoryOf, old
        <5>2. QED
          BY <4>1, <4>3, <4>4, <5>1
      <4>7. Extends(old.data, new.data)
        BY <4>1 DEF Extends
      <4>8. QED
        BY <4>5, <4>6, <4>7 DEF HistoryOf, new
    <3>3. QED
      BY <2>6, <3>1, <3>2
  <2>9. ASSUME NEW k \in 0 .. gcommit'
        PROVE  HistoryOf(k, glog', gshards') /\ Extends(after(gshards', k).data, new.data)
    <3>1. CASE k = n
      BY <2>8, <3>1 DEF Extends
    <3>2. CASE k \in 0 .. gcommit
      <4>1. Extends(after(gshards', k).data, old.data)
        <5>1. gcommit \in 0 .. gcommit
          BY <1>0
        <5>2. QED
          BY <1>1, <3>2, <5>1 DEF HistoryInv
      <4>2. Extends(after(gshards', k).data, new.data)
        BY <2>8, <4>1 DEF Extends
      <4>3. QED
        BY <1>1, <3>2, <4>2
    <3>3. QED
      BY <1>0, <1>3, <3>1, <3>2
  <2>10. QED
    BY <1>3, <2>9 DEF HistoryInv
<1>4. QED
  BY <1>0, <1>2, <1>3, CommitStep

----------------------------------------------------------------------------
(* The queue of the apply worker.                                          *)

\* What a job does to the entries: before it the first m were given out, with
\* it the first n.
Covers(job, m, n, log, S) ==
    /\ job.kind = "apply" =>
          /\ job.first = m + 1 /\ n = m + Len(job.entries)
          /\ \A i \in 1 .. Len(job.entries) : job.entries[i] = log[m + i]
    /\ job.kind = "register" => n = m /\ job.applied = n /\ job.epoch = after(S, n).epoch
    /\ job.kind = "snapshot" => job.shard = after(S, n)
    /\ job.kind \in {"propose", "destroy"} => n = m

\* The jobs of a queue follow one another: h[k] entries were given out when
\* the k-th was queued.  No registration and no snapshot is behind entries,
\* and a registration is behind every snapshot.
Queue(h, js, log, S) ==
    /\ \A i, j \in 0 .. Len(js) : i <= j => h[i] <= h[j]
    /\ \A k \in 1 .. Len(js) : Covers(js[k], h[k - 1], h[k], log, S)
    /\ \A i, j \in 1 .. Len(js) :
          (i < j /\ js[i].kind = "apply") => js[j].kind \notin {"register", "snapshot"}
    /\ \A i \in 1 .. Len(js) : js[i].kind = "snapshot" =>
          \E j \in 1 .. Len(js) : i < j /\ js[j].kind = "register"

Queued(js, kind) == \E i \in 1 .. Len(js) : js[i].kind = kind

\* What was given out is committed, and a snapshot that waits is newer.
ReadyInv ==
    /\ lastReady <= psCommit /\ psCommit <= rcommit
    /\ snapPend # 0 => psCommit < snapPend /\ snapPend <= rcommit

\* The delegate has applied what the queue starts from, unless a registration
\* still waits; its data are those of the history, unless a snapshot does.
DelegateInv(a) ==
    /\ dApplied <= a
    /\ registered => dApplied = a \/ Queued(jobs, "register")
    /\ dEpoch = after(gshards, dApplied).epoch
    /\ (/\ intact /\ ~Queued(jobs, "snapshot")
        /\ registered \/ Queued(jobs, "register")) => data = after(gshards, a).data

\* The results the event worker has not seen are newer than what it has, and
\* there are none while a snapshot is being applied.
ResultsInv(h) ==
    /\ \A i \in 1 .. Len(results) :
          psApplied < results[i].applied /\ results[i].applied <= dApplied
    /\ Queued(jobs, "snapshot") => results = <<>>
    /\ ~Queued(jobs, "snapshot") => psApplied <= h[0]
    /\ \A k \in 1 .. Len(jobs) : jobs[k].kind = "snapshot" => psApplied <= h[k]

\* Where a command is in the logs.
places == [c \in Cmds |-> {x \in Nat : \E e \in Entry : InLog(e, x) /\ e.cmd = c}]

\* The entry of a proposal in the queue is behind what was given out before
\* the proposal was queued.
Ahead(h, js, pl) ==
    \A k \in 1 .. Len(js) : js[k].kind = "propose" => \A x \in pl[js[k].cmd] : h[k] < x

\* Data written by the first n entries.
Written(d, n, log) ==
    \A i \in DOMAIN d : d[i] \in Cmds => \E x \in 1 .. n : log[x].cmd = d[i]

\* A plan of what the apply worker will do, and what it has done.
Plan(h) ==
    /\ Queue(h, jobs, glog, gshards)
    /\ Ahead(h, jobs, places)
    /\ h[Len(jobs)] = lastReady
    /\ DelegateInv(h[0])
    /\ Written(data, h[0], glog)
    /\ ResultsInv(h)

PlanInv == ReadyInv /\ ~fatal /\ \E h \in [0 .. Len(jobs) -> Nat] : Plan(h)

\* A replica that campaigns or leads has no snapshot to apply.
OneSnapshot(js) ==
    \A i, j \in 1 .. Len(js) : (js[i].kind = "snapshot" /\ js[j].kind = "snapshot") => i = j

SnapshotInv ==
    /\ snapPend # 0 => role = "follower"
    /\ Queued(jobs, "snapshot") => role = "follower" /\ stopRaftTick
    /\ OneSnapshot(jobs)

\* The jobs of a queue, one later.
LEMMA QueuePop ==
    ASSUME NEW js \in Seq(Job), js # <<>>, NEW h \in [0 .. Len(js) -> Nat], NEW log, NEW S,
           Queue(h, js, log, S),
           NEW g \in [0 .. Len(js) - 1 -> Nat], \A i \in 0 .. Len(js) - 1 : g[i] = h[i + 1]
    PROVE  /\ g \in [0 .. Len(Tail(js)) -> Nat]
           /\ Queue(g, Tail(js), log, S)
           /\ g[Len(Tail(js))] = h[Len(js)] /\ g[0] = h[1] /\ h[0] <= h[1]
           /\ Head(js) = js[1] /\ Covers(Head(js), h[0], h[1], log, S)
           /\ Len(Tail(js)) = Len(js) - 1
           /\ \A k \in 1 .. Len(js) - 1 : Tail(js)[k] = js[k + 1] /\ g[k] = h[k + 1]
<1> DEFINE t == Tail(js)
           n == Len(js)
<1>1. /\ n \in Nat /\ n # 0 /\ Len(t) = n - 1
      /\ \A i \in 1 .. n - 1 : t[i] = js[i + 1]
      /\ Head(js) = js[1]
  BY EmptySeq, LenProperties, HeadTailProperties
<1> HIDE DEF t
<1>2. \A i \in 0 .. n - 1 : g[i] = h[i + 1] /\ h[i + 1] \in Nat
  BY <1>1
<1>3. g \in [0 .. Len(t) -> Nat]
  BY <1>1
<1>4. \A i, j \in 0 .. Len(t) : i <= j => g[i] <= g[j]
  BY <1>1, <1>2 DEF Queue
<1>5. \A k \in 1 .. Len(t) : Covers(t[k], g[k - 1], g[k], log, S)
  <2>1. SUFFICES ASSUME NEW k \in 1 .. Len(t)
                 PROVE  Covers(t[k], g[k - 1], g[k], log, S)
    OBVIOUS
  <2>2. t[k] = js[k + 1] /\ g[k - 1] = h[k] /\ g[k] = h[k + 1]
    BY <1>1, <1>2
  <2>3. k + 1 \in 1 .. Len(js) /\ (k + 1) - 1 = k
    BY <1>1
  <2>4. Covers(js[k + 1], h[(k + 1) - 1], h[k + 1], log, S)
    BY <2>3 DEF Queue
  <2>5. QED
    BY <2>2, <2>3, <2>4
<1>6. \A i, j \in 1 .. Len(t) :
          (i < j /\ t[i].kind = "apply") => t[j].kind \notin {"register", "snapshot"}
  <2>1. SUFFICES ASSUME NEW i \in 1 .. Len(t), NEW j \in 1 .. Len(t), i < j, t[i].kind = "apply"
                 PROVE  t[j].kind \notin {"register", "snapshot"}
    OBVIOUS
  <2>2. /\ i + 1 \in 1 .. Len(js) /\ j + 1 \in 1 .. Len(js) /\ i + 1 < j + 1
        /\ t[i] = js[i + 1] /\ t[j] = js[j + 1]
    BY <1>1, <2>1
  <2>3. QED
    BY <2>1, <2>2 DEF Queue
<1>7. \A i \in 1 .. Len(t) : t[i].kind = "snapshot" =>
          \E j \in 1 .. Len(t) : i < j /\ t[j].kind = "register"
  <2>1. SUFFICES ASSUME NEW i \in 1 .. Len(t), t[i].kind = "snapshot"
                 PROVE  \E j \in 1 .. Len(t) : i < j /\ t[j].kind = "register"
    OBVIOUS
  <2>2. i + 1 \in 1 .. Len(js) /\ js[i + 1].kind = "snapshot"
    BY <1>1, <2>1
  <2>3. PICK j \in 1 .. Len(js) : i + 1 < j /\ js[j].kind = "register"
    BY <2>2 DEF Queue
  <2>4. j - 1 \in 1 .. Len(t) /\ i < j - 1 /\ (j - 1) + 1 = j
    BY <1>1, <2>3
  <2>5. t[j - 1] = js[j]
    BY <1>1, <2>4
  <2>6. QED
    BY <2>3, <2>4, <2>5
<1>8. Covers(js[1], h[0], h[1], log, S) /\ h[0] <= h[1]
  <2>1. 1 \in 1 .. Len(js) /\ 0 \in 0 .. Len(js) /\ 1 \in 0 .. Len(js) /\ 1 - 1 = 0
    BY <1>1
  <2>2. Covers(js[1], h[1 - 1], h[1], log, S)
    BY <2>1 DEF Queue
  <2>3. QED
    BY <2>1, <2>2 DEF Queue
<1>9. Queue(g, t, log, S)
  BY <1>4, <1>5, <1>6, <1>7 DEF Queue
<1>10. g[Len(t)] = h[n] /\ g[0] = h[1]
  BY <1>1, <1>2
<1>11. QED
  BY <1>1, <1>2, <1>3, <1>8, <1>9, <1>10 DEF t

\* A job is put in the queue.
LEMMA QueuePush ==
    ASSUME NEW js \in Seq(Job), NEW h \in [0 .. Len(js) -> Nat], NEW log, NEW S,
           Queue(h, js, log, S),
           NEW job \in Job, NEW last \in Nat, h[Len(js)] <= last,
           Covers(job, h[Len(js)], last, log, S),
           job.kind \notin {"register", "snapshot"},
           NEW g \in [0 .. Len(js) + 1 -> Nat], g[Len(js) + 1] = last,
           \A i \in 0 .. Len(js) : g[i] = h[i]
    PROVE  /\ g \in [0 .. Len(Append(js, job)) -> Nat]
           /\ Queue(g, Append(js, job), log, S)
           /\ Len(Append(js, job)) = Len(js) + 1
           /\ g[Len(js) + 1] = last
           /\ \A i \in 0 .. Len(js) : g[i] = h[i]
           /\ \A i \in 1 .. Len(js) : Append(js, job)[i] = js[i]
           /\ Append(js, job)[Len(js) + 1] = job
<1> DEFINE t == Append(js, job)
           n == Len(js)
<1>1. /\ n \in Nat /\ Len(t) = n + 1 /\ t[n + 1] = job
      /\ \A i \in 1 .. n : t[i] = js[i]
  BY LenProperties, AppendProperties
<1> HIDE DEF t
<1>2. \A i \in 0 .. n : g[i] = h[i] /\ h[i] \in Nat
  BY <1>1
<1>3. g[n + 1] = last
  BY <1>1
<1>4. g \in [0 .. Len(t) -> Nat]
  BY <1>1
<1>5. \A i, j \in 0 .. Len(t) : i <= j => g[i] <= g[j]
  <2>1. \A i, j \in 0 .. n : i <= j => h[i] <= h[j]
    BY DEF Queue
  <2>2. \A i \in 0 .. n : h[i] <= h[n]
    BY <1>1, <2>1
  <2>3. \A i \in 0 .. n : h[i] <= last
    BY <1>1, <1>2, <2>2
  <2>4. SUFFICES ASSUME NEW i \in 0 .. Len(t), NEW j \in 0 .. Len(t), i <= j
                 PROVE  g[i] <= g[j]
    OBVIOUS
  <2>5. CASE j = n + 1
    BY <1>1, <1>2, <1>3, <2>3, <2>5
  <2>6. CASE j \in 0 .. n
    BY <1>1, <1>2, <2>1, <2>4, <2>6
  <2>7. QED
    BY <1>1, <2>5, <2>6
<1>6. \A k \in 1 .. Len(t) : Covers(t[k], g[k - 1], g[k], log, S)
  <2>1. SUFFICES ASSUME NEW k \in 1 .. Len(t)
                 PROVE  Covers(t[k], g[k - 1], g[k], log, S)
    OBVIOUS
  <2>2. CASE k = n + 1
    <3>1. t[k] = job /\ g[k] = last /\ k - 1 = n /\ n \in 0 .. n
      BY <1>1, <1>3, <2>2
    <3>2. g[k - 1] = h[Len(js)]
      BY <1>2, <3>1
    <3>3. QED
      BY <3>1, <3>2
  <2>3. CASE k \in 1 .. n
    <3>1. t[k] = js[k] /\ g[k] = h[k] /\ g[k - 1] = h[k - 1]
      BY <1>1, <1>2, <2>3
    <3>2. QED
      BY <2>3, <3>1 DEF Queue
  <2>4. QED
    BY <1>1, <2>2, <2>3
<1>7. \A i, j \in 1 .. Len(t) :
          (i < j /\ t[i].kind = "apply") => t[j].kind \notin {"register", "snapshot"}
  <2>1. SUFFICES ASSUME NEW i \in 1 .. Len(t), NEW j \in 1 .. Len(t), i < j, t[i].kind = "apply"
                 PROVE  t[j].kind \notin {"register", "snapshot"}
    OBVIOUS
  <2>2. i \in 1 .. n /\ t[i] = js[i]
    BY <1>1, <2>1
  <2>4. CASE j = n + 1
    BY <1>1, <2>4
  <2>5. CASE j \in 1 .. n
    BY <1>1, <2>1, <2>2, <2>5 DEF Queue
  <2>6. QED
    BY <1>1, <2>4, <2>5
<1>8. \A i \in 1 .. Len(t) : t[i].kind = "snapshot" =>
          \E j \in 1 .. Len(t) : i < j /\ t[j].kind = "register"
  <2>1. SUFFICES ASSUME NEW i \in 1 .. Len(t), t[i].kind = "snapshot"
                 PROVE  \E j \in 1 .. Len(t) : i < j /\ t[j].kind = "register"
    OBVIOUS
  <2>2. i \in 1 .. n /\ js[i].kind = "snapshot"
    BY <1>1, <2>1
  <2>3. PICK j \in 1 .. n : i < j /\ js[j].kind = "register"
    BY <2>2 DEF Queue
  <2>4. j \in 1 .. Len(t) /\ t[j] = js[j]
    BY <1>1
  <2>5. QED
    BY <2>3, <2>4
<1>9. Queue(g, t, log, S)
  BY <1>5, <1>6, <1>7, <1>8 DEF Queue
<1>10. QED
  BY <1>1, <1>2, <1>3, <1>4, <1>9 DEF t

\* A snapshot and the registration behind it are put in a queue without
\* entries.
LEMMA QueueSnapshot ==
    ASSUME NEW js \in Seq(Job), NEW h \in [0 .. Len(js) -> Nat], NEW log, NEW S,
           Queue(h, js, log, S), ~Queued(js, "apply"),
           NEW a, NEW b, NEW last \in Nat, h[Len(js)] <= last,
           a.kind = "snapshot", b.kind = "register",
           Covers(a, h[Len(js)], last, log, S), Covers(b, last, last, log, S),
           NEW n, n = Len(js),
           NEW t, Len(t) = n + 2, t[n + 1] = a, t[n + 2] = b, \A i \in 1 .. n : t[i] = js[i],
           NEW g, g[n + 1] = last, g[n + 2] = last, \A i \in 0 .. n : g[i] = h[i]
    PROVE  Queue(g, t, log, S)
<1>1. /\ n \in Nat /\ Len(t) = n + 2 /\ t[n + 1] = a /\ t[n + 2] = b
      /\ \A i \in 1 .. n : t[i] = js[i]
  BY LenProperties
<1>2. \A i \in 0 .. n : g[i] = h[i] /\ h[i] \in Nat
  OBVIOUS
<1>3. g[n + 1] = last /\ g[n + 2] = last
  OBVIOUS
<1>5. Len(js) = n
  OBVIOUS
<1>6. \A i, j \in 0 .. Len(t) : i <= j => g[i] <= g[j]
  <2>1. \A i, j \in 0 .. n : i <= j => h[i] <= h[j]
    BY <1>5 DEF Queue
  <2>2. \A i \in 0 .. n : h[i] <= h[n]
    BY <1>1, <2>1
  <2>3. \A i \in 0 .. n : h[i] <= last
    BY <1>1, <1>2, <1>5, <2>2
  <2>4. \A i \in 0 .. Len(t) : i \in 0 .. n \/ i = n + 1 \/ i = n + 2
    BY <1>1
  <2>5. SUFFICES ASSUME NEW i \in 0 .. Len(t), NEW j \in 0 .. Len(t), i <= j
                 PROVE  g[i] <= g[j]
    OBVIOUS
  <2>6. CASE j \in 0 .. n
    BY <1>1, <1>2, <2>1, <2>5, <2>6
  <2>7. CASE j \notin 0 .. n
    <3>1. g[j] = last
      BY <1>3, <2>4, <2>7
    <3>2. g[i] <= last
      BY <1>2, <1>3, <2>3, <2>4
    <3>3. QED
      BY <3>1, <3>2
  <2>8. QED
    BY <2>6, <2>7
<1>7. \A k \in 1 .. Len(t) : Covers(t[k], g[k - 1], g[k], log, S)
  <2>1. SUFFICES ASSUME NEW k \in 1 .. Len(t)
                 PROVE  Covers(t[k], g[k - 1], g[k], log, S)
    OBVIOUS
  <2>2. CASE k = n + 1
    <3>1. t[k] = a /\ g[k] = last /\ k - 1 = n /\ n \in 0 .. n
      BY <1>1, <1>3, <2>2
    <3>2. g[k - 1] = h[Len(js)]
      BY <1>2, <1>5, <3>1
    <3>3. QED
      BY <3>1, <3>2
  <2>3. CASE k = n + 2
    <3>1. t[k] = b /\ g[k] = last /\ k - 1 = n + 1
      BY <1>1, <1>3, <2>3
    <3>2. g[k - 1] = last
      BY <1>3, <3>1
    <3>3. QED
      BY <3>1, <3>2
  <2>4. CASE k \in 1 .. n
    <3>1. t[k] = js[k] /\ g[k] = h[k] /\ g[k - 1] = h[k - 1]
      BY <1>1, <1>2, <2>4
    <3>2. QED
      BY <1>5, <2>4, <3>1 DEF Queue
  <2>5. QED
    BY <1>1, <2>2, <2>3, <2>4
<1>8. \A i, j \in 1 .. Len(t) :
          (i < j /\ t[i].kind = "apply") => t[j].kind \notin {"register", "snapshot"}
  <2>1. \A i \in 1 .. Len(t) : t[i].kind # "apply"
    <3>1. \A i \in 1 .. n : js[i].kind # "apply"
      BY <1>5 DEF Queued
    <3>2. \A i \in 1 .. Len(t) : i \in 1 .. n \/ i = n + 1 \/ i = n + 2
      BY <1>1
    <3>3. QED
      BY <1>1, <3>1, <3>2
  <2>2. QED
    BY <2>1
<1>9. \A i \in 1 .. Len(t) : t[i].kind = "snapshot" =>
          \E j \in 1 .. Len(t) : i < j /\ t[j].kind = "register"
  <2>1. SUFFICES ASSUME NEW i \in 1 .. Len(t), t[i].kind = "snapshot"
                 PROVE  n + 2 \in 1 .. Len(t) /\ i < n + 2 /\ t[n + 2].kind = "register"
    OBVIOUS
  <2>2. i # n + 2
    BY <1>1, <2>1
  <2>3. QED
    BY <1>1, <2>2
<1>10. Queue(g, t, log, S)
  BY <1>6, <1>7, <1>8, <1>9 DEF Queue
<1>11. QED
  BY <1>10

\* The first entry of the first job is taken.
LEMMA QueueFront ==
    ASSUME NEW js \in Seq(Job), js # <<>>, NEW h \in [0 .. Len(js) -> Nat], NEW log, NEW S,
           Queue(h, js, log, S), Head(js).kind = "apply", Len(Head(js).entries) # 1,
           NEW left, left.kind = "apply", left.first = Head(js).first + 1,
           left.entries = Tail(Head(js).entries),
           NEW n, n = Len(js),
           NEW t, Len(t) = n, t[1] = left, \A i \in 2 .. n : t[i] = js[i],
           NEW g, g[0] = h[0] + 1, \A i \in 1 .. n : g[i] = h[i]
    PROVE  Queue(g, t, log, S) /\ h[0] + 1 <= h[1]
<1>1. /\ n \in Nat /\ n # 0 /\ Head(js) = js[1] /\ js[1] \in Job
      /\ Len(t) = n /\ t[1] = left
      /\ \A i \in 2 .. n : t[i] = js[i]
  BY EmptySeq, LenProperties
<1>2. /\ \A i \in 1 .. n : g[i] = h[i] /\ h[i] \in Nat
      /\ g[0] = h[0] + 1 /\ h[0] \in Nat
  BY <1>1
<1>3. js[1].entries \in Seq(Entry) /\ js[1].entries # <<>> /\ js[1].first \in Nat
  BY <1>1, JobType
<1> DEFINE es == js[1].entries
<1>4. /\ Len(es) \in Nat /\ Len(es) > 1 /\ Len(Tail(es)) = Len(es) - 1
      /\ \A i \in 1 .. Len(es) - 1 : Tail(es)[i] = es[i + 1]
  BY SMTT(30), <1>1, <1>3, EmptySeq, LenProperties, HeadTailProperties
<1>5. Len(js) = n
  OBVIOUS
<1>6. /\ js[1].first = h[0] + 1 /\ h[1] = h[0] + Len(es)
      /\ \A i \in 1 .. Len(es) : es[i] = log[h[0] + i]
  <2>1. Covers(js[1], h[1 - 1], h[1], log, S)
    BY <1>1, <1>5 DEF Queue
  <2>2. QED
    BY <1>1, <2>1 DEF Covers
<1>7. left.kind = "apply" /\ left.first = h[0] + 2 /\ left.entries = Tail(es)
  BY <1>1, <1>2, <1>6
<1>8. Covers(left, g[0], g[1], log, S)
  <2>1. left.first = g[0] + 1 /\ g[1] = g[0] + Len(left.entries)
    BY <1>1, <1>2, <1>4, <1>6, <1>7
  <2>2. \A i \in 1 .. Len(left.entries) : left.entries[i] = log[g[0] + i]
    <3>1. SUFFICES ASSUME NEW i \in 1 .. Len(es) - 1
                   PROVE  Tail(es)[i] = log[g[0] + i]
      BY <1>4, <1>7
    <3>2. Tail(es)[i] = es[i + 1] /\ i + 1 \in 1 .. Len(es)
      BY <1>4
    <3>3. es[i + 1] = log[h[0] + (i + 1)]
      <4> HIDE DEF es
      <4>1. \A j \in 1 .. Len(es) : es[j] = log[h[0] + j]
        BY <1>6
      <4>2. QED
        BY <3>2, <4>1, Zenon
    <3>5. h[0] + (i + 1) = g[0] + i
      <4> HIDE DEF es
      <4>1. i \in Nat
        BY <1>4
      <4>2. QED
        BY <1>2, <4>1
    <3>4. QED
      BY <3>2, <3>3, <3>5
  <2>3. QED
    BY <1>7, <2>1, <2>2 DEF Covers
<1> HIDE DEF es
<1>9. h[0] + 1 <= h[1]
  BY <1>2, <1>4, <1>6
<1>10. \A i, j \in 0 .. Len(t) : i <= j => g[i] <= g[j]
  <2>1. \A i, j \in 0 .. n : i <= j => h[i] <= h[j]
    BY <1>5 DEF Queue
  <2>2. \A i \in 1 .. n : h[0] + 1 <= h[i]
    <3>1. \A i \in 1 .. n : h[1] <= h[i]
      BY <1>1, <2>1
    <3>2. 1 \in 1 .. n
      BY <1>1
    <3>3. h[1] \in Nat
      BY <1>2, <3>2
    <3>4. QED
      BY <1>2, <1>9, <3>1, <3>3
  <2>3. SUFFICES ASSUME NEW i \in 0 .. n, NEW j \in 0 .. n, i <= j
                 PROVE  g[i] <= g[j]
    BY <1>1
  <2>4. CASE i = 0 /\ j = 0
    BY <1>2, <2>4
  <2>5. CASE i = 0 /\ j # 0
    <3>1. j \in 1 .. n
      BY <1>1, <2>5
    <3>2. QED
      BY <1>2, <2>2, <2>5, <3>1
  <2>6. CASE i # 0
    <3>1. i \in 1 .. n /\ j \in 1 .. n
      BY <1>1, <2>3, <2>6
    <3>2. QED
      BY <1>2, <2>1, <2>3, <3>1
  <2>7. QED
    BY <2>4, <2>5, <2>6
<1>11. \A k \in 1 .. Len(t) : Covers(t[k], g[k - 1], g[k], log, S)
  <2>1. SUFFICES ASSUME NEW k \in 1 .. n
                 PROVE  Covers(t[k], g[k - 1], g[k], log, S)
    BY <1>1
  <2>2. CASE k = 1
    BY <1>1, <1>8, <2>2
  <2>3. CASE k # 1
    <3>1. k \in 2 .. n /\ k - 1 \in 1 .. n
      BY <1>1, <2>3
    <3>2. t[k] = js[k] /\ g[k] = h[k] /\ g[k - 1] = h[k - 1]
      BY <1>1, <1>2, <3>1
    <3>3. QED
      BY <1>5, <3>2 DEF Queue
  <2>4. QED
    BY <2>2, <2>3
<1>12. \A i \in 1 .. n : t[i].kind = js[i].kind
  BY <1>1, <1>7
<1>13. \A i, j \in 1 .. Len(t) :
          (i < j /\ t[i].kind = "apply") => t[j].kind \notin {"register", "snapshot"}
  BY <1>1, <1>5, <1>12 DEF Queue
<1>14. \A i \in 1 .. Len(t) : t[i].kind = "snapshot" =>
          \E j \in 1 .. Len(t) : i < j /\ t[j].kind = "register"
  BY <1>1, <1>5, <1>12 DEF Queue
<1>15. Queue(g, t, log, S)
  BY <1>10, <1>11, <1>13, <1>14 DEF Queue
<1>16. QED
  BY <1>9, <1>15

\* The log changes behind what was given out.
LEMMA QueueFrame ==
    ASSUME NEW js \in Seq(Job), NEW h \in [0 .. Len(js) -> Nat], NEW log, NEW S,
           Queue(h, js, log, S), NEW c \in Nat, h[Len(js)] <= c,
           NEW log2, \A i \in 1 .. c : log2[i] = log[i],
           NEW S2, \A i \in 1 .. c : S2[i] = S[i]
    PROVE  Queue(h, js, log2, S2)
<1>0. Len(js) \in Nat
  BY LenProperties
<1>1. \A i \in 0 .. Len(js) : h[i] \in Nat /\ h[i] <= c
  BY <1>0 DEF Queue
<1>2. \A i \in 0 .. c : after(S2, i) = after(S, i)
  BY DEF after
<1>3. ASSUME NEW k \in 1 .. Len(js)
      PROVE  Covers(js[k], h[k - 1], h[k], log2, S2)
  <2> DEFINE m == h[k - 1]
             n == h[k]
             job == js[k]
  <2>0. SUFFICES Covers(job, m, n, log2, S2)
    OBVIOUS
  <2>1. Covers(job, m, n, log, S)
    BY DEF Queue
  <2>2. m \in Nat /\ n \in Nat /\ n <= c
    BY <1>0, <1>1
  <2>3. job \in Job
    BY <1>0
  <2> HIDE DEF m, n, job
  <2>4. after(S2, n) = after(S, n)
    BY <1>2, <2>2
  <2>5. CASE job.kind = "apply"
    <3>1. job.entries \in Seq(Entry)
      BY <2>3, <2>5, JobType
    <3>2. Len(job.entries) \in Nat /\ n = m + Len(job.entries)
      BY <2>1, <2>5, <3>1, LenProperties DEF Covers
    <3>3. \A i \in 1 .. Len(job.entries) : log2[m + i] = log[m + i]
      <4>1. \A i \in 1 .. Len(job.entries) : m + i \in 1 .. c
        BY <2>2, <3>2
      <4>2. QED
        BY <4>1
    <3>4. /\ job.first = m + 1
          /\ \A i \in 1 .. Len(job.entries) : job.entries[i] = log[m + i]
      BY <2>1, <2>5 DEF Covers
    <3>5. \A i \in 1 .. Len(job.entries) : job.entries[i] = log2[m + i]
      BY <3>3, <3>4
    <3>6. QED
      BY <2>5, <3>2, <3>4, <3>5 DEF Covers
  <2>6. CASE job.kind # "apply"
    BY <2>1, <2>4, <2>6 DEF Covers
  <2>7. QED
    BY <2>5, <2>6
<1>4. QED
  BY <1>3 DEF Queue

----------------------------------------------------------------------------
(* Every step keeps the plan.                                              *)

\* What is committed and handed out, in every step.
LEMMA NextKeepsReady ==
    ASSUME LogsInv, LogsInv', ReadyInv, [Next]_vars
    PROVE  ReadyInv'
<1>0. /\ TypeInv /\ TypeInv'
      /\ rcommit \in Nat /\ snapPend \in Nat /\ psCommit \in Nat /\ lastReady \in Nat
      /\ rcommit' \in Nat /\ snapPend' \in Nat /\ psCommit' \in Nat /\ lastReady' \in Nat
      /\ gcommit \in Nat
  BY DEF LogsInv, ReplyInv, TypeInv, TypeOK, RaftTypeOK
<1>1. CASE HandleStep
  <2>1. UNCHANGED <<lastReady, psCommit>>
    BY <1>1 DEF HandleStep, psVars
  <2>2. CASE RecvSnapshot
    <3>1. PICK k \in rcommit + 1 .. gcommit : rcommit' = k /\ snapPend' = k
      BY <2>2 DEF RecvSnapshot
    <3>2. QED
      BY <1>0, <2>1, <3>1 DEF ReadyInv
  <2>3. CASE ~RecvSnapshot
    <3>1. rcommit' >= rcommit /\ snapPend' = snapPend
      <4>1. CASE FollowLeader
        <5>1. PICK n \in rcommit .. Len(glog) :
                 rcommit' \in {rcommit} \cup
                              (IF n < gcommit THEN rcommit .. n ELSE rcommit .. gcommit)
          BY <4>1 DEF FollowLeader
        <5>2. QED
          BY <1>0, <4>1, <5>1 DEF FollowLeader
      <4>2. CASE LearnCommit
        <5>1. PICK n \in rcommit + 1 .. gcommit : rcommit' = n
          BY <4>2 DEF LearnCommit
        <5>2. QED
          BY <1>0, <4>2, <5>1 DEF LearnCommit
      <4>3. CASE Campaign \/ Win \/ StepDown \/ RecvProp
        BY <1>0, <4>3 DEF Campaign, Win, StepDown, RecvProp
      <4>4. QED
        BY <1>1, <2>3, <4>1, <4>2, <4>3 DEF HandleStep
    <3>2. QED
      BY <1>0, <2>1, <3>1 DEF ReadyInv
  <2>4. QED
    BY <2>2, <2>3
<1>2. CASE SnapshotReady
  <2>1. /\ snapPend # 0 /\ psCommit' = rcommit /\ lastReady' = snapPend /\ snapPend' = 0
        /\ rcommit' = rcommit
    BY <1>2 DEF SnapshotReady
  <2>2. QED
    BY <1>0, <2>1 DEF ReadyInv
<1>3. CASE HandleReady
  <2>1. /\ snapPend = 0 /\ psCommit' = rcommit /\ rcommit' = rcommit /\ snapPend' = snapPend
        /\ lastReady' = rcommit \/ lastReady' = lastReady
    BY <1>3 DEF HandleReady
  <2>2. QED
    BY <1>0, <2>1 DEF ReadyInv
<1>4. CASE UNCHANGED <<lastReady, psCommit, rcommit, snapPend>>
  BY <1>4 DEF ReadyInv
<1>5. CASE Worker \/ HandleGCPeerMsg \/ (\E c \in Cmds : Submit(c))
  <2>1. UNCHANGED raftVars /\ UNCHANGED <<lastReady, psCommit>>
    BY <1>5 DEF Worker, HandleGCPeerMsg, Submit, DoRegistrationJob, DoPropose,
       DoApplyCommittedEntries, DoApplyingSnapshotJob, DoDestroy, RetryMustDestroy, RemovePR,
       psVars
  <2>2. QED
    BY <1>4, <2>1 DEF raftVars, nodeVars
<1>6. CASE LoopStart \/ LoopStop \/ HandleApplyResult \/ HandleRequest \/ ProposeRefused
           \/ ProposeForwarded \/ ProposeAppended \/ SkipReady
  <2>1. UNCHANGED <<lastReady, psCommit, rcommit, snapPend>>
    BY <1>6 DEF LoopStart, LoopStop, HandleApplyResult, HandleRequest, ProposeRefused,
       ProposeForwarded, ProposeAppended, SkipReady, raftVars, nodeVars, psVars
  <2>2. QED
    BY <1>4, <2>1
<1>7. CASE Group
  <2>1. UNCHANGED <<rcommit, snapPend>>
    BY <1>7 DEF Group, GroupNext, OtherElected, OtherAppend, OtherAppendForwarded,
       GroupCommit, SnapshotFileArrives, nodeVars
  <2>2. UNCHANGED <<lastReady, psCommit>>
    BY <1>7 DEF Group, psVars
  <2>3. QED
    BY <1>4, <2>1, <2>2
<1>8. CASE UNCHANGED vars
  BY <1>4, <1>8 DEF vars, raftVars, nodeVars, psVars
<1>9. QED
  BY <1>1, <1>2, <1>3, <1>5, <1>6, <1>7, <1>8 DEF Next, Loop

\* A command comes into the logs behind everything that is committed.
LEMMA PlacesStep ==
    ASSUME LogsInv, ReadyInv, [Next]_vars, NEW c \in Cmds, NEW x \in places'[c]
    PROVE  x \in Nat /\ (x \in places[c] \/ lastReady < x)
<1>0. /\ TypeInv /\ TypeInv' /\ LogInv /\ Len(rlog) \in Nat /\ Len(glog) \in Nat
      /\ rcommit <= Len(rlog) /\ gcommit <= Len(glog)
      /\ rcommit \in Nat /\ gcommit \in Nat /\ lastReady \in Nat /\ psCommit \in Nat
  <2>1. TypeInv /\ TypeInv' /\ LogInv
    BY ReplyInvParts, NextKeepsTypes DEF LogsInv
  <2>2. QED
    BY <2>1, LenProperties DEF TypeInv, TypeOK, RaftInv, RaftTypeOK
<1>1. PICK e \in Entry : x \in Nat /\ InLog(e, x)' /\ e.cmd = c
  BY DEF places
<1>2. InLog(e, x) => x \in places[c]
  BY <1>1 DEF places
<1>3. lastReady <= rcommit /\ lastReady <= gcommit
  BY <1>0 DEF ReadyInv, LogInv
<1>4. CASE ProposeAppended
  <2>1. OneNew(proposal, Len(rlog) + 1)
    BY <1>0, <1>4, ProposeAppendedKeepsLog
  <2>2. InLog(e, x) \/ x = Len(rlog) + 1
    BY <1>1, <2>1 DEF OneNew
  <2>3. QED
    BY <1>0, <1>1, <1>2, <1>3, <2>2
<1>5. CASE Group /\ OtherAppendForwarded
  <2>1. PICK p \in net : glog' = Append(glog, forwardedBy(p))
    BY <1>5 DEF OtherAppendForwarded, forwardedBy
  <2>2. UNCHANGED rlog
    BY <1>5 DEF Group, OtherAppendForwarded, nodeVars
  <2>3. OneNew(forwardedBy(p), Len(glog) + 1)
    BY <1>0, <2>1, <2>2, ForwardedIsOneNew
  <2>4. InLog(e, x) \/ x = Len(glog) + 1
    BY <1>1, <2>3 DEF OneNew
  <2>5. QED
    BY <1>0, <1>1, <1>2, <1>3, <2>4
<1>6. CASE NothingNew
  BY <1>1, <1>2, <1>6 DEF NothingNew
<1>7. QED
  BY <1>0, <1>4, <1>5, <1>6, NextKeepsLog

\* The logs move on under the plan.
LEMMA PlanFrame ==
    ASSUME LogsInv, ReadyInv, [Next]_vars, NEW h \in [0 .. Len(jobs) -> Nat], Plan(h)
    PROVE  /\ Queue(h, jobs, glog', gshards')
           /\ Ahead(h, jobs, places')
           /\ Written(data, h[0], glog')
           /\ \A k \in 0 .. lastReady : after(gshards', k) = after(gshards, k)
           /\ \A i \in 1 .. lastReady : glog'[i] = glog[i]
           /\ \A i \in 0 .. Len(jobs) : h[i] \in Nat /\ h[i] <= lastReady
           /\ Len(jobs) \in Nat /\ lastReady \in Nat /\ lastReady <= rcommit
           /\ lastReady <= gcommit
<1>0. /\ TypeInv /\ TypeInv' /\ LogInv /\ jobs \in Seq(Job) /\ Len(jobs) \in Nat
      /\ rcommit \in Nat /\ gcommit \in Nat /\ lastReady \in Nat /\ psCommit \in Nat
  <2>1. TypeInv /\ TypeInv' /\ LogInv
    BY ReplyInvParts, NextKeepsTypes DEF LogsInv
  <2>2. QED
    BY <2>1, LenProperties DEF TypeInv, TypeOK, RaftInv, RaftTypeOK
<1>1. lastReady <= rcommit /\ lastReady <= gcommit
  BY <1>0 DEF ReadyInv, LogInv
<1>2. Stays
  BY <1>0, NextKeepsLog
<1>3. /\ \A i \in 1 .. lastReady : glog'[i] = glog[i]
      /\ \A i \in 1 .. lastReady : gshards'[i] = gshards[i]
  BY <1>0, <1>1, <1>2 DEF Stays
<1>4. \A k \in 0 .. lastReady : after(gshards', k) = after(gshards, k)
  BY <1>0, <1>3 DEF after
<1>5. Queue(h, jobs, glog, gshards) /\ h[Len(jobs)] = lastReady
  BY DEF Plan
<1>6. Queue(h, jobs, glog', gshards')
  BY <1>0, <1>3, <1>5, QueueFrame
<1>7. \A i \in 0 .. Len(jobs) : h[i] \in Nat /\ h[i] <= lastReady
  <2>1. \A i, j \in 0 .. Len(jobs) : i <= j => h[i] <= h[j]
    BY <1>5 DEF Queue
  <2>2. QED
    BY <1>0, <1>5, <2>1
<1>8. Ahead(h, jobs, places')
  <2>1. SUFFICES ASSUME NEW k \in 1 .. Len(jobs), jobs[k].kind = "propose",
                        NEW x \in places'[jobs[k].cmd]
                 PROVE  h[k] < x
    BY DEF Ahead
  <2>2. jobs[k].cmd \in Cmds
    BY <1>0, <2>1, JobType
  <2>3. x \in Nat /\ (x \in places[jobs[k].cmd] \/ lastReady < x)
    BY <2>1, <2>2, PlacesStep
  <2>4. h[k] \in Nat /\ h[k] <= lastReady
    BY <1>0, <1>7
  <2>5. CASE x \in places[jobs[k].cmd]
    BY <2>1, <2>5 DEF Plan, Ahead
  <2>6. QED
    BY <1>0, <2>3, <2>4, <2>5
<1>9. Written(data, h[0], glog')
  <2>1. \A x \in 1 .. h[0] : glog'[x] = glog[x]
    BY <1>0, <1>3, <1>7
  <2>2. QED
    BY <2>1 DEF Plan, Written
<1>10. QED
  BY <1>0, <1>1, <1>3, <1>4, <1>6, <1>7, <1>8, <1>9


\* A sequence p that is s with x at its end.
LEMMA Appended ==
    ASSUME NEW V, NEW s \in Seq(V), NEW x \in V, NEW p, p = Append(s, x)
    PROVE  /\ p \in Seq(V) /\ Len(s) \in Nat /\ Len(p) = Len(s) + 1
           /\ DOMAIN p = 1 .. Len(s) + 1 /\ DOMAIN s = 1 .. Len(s)
           /\ \A i \in 1 .. Len(s) : p[i] = s[i]
           /\ p[Len(s) + 1] = x
<1>1. /\ p \in Seq(V) /\ Len(p) = Len(s) + 1 /\ p[Len(s) + 1] = x
      /\ \A i \in 1 .. Len(s) : p[i] = s[i]
  BY AppendProperties
<1>2. DOMAIN p = 1 .. Len(p) /\ Len(s) \in Nat /\ DOMAIN s = 1 .. Len(s)
  BY <1>1, LenProperties
<1>3. QED
  BY <1>1, <1>2

\* What a failed snapshot took is given back by one that is applied, and by
\* nothing else.
LEMMA IntactStep ==
    ASSUME [Next]_vars, intact', ~intact
    PROVE  DoApplyingSnapshotJob
<1>1. SUFFICES ASSUME ~DoApplyingSnapshotJob PROVE FALSE
  OBVIOUS
<1>2. UNCHANGED snapFails
  BY <1>1 DEF Next, Loop, Worker, Submit, LoopStart, LoopStop, HandleApplyResult,
     HandleRequest, ProposeRefused, ProposeForwarded, ProposeAppended, SkipReady,
     SnapshotReady, HandleReady, HandleStep, DoRegistrationJob, DoPropose,
     DoApplyCommittedEntries, DoDestroy, RetryMustDestroy, RemovePR, HandleGCPeerMsg,
     Group, vars
<1>3. stopRaftTick => stopRaftTick'
  BY <1>1 DEF Next, Loop, Worker, Submit, LoopStart, LoopStop, HandleApplyResult,
     HandleRequest, ProposeRefused, ProposeForwarded, ProposeAppended, SkipReady,
     SnapshotReady, HandleReady, HandleStep, DoRegistrationJob, DoPropose,
     DoApplyCommittedEntries, DoDestroy, RetryMustDestroy, RemovePR, HandleGCPeerMsg,
     Group, vars, psVars
<1>4. QED
  BY <1>2, <1>3 DEF intact

LEMMA IntactStays ==
    ASSUME [Next]_vars, jobs # <<>> /\ Head(jobs).kind = "snapshot" => jobs' # Tail(jobs)
    PROVE  intact' => intact
BY IntactStep DEF DoApplyingSnapshotJob, nextJob

\* A step that leaves the queue alone: the event worker may take the results.
LEMMA PlanSame ==
    ASSUME LogsInv, ReadyInv, [Next]_vars, NEW h \in [0 .. Len(jobs) -> Nat], Plan(h),
           UNCHANGED <<jobs, lastReady, registered, dApplied, dEpoch, data, snapFails>>,
           \/ UNCHANGED <<results, psApplied>>
           \/ /\ results' = <<>>
              /\ psApplied' = psApplied \/ (/\ results # <<>>
                                            /\ psApplied' = results[Len(results)].applied)
    PROVE  Plan(h)'
<1>0. /\ TypeInv /\ jobs \in Seq(Job) /\ Len(jobs) \in Nat /\ dApplied \in Nat
      /\ psApplied \in Nat /\ results \in Seq([applied : Nat, epoch : Nat])
  BY ReplyInvParts, LenProperties DEF LogsInv, TypeInv, TypeOK
<1>1. /\ Queue(h, jobs, glog', gshards')
      /\ Ahead(h, jobs, places')
      /\ Written(data, h[0], glog')
      /\ \A k \in 0 .. lastReady : after(gshards', k) = after(gshards, k)
      /\ \A i \in 0 .. Len(jobs) : h[i] \in Nat /\ h[i] <= lastReady
      /\ lastReady \in Nat
  BY PlanFrame
<1>2. h[0] \in Nat /\ h[0] <= lastReady /\ dApplied <= h[0]
  BY <1>0, <1>1 DEF Plan, DelegateInv
<1>3. DelegateInv(h[0])'
  <2>1. /\ after(gshards', dApplied) = after(gshards, dApplied)
        /\ after(gshards', h[0]) = after(gshards, h[0])
    BY <1>0, <1>1, <1>2
  <2>2. intact' => intact
    <3>1. jobs # <<>> => jobs' # Tail(jobs)
      <4>1. jobs # <<>> => Len(Tail(jobs)) = Len(jobs) - 1
        BY <1>0, HeadTailProperties
      <4>2. QED
        BY <1>0, <4>1
    <3>2. QED
      BY <3>1, IntactStays
  <2>3. QED
    BY <2>1, <2>2 DEF Plan, DelegateInv, Queued
<1>4. ResultsInv(h)'
  <2>1. CASE UNCHANGED <<results, psApplied>>
    BY <2>1 DEF Plan, ResultsInv, Queued
  <2>2. CASE results' = <<>> /\ psApplied' = psApplied
    BY <2>2 DEF Plan, ResultsInv, Queued
  <2>3. CASE results' = <<>> /\ results # <<>> /\ psApplied' = results[Len(results)].applied
    <3>1. Len(results) \in 1 .. Len(results)
      BY <1>0, <2>3, EmptySeq, LenProperties
    <3>2. psApplied' <= dApplied /\ psApplied' \in Nat
      <4>1. results[Len(results)] \in [applied : Nat, epoch : Nat]
        BY <1>0, <2>3, LastInSet, Zenon
      <4>2. results[Len(results)].applied <= dApplied
        BY <3>1 DEF Plan, ResultsInv
      <4>3. QED
        BY <2>3, <4>1, <4>2
    <3>3. ~Queued(jobs, "snapshot")
      BY <2>3 DEF Plan, ResultsInv
    <3>4. psApplied' <= h[0]
      BY <1>0, <1>2, <3>2
    <3>5. QED
      BY <2>3, <3>3, <3>4 DEF ResultsInv, Queued
  <2>4. QED
    BY <2>1, <2>2, <2>3
<1>5. h[Len(jobs')] = lastReady'
  BY DEF Plan
<1>6. QED
  BY <1>1, <1>3, <1>4, <1>5 DEF Plan

\* A job is queued.
LEMMA PlanPush ==
    ASSUME LogsInv, ReadyInv, [Next]_vars, NEW h \in [0 .. Len(jobs) -> Nat], Plan(h),
           NEW job \in Job, jobs' = Append(jobs, job),
           job.kind \notin {"register", "snapshot"},
           NEW n \in Nat, n = lastReady', lastReady <= n,
           Covers(job, lastReady, n, glog', gshards'),
           job.kind = "propose" => \A x \in places'[job.cmd] : n < x,
           UNCHANGED <<registered, dApplied, dEpoch, data, snapFails, results, psApplied>>
    PROVE  \E g \in [0 .. Len(jobs') -> Nat] : Plan(g)'
<1>0. /\ TypeInv /\ jobs \in Seq(Job) /\ Len(jobs) \in Nat /\ dApplied \in Nat
  BY ReplyInvParts, LenProperties DEF LogsInv, TypeInv, TypeOK
<1>1. /\ Queue(h, jobs, glog', gshards')
      /\ Ahead(h, jobs, places')
      /\ Written(data, h[0], glog')
      /\ \A k \in 0 .. lastReady : after(gshards', k) = after(gshards, k)
      /\ \A i \in 0 .. Len(jobs) : h[i] \in Nat /\ h[i] <= lastReady
      /\ lastReady \in Nat
  BY PlanFrame
<1>2. h[0] \in Nat /\ h[0] <= lastReady /\ dApplied <= h[0] /\ h[Len(jobs)] = lastReady
  BY <1>0, <1>1 DEF Plan, DelegateInv
<1>3. PICK g \in [0 .. Len(jobs) + 1 -> Nat] :
          g[Len(jobs) + 1] = n /\ \A i \in 0 .. Len(jobs) : g[i] = h[i]
  <2> DEFINE g == [i \in 0 .. Len(jobs) + 1 |-> IF i = Len(jobs) + 1 THEN n ELSE h[i]]
  <2>1. g \in [0 .. Len(jobs) + 1 -> Nat]
    BY <1>0, <1>1
  <2>2. g[Len(jobs) + 1] = n /\ \A i \in 0 .. Len(jobs) : g[i] = h[i]
    BY <1>0, <1>1
  <2>3. QED
    BY <2>1, <2>2, Zenon
<1>4. /\ g \in [0 .. Len(jobs') -> Nat]
      /\ Queue(g, jobs', glog', gshards')
      /\ Len(jobs') = Len(jobs) + 1
      /\ g[Len(jobs) + 1] = n
  <2>1. h[Len(jobs)] <= n /\ Covers(job, h[Len(jobs)], n, glog', gshards')
    BY <1>2
  <2>2. /\ g \in [0 .. Len(Append(jobs, job)) -> Nat]
        /\ Queue(g, Append(jobs, job), glog', gshards')
        /\ Len(Append(jobs, job)) = Len(jobs) + 1
        /\ g[Len(jobs) + 1] = n
    BY <1>0, <1>1, <1>3, <2>1, QueuePush
  <2>3. QED
    BY <2>2
<1>5. /\ \A i \in 0 .. Len(jobs) : g[i] = h[i]
      /\ \A i \in 1 .. Len(jobs) : jobs'[i] = jobs[i]
      /\ jobs'[Len(jobs) + 1] = job
  BY <1>0, <1>3, AppendProperties
<1>6. Ahead(g, jobs', places')
  <2>1. SUFFICES ASSUME NEW k \in 1 .. Len(jobs'), jobs'[k].kind = "propose",
                        NEW x \in places'[jobs'[k].cmd]
                 PROVE  g[k] < x
    BY DEF Ahead
  <2>2. CASE k = Len(jobs) + 1
    BY <1>4, <1>5, <2>1, <2>2
  <2>3. CASE k \in 1 .. Len(jobs)
    BY <1>1, <1>5, <2>1, <2>3 DEF Ahead
  <2>4. QED
    BY <1>0, <1>4, <2>2, <2>3
<1>7. \A kind \in {"register", "snapshot"} : Queued(jobs', kind) <=> Queued(jobs, kind)
  BY <1>0, <1>4, <1>5 DEF Queued
<1>8. g[0] = h[0]
  BY <1>0, <1>5
<1>9. DelegateInv(g[0])'
  <2>1. /\ after(gshards', dApplied) = after(gshards, dApplied)
        /\ after(gshards', h[0]) = after(gshards, h[0])
    BY <1>0, <1>1, <1>2
  <2>2. intact' => intact
    <3>1. jobs # <<>> => Len(Tail(jobs)) = Len(jobs) - 1
      BY <1>0, HeadTailProperties
    <3>2. jobs # <<>> => jobs' # Tail(jobs)
      BY <1>0, <1>4, <3>1
    <3>3. QED
      BY <3>2, IntactStays
  <2>3. QED
    BY <1>7, <1>8, <2>1, <2>2 DEF Plan, DelegateInv
<1>10. ResultsInv(g)'
  <2>1. \A k \in 1 .. Len(jobs') : jobs'[k].kind = "snapshot" => psApplied <= g[k]
    <3>1. SUFFICES ASSUME NEW k \in 1 .. Len(jobs'), jobs'[k].kind = "snapshot"
                   PROVE  psApplied <= g[k]
      OBVIOUS
    <3>2. k \in 1 .. Len(jobs)
      BY <1>0, <1>4, <1>5, <3>1
    <3>3. QED
      BY <1>5, <3>1, <3>2 DEF Plan, ResultsInv
  <2>2. QED
    BY <1>7, <1>8, <2>1 DEF Plan, ResultsInv
<1>11. Plan(g)'
  BY <1>1, <1>4, <1>6, <1>8, <1>9, <1>10 DEF Plan
<1>12. QED
  BY <1>4, <1>11

\* What is queued, when the first job is done.
LEMMA QueuedTail ==
    ASSUME NEW js \in Seq(Job), js # <<>>, NEW kind
    PROVE  /\ Queued(js, kind) <=> (Head(js).kind = kind \/ Queued(Tail(js), kind))
           /\ Len(js) \in Nat /\ Len(js) # 0 /\ Len(Tail(js)) = Len(js) - 1 /\ Head(js) = js[1]
           /\ \A i \in 1 .. Len(js) - 1 : Tail(js)[i] = js[i + 1]
<1>1. /\ Len(js) \in Nat /\ Len(js) # 0 /\ Len(Tail(js)) = Len(js) - 1 /\ Head(js) = js[1]
      /\ \A i \in 1 .. Len(js) - 1 : Tail(js)[i] = js[i + 1]
  BY EmptySeq, LenProperties, HeadTailProperties
<1>2. ASSUME Queued(js, kind) PROVE Head(js).kind = kind \/ Queued(Tail(js), kind)
  <2>1. PICK i \in 1 .. Len(js) : js[i].kind = kind
    BY <1>2 DEF Queued
  <2>2. CASE i # 1
    <3>1. i - 1 \in 1 .. Len(Tail(js)) /\ Tail(js)[i - 1] = js[i]
      BY <1>1, <2>2
    <3>2. QED
      BY <2>1, <3>1 DEF Queued
  <2>3. QED
    BY <1>1, <2>1, <2>2
<1>3. ASSUME Queued(Tail(js), kind) PROVE Queued(js, kind)
  <2>1. PICK i \in 1 .. Len(Tail(js)) : Tail(js)[i].kind = kind
    BY <1>3 DEF Queued
  <2>2. i + 1 \in 1 .. Len(js) /\ js[i + 1].kind = kind
    BY <1>1, <2>1
  <2>3. QED
    BY <2>2 DEF Queued
<1>4. Head(js).kind = kind => Queued(js, kind)
  BY <1>1 DEF Queued
<1>5. QED
  BY <1>1, <1>2, <1>3, <1>4


\* The first job is done.
LEMMA PlanPop ==
    ASSUME LogsInv, ReadyInv, [Next]_vars, NEW h \in [0 .. Len(jobs) -> Nat], Plan(h),
           jobs # <<>>, jobs' = Tail(jobs), UNCHANGED <<lastReady, psApplied>>,
           DelegateInv(h[1])', Written(data', h[1], glog'),
           \A i \in 1 .. Len(results') :
              psApplied < results'[i].applied /\ results'[i].applied <= dApplied',
           Queued(jobs', "snapshot") => results' = <<>>
    PROVE  \E g \in [0 .. Len(jobs') -> Nat] : Plan(g)'
<1>0. /\ TypeInv /\ jobs \in Seq(Job) /\ Len(jobs) \in Nat /\ psApplied \in Nat
  BY ReplyInvParts, LenProperties DEF LogsInv, TypeInv, TypeOK
<1>1. /\ Queue(h, jobs, glog', gshards')
      /\ Ahead(h, jobs, places')
      /\ \A i \in 0 .. Len(jobs) : h[i] \in Nat /\ h[i] <= lastReady
      /\ lastReady \in Nat
  BY PlanFrame
<1>2. /\ Len(jobs) # 0 /\ Head(jobs) = jobs[1]
      /\ Queued(jobs, "snapshot") <=> (Head(jobs).kind = "snapshot" \/ Queued(jobs', "snapshot"))
  BY <1>0, QueuedTail
<1>3. PICK g \in [0 .. Len(jobs) - 1 -> Nat] : \A i \in 0 .. Len(jobs) - 1 : g[i] = h[i + 1]
  <2> DEFINE g == [i \in 0 .. Len(jobs) - 1 |-> h[i + 1]]
  <2>1. g \in [0 .. Len(jobs) - 1 -> Nat]
    BY <1>0, <1>1
  <2>2. \A i \in 0 .. Len(jobs) - 1 : g[i] = h[i + 1]
    OBVIOUS
  <2>3. QED
    BY <2>1, <2>2, Zenon
<1>4. /\ g \in [0 .. Len(jobs') -> Nat]
      /\ Queue(g, jobs', glog', gshards')
      /\ g[Len(jobs')] = h[Len(jobs)] /\ g[0] = h[1] /\ h[0] <= h[1]
      /\ Len(jobs') = Len(jobs) - 1
      /\ \A k \in 1 .. Len(jobs) - 1 : jobs'[k] = jobs[k + 1] /\ g[k] = h[k + 1]
  BY <1>0, <1>1, <1>3, QueuePop
<1>5. Ahead(g, jobs', places')
  <2>1. SUFFICES ASSUME NEW k \in 1 .. Len(jobs'), jobs'[k].kind = "propose",
                        NEW x \in places'[jobs'[k].cmd]
                 PROVE  g[k] < x
    BY DEF Ahead
  <2>2. k + 1 \in 1 .. Len(jobs) /\ jobs'[k] = jobs[k + 1] /\ g[k] = h[k + 1]
    BY <1>0, <1>2, <1>4
  <2>3. QED
    BY <1>1, <2>1, <2>2 DEF Ahead
<1>6. ResultsInv(g)'
  <2>1. \A k \in 1 .. Len(jobs') : jobs'[k].kind = "snapshot" => psApplied <= g[k]
    <3>1. SUFFICES ASSUME NEW k \in 1 .. Len(jobs'), jobs'[k].kind = "snapshot"
                   PROVE  psApplied <= g[k]
      OBVIOUS
    <3>2. k + 1 \in 1 .. Len(jobs) /\ jobs'[k] = jobs[k + 1] /\ g[k] = h[k + 1]
      BY <1>0, <1>2, <1>4
    <3>3. QED
      BY <3>1, <3>2 DEF Plan, ResultsInv
  <2>2. ~Queued(jobs', "snapshot") => psApplied <= g[0]
    <3>1. SUFFICES ASSUME ~Queued(jobs', "snapshot") PROVE psApplied <= h[1]
      BY <1>4
    <3>2. CASE Head(jobs).kind = "snapshot"
      BY <1>0, <1>2, <3>2 DEF Plan, ResultsInv
    <3>3. CASE Head(jobs).kind # "snapshot"
      <4>1. psApplied <= h[0]
        BY <1>2, <3>1, <3>3 DEF Plan, ResultsInv
      <4>2. h[0] \in Nat /\ h[1] \in Nat
        BY <1>0, <1>1, <1>2
      <4>3. QED
        BY <1>0, <1>4, <4>1, <4>2
    <3>4. QED
      BY <3>2, <3>3
  <2>3. QED
    BY <2>1, <2>2 DEF ResultsInv
<1>7. g[0] = h[1] /\ g[Len(jobs')] = lastReady'
  BY <1>4 DEF Plan
<1>8. Plan(g)'
  BY <1>4, <1>5, <1>6, <1>7 DEF Plan
<1>9. QED
  BY <1>4, <1>8

\* The first entry of the first job, which has more, is done.
LEMMA PlanFront ==
    ASSUME LogsInv, ReadyInv, [Next]_vars, NEW h \in [0 .. Len(jobs) -> Nat], Plan(h),
           jobs # <<>>, Head(jobs).kind = "apply", Len(Head(jobs).entries) # 1,
           NEW left, left = [kind |-> "apply", first |-> Head(jobs).first + 1,
                             entries |-> Tail(Head(jobs).entries)],
           jobs' = <<left>> \o Tail(jobs),
           UNCHANGED <<lastReady, psApplied>>,
           DelegateInv(h[0] + 1)', Written(data', h[0] + 1, glog'),
           \A i \in 1 .. Len(results') :
              psApplied < results'[i].applied /\ results'[i].applied <= dApplied'
    PROVE  \E g \in [0 .. Len(jobs') -> Nat] : Plan(g)'
<1>0. /\ TypeInv /\ jobs \in Seq(Job) /\ Len(jobs) \in Nat /\ psApplied \in Nat
      /\ Tail(jobs) \in Seq(Job)
  BY ReplyInvParts, LenProperties, HeadTailProperties DEF LogsInv, TypeInv, TypeOK
<1>1. /\ Queue(h, jobs, glog', gshards')
      /\ Ahead(h, jobs, places')
      /\ \A i \in 0 .. Len(jobs) : h[i] \in Nat /\ h[i] <= lastReady
      /\ lastReady \in Nat
  BY PlanFrame
<1>2. /\ Len(jobs) # 0 /\ Head(jobs) = jobs[1] /\ Len(Tail(jobs)) = Len(jobs) - 1
      /\ \A i \in 1 .. Len(jobs) - 1 : Tail(jobs)[i] = jobs[i + 1]
  BY <1>0, QueuedTail
<1>3. /\ Len(jobs') = Len(jobs) /\ jobs'[1] = left
      /\ \A i \in 2 .. Len(jobs) : jobs'[i] = jobs[i]
  <2>1. /\ Len(<<left>> \o Tail(jobs)) = 1 + Len(Tail(jobs))
        /\ (<<left>> \o Tail(jobs))[1] = left
        /\ \A i \in 2 .. 1 + Len(Tail(jobs)) : (<<left>> \o Tail(jobs))[i] = Tail(jobs)[i - 1]
    BY <1>0
  <2>2. QED
    BY <1>0, <1>2, <2>1
<1>4. PICK g \in [0 .. Len(jobs) -> Nat] :
          g[0] = h[0] + 1 /\ \A i \in 1 .. Len(jobs) : g[i] = h[i]
  <2> DEFINE g == [i \in 0 .. Len(jobs) |-> IF i = 0 THEN h[0] + 1 ELSE h[i]]
  <2>1. g \in [0 .. Len(jobs) -> Nat]
    BY <1>0, <1>1
  <2>2. g[0] = h[0] + 1 /\ \A i \in 1 .. Len(jobs) : g[i] = h[i]
    BY <1>0
  <2>3. QED
    BY <2>1, <2>2, Zenon
<1>5. left.kind = "apply" /\ left.first = Head(jobs).first + 1
      /\ left.entries = Tail(Head(jobs).entries)
  OBVIOUS
<1>6. Queue(g, jobs', glog', gshards') /\ h[0] + 1 <= h[1]
  BY SMTT(30), <1>0, <1>1, <1>3, <1>4, <1>5, QueueFront
<1>7. Ahead(g, jobs', places')
  <2>1. SUFFICES ASSUME NEW k \in 1 .. Len(jobs'), jobs'[k].kind = "propose",
                        NEW x \in places'[jobs'[k].cmd]
                 PROVE  g[k] < x
    BY DEF Ahead
  <2>2. k \in 1 .. Len(jobs) /\ jobs'[k] = jobs[k] /\ g[k] = h[k]
    BY <1>0, <1>3, <1>4, <1>5, <2>1
  <2>3. QED
    BY <1>1, <2>1, <2>2 DEF Ahead
<1>8. ~Queued(jobs, "snapshot") /\ ~Queued(jobs', "snapshot")
  <2>1. ~Queued(jobs, "snapshot")
    <3>1. SUFFICES ASSUME NEW i \in 1 .. Len(jobs), jobs[i].kind = "snapshot" PROVE FALSE
      BY DEF Queued
    <3>2. 1 \in 1 .. Len(jobs) /\ 1 < i /\ jobs[1].kind = "apply"
      BY <1>0, <1>2, <3>1
    <3>3. QED
      BY <1>1, <3>1, <3>2 DEF Queue
  <2>2. SUFFICES ASSUME NEW i \in 1 .. Len(jobs'), jobs'[i].kind = "snapshot" PROVE FALSE
    BY <2>1 DEF Queued
  <2>3. i # 1
    BY <1>3, <1>5, <2>2
  <2>4. i \in 1 .. Len(jobs) /\ jobs[i].kind = "snapshot"
    BY <1>0, <1>3, <2>2, <2>3
  <2>5. QED
    BY <2>1, <2>4 DEF Queued
<1>9. ResultsInv(g)'
  <2>1. psApplied <= g[0]
    BY <1>0, <1>1, <1>4, <1>8 DEF Plan, ResultsInv
  <2>2. QED
    BY <1>8, <2>1 DEF ResultsInv, Queued
<1>10. g[Len(jobs')] = lastReady'
  BY <1>0, <1>2, <1>3, <1>4 DEF Plan
<1>11. Plan(g)'
  BY <1>4, <1>6, <1>7, <1>9, <1>10 DEF Plan
<1>12. QED
  BY <1>3, <1>4, <1>11


\* The event worker proposes a command.
LEMMA ProposeAppendedKeepsPlan ==
    ASSUME LogsInv, ReadyInv, NEW h \in [0 .. Len(jobs) -> Nat], Plan(h), ProposeAppended
    PROVE  \E g \in [0 .. Len(jobs') -> Nat] : Plan(g)'
<1>0. /\ TypeInv /\ [Next]_vars /\ lastReady \in Nat /\ cachedTerm \in Nat
  BY ReplyInvParts DEF LogsInv, TypeInv, TypeOK, Next, Loop
<1>1. Head(batch).cmd \in Cmds /\ Head(batch).cmd \in waiting
  <2>1. batch # <<>>
    BY DEF ProposeAppended
  <2>2. QED
    BY <1>0, <2>1, BatchHead DEF waiting
<1>2. PICK job : job = [kind |-> "propose", cmd |-> Head(batch).cmd, term |-> cachedTerm]
  OBVIOUS
<1>3. job \in Job /\ job.kind = "propose" /\ job.cmd = Head(batch).cmd
  BY <1>0, <1>1, <1>2 DEF Job
<1>4. /\ jobs' = Append(jobs, job)
      /\ UNCHANGED <<registered, dApplied, dEpoch, data, snapFails, results, psApplied, lastReady>>
  BY <1>2 DEF ProposeAppended, addApplyJob, psVars, delegateVars
<1>5. \A x \in places'[job.cmd] : lastReady < x
  <2>1. SUFFICES ASSUME NEW x \in places'[job.cmd] PROVE lastReady < x
    OBVIOUS
  <2>2. x \in Nat /\ (x \in places[job.cmd] \/ lastReady < x)
    BY <1>0, <1>1, <1>3, <2>1, PlacesStep
  <2>3. x \notin places[job.cmd]
    BY <1>1, <1>3 DEF LogsInv, OnceInv, Unlogged, places
  <2>4. QED
    BY <2>2, <2>3
<1>6. Covers(job, lastReady, lastReady, glog', gshards')
  BY <1>3 DEF Covers
<1>7. QED
  BY <1>0, <1>3, <1>4, <1>5, <1>6, PlanPush

\* The entries in the middle of a log.
LEMMA MiddleElements ==
    ASSUME NEW S, NEW s \in Seq(S), NEW a \in Nat, NEW b \in Nat, a < b, b <= Len(s)
    PROVE  /\ SubSeq(s, a + 1, b) \in Seq(S) \ {<<>>}
           /\ Len(SubSeq(s, a + 1, b)) = b - a
           /\ \A i \in 1 .. b - a : SubSeq(s, a + 1, b)[i] = s[a + i]
<1>1. a + 1 \in Int /\ b \in Int /\ Len(s) \in Nat /\ a + 1 <= b /\ b - (a + 1) + 1 = b - a
  BY LenProperties
<1>2. \A i \in a + 1 .. b : s[i] \in S
  BY <1>1, ElementOfSeq
<1>3. /\ SubSeq(s, a + 1, b) \in Seq(S)
      /\ Len(SubSeq(s, a + 1, b)) = b - a
      /\ \A i \in 1 .. b - a : SubSeq(s, a + 1, b)[i] = s[(a + 1) + i - 1]
  BY <1>1, <1>2, SubSeqProperties
<1>4. \A i \in 1 .. b - a : (a + 1) + i - 1 = a + i
  OBVIOUS
<1>5. SubSeq(s, a + 1, b) # <<>>
  BY <1>1, <1>3, EmptySeq
<1>6. QED
  BY <1>3, <1>4, <1>5

\* The event worker gives out what is newly committed.
LEMMA HandleReadyKeepsPlan ==
    ASSUME LogsInv, ReadyInv, NEW h \in [0 .. Len(jobs) -> Nat], Plan(h), HandleReady
    PROVE  \E g \in [0 .. Len(jobs') -> Nat] : Plan(g)'
<1>0. /\ TypeInv /\ [Next]_vars /\ LogInv /\ lastReady \in Nat /\ rcommit \in Nat
      /\ gcommit \in Nat /\ rlog \in Seq(Entry) /\ rcommit <= Len(rlog) /\ Len(rlog) \in Nat
      /\ jobs \in Seq(Job) /\ TypeInv'
  <2>1. TypeInv /\ [Next]_vars /\ LogInv /\ TypeInv'
    BY ReplyInvParts, NextKeepsTypes DEF LogsInv, Next, Loop
  <2>2. QED
    BY <2>1, LenProperties DEF TypeInv, TypeOK, RaftInv, RaftTypeOK
<1>1. CASE ~(registered /\ rcommit > lastReady)
  <2>1. UNCHANGED <<jobs, lastReady, registered, dApplied, dEpoch, data, snapFails, results,
                    psApplied>>
    BY <1>1 DEF HandleReady, hasCommitted, delegateVars
  <2>2. Plan(h)'
    BY <1>0, <2>1, PlanSame
  <2>3. QED
    BY <2>1, <2>2
<1>2. CASE registered /\ rcommit > lastReady
  <2>1. PICK job : job = [kind |-> "apply", first |-> lastReady + 1,
                          entries |-> SubSeq(rlog, lastReady + 1, rcommit)]
    OBVIOUS
  <2> DEFINE es == SubSeq(rlog, lastReady + 1, rcommit)
  <2>2. /\ jobs' = Append(jobs, job) /\ lastReady' = rcommit
        /\ UNCHANGED <<registered, dApplied, dEpoch, data, snapFails, results, psApplied>>
    BY <1>2, <2>1 DEF HandleReady, hasCommitted, addApplyJob, delegateVars
  <2>3. /\ job.kind = "apply" /\ job.first = lastReady + 1 /\ job.entries = es
    BY <2>1
  <2>4. /\ es \in Seq(Entry) \ {<<>>}
        /\ Len(es) = rcommit - lastReady
        /\ \A i \in 1 .. rcommit - lastReady : es[i] = rlog[lastReady + i]
    BY SMTT(30), <1>0, <1>2, MiddleElements
  <2> HIDE DEF es
  <2>5. job \in Job
    <3>1. job = [kind |-> "apply", first |-> lastReady + 1, entries |-> es]
      BY <2>1 DEF es
    <3>2. QED
      BY <1>0, <2>4, <3>1 DEF Job
  <2>6. \A i \in 1 .. rcommit - lastReady : rlog[lastReady + i] = glog'[lastReady + i]
    <3>1. SUFFICES ASSUME NEW i \in 1 .. rcommit - lastReady
                   PROVE  rlog[lastReady + i] = glog'[lastReady + i]
      OBVIOUS
    <3>2. lastReady + i \in 1 .. rcommit /\ lastReady + i \in 1 .. gcommit
      BY <1>0, <3>1 DEF LogInv
    <3>3. Stays
      BY <1>0, NextKeepsLog
    <3>4. QED
      BY <1>0, <3>2, <3>3 DEF LogInv, Stays
  <2>7. Covers(job, lastReady, rcommit, glog', gshards')
    <3>1. lastReady + Len(es) = rcommit
      BY <1>0, <2>4
    <3>2. \A i \in 1 .. Len(es) : es[i] = glog'[lastReady + i]
      BY <2>4, <2>6
    <3>3. QED
      BY <2>3, <3>1, <3>2 DEF Covers
  <2>8. QED
    BY SMTT(30), <1>0, <1>2, <2>2, <2>3, <2>5, <2>7, PlanPush
<1>3. QED
  BY <1>1, <1>2


\* The event worker takes a snapshot: nothing it would overwrite is queued.
LEMMA SnapshotReadyKeepsPlan ==
    ASSUME LogsInv, ReadyInv, NEW h \in [0 .. Len(jobs) -> Nat], Plan(h), SnapshotReady
    PROVE  \E g \in [0 .. Len(jobs') -> Nat] : Plan(g)'
<1>0. /\ TypeInv /\ [Next]_vars /\ LogInv /\ lastReady \in Nat /\ rcommit \in Nat
      /\ gcommit \in Nat /\ psCommit \in Nat /\ psApplied \in Nat /\ dApplied \in Nat
      /\ jobs \in Seq(Job) /\ Len(jobs) \in Nat /\ TypeInv' /\ snapPend \in Nat
      /\ results \in Seq([applied : Nat, epoch : Nat])
  <2>1. TypeInv /\ [Next]_vars /\ LogInv /\ TypeInv'
    BY ReplyInvParts, NextKeepsTypes DEF LogsInv, Next, Loop
  <2>2. QED
    BY <2>1, LenProperties DEF TypeInv, TypeOK, RaftInv, RaftTypeOK
<1>1. /\ Queue(h, jobs, glog', gshards')
      /\ Ahead(h, jobs, places')
      /\ Written(data, h[0], glog')
      /\ \A k \in 0 .. lastReady : after(gshards', k) = after(gshards, k)
      /\ \A i \in 0 .. Len(jobs) : h[i] \in Nat /\ h[i] <= lastReady
  BY <1>0, PlanFrame
<1>2. /\ h[0] \in Nat /\ h[0] <= lastReady /\ dApplied <= h[0] /\ h[Len(jobs)] = lastReady
      /\ psCommit = psApplied /\ snapPend # 0 /\ lastReady <= psCommit /\ psCommit < snapPend
      /\ snapPend <= gcommit /\ ~Queued(jobs, "snapshot")
  <2>1. psCommit = psApplied /\ snapPend # 0 /\ ~isApplyingSnapshot
    BY DEF SnapshotReady, isApplyComplete
  <2>2. ~Queued(jobs, "snapshot")
    BY <1>0, <2>1, LenProperties DEF Queued, isApplyingSnapshot
  <2>3. QED
    BY <1>0, <1>1, <2>1, <2>2 DEF ReadyInv, LogInv, Plan, DelegateInv
<1>3. psApplied <= h[0]
  BY <1>2 DEF Plan, ResultsInv
<1>4. h[0] = lastReady /\ lastReady = psApplied
  BY <1>0, <1>2, <1>3
<1>5. ~Queued(jobs, "apply")
  <2>1. SUFFICES ASSUME NEW k \in 1 .. Len(jobs), jobs[k].kind = "apply" PROVE FALSE
    BY DEF Queued
  <2>2. k - 1 \in 0 .. Len(jobs) /\ k \in 0 .. Len(jobs) /\ 0 <= k - 1
    BY <1>0, <2>1
  <2>3. /\ h[0] <= h[k - 1] /\ h[k] <= h[Len(jobs)] /\ h[k] = h[k - 1] + Len(jobs[k].entries)
    BY <1>0, <1>1, <2>1, <2>2 DEF Queue, Covers
  <2>4. Len(jobs[k].entries) \in Nat /\ Len(jobs[k].entries) # 0
    <3>1. jobs[k] \in Job
      BY <1>0, <2>1, ElementOfSeq
    <3>2. jobs[k].entries \in Seq(Entry) /\ jobs[k].entries # <<>>
      BY <2>1, <3>1, JobType
    <3>3. QED
      BY <3>2, EmptySeq, LenProperties
  <2>5. h[k] \in Nat /\ h[k - 1] \in Nat
    BY <1>1, <2>2
  <2>6. QED
    BY <1>0, <1>2, <1>4, <2>3, <2>4, <2>5
<1>6. results = <<>>
  <2>1. SUFFICES ASSUME Len(results) # 0 PROVE FALSE
    BY <1>0, EmptySeq
  <2>2. 1 \in 1 .. Len(results)
    BY <1>0, <2>1, LenProperties
  <2>3. psApplied < results[1].applied /\ results[1].applied <= dApplied
    BY <2>2 DEF Plan, ResultsInv
  <2>4. results[1].applied \in Nat
    <3>1. results[1] \in [applied : Nat, epoch : Nat]
      BY <1>0, <2>2, ElementOfSeq, Zenon
    <3>2. QED
      BY <3>1
  <2>5. QED
    BY <1>0, <1>2, <1>4, <2>3, <2>4
<1>7. PICK a : a = [kind |-> "snapshot", shard |-> shardAt(snapPend)]
  OBVIOUS
<1>8. PICK b : b = registrationJob(snapPend, shardAt(snapPend).epoch)
  OBVIOUS
<1>9. /\ a.kind = "snapshot" /\ b.kind = "register" /\ a.shard = shardAt(snapPend)
      /\ b.applied = snapPend /\ b.epoch = shardAt(snapPend).epoch
  BY <1>7, <1>8 DEF registrationJob
<1>10. /\ jobs' = jobs \o <<a, b>> /\ lastReady' = snapPend /\ psApplied' = snapPend
       /\ UNCHANGED <<registered, dApplied, dEpoch, data, snapFails, results, gshards>>
  BY <1>7, <1>8 DEF SnapshotReady, delegateVars
<1>11. /\ Len(jobs') = Len(jobs) + 2 /\ jobs'[Len(jobs) + 1] = a /\ jobs'[Len(jobs) + 2] = b
       /\ \A i \in 1 .. Len(jobs) : jobs'[i] = jobs[i]
  <2> HIDE <1>7
  <2>1. /\ Len(jobs \o <<a, b>>) = Len(jobs) + 2
        /\ (jobs \o <<a, b>>)[Len(jobs) + 1] = a /\ (jobs \o <<a, b>>)[Len(jobs) + 2] = b
        /\ \A i \in 1 .. Len(jobs) : (jobs \o <<a, b>>)[i] = jobs[i]
    BY <1>0
  <2>2. QED
    BY <1>10, <2>1
<1>12. shardAt(snapPend) = after(gshards', snapPend)
  BY <1>0, <1>2, <1>10, AfterType
<1>13. PICK g \in [0 .. Len(jobs) + 2 -> Nat] :
          /\ g[Len(jobs) + 1] = snapPend /\ g[Len(jobs) + 2] = snapPend
          /\ \A i \in 0 .. Len(jobs) : g[i] = h[i]
  <2> DEFINE g == [i \in 0 .. Len(jobs) + 2 |-> IF i > Len(jobs) THEN snapPend ELSE h[i]]
  <2>1. g \in [0 .. Len(jobs) + 2 -> Nat]
    BY <1>0, <1>1
  <2>2. /\ g[Len(jobs) + 1] = snapPend /\ g[Len(jobs) + 2] = snapPend
        /\ \A i \in 0 .. Len(jobs) : g[i] = h[i]
    BY <1>0, <1>1
  <2>3. QED
    BY <2>1, <2>2, Zenon
<1>14. Queue(g, jobs', glog', gshards')
  <2>1. /\ Covers(a, h[Len(jobs)], snapPend, glog', gshards')
        /\ Covers(b, snapPend, snapPend, glog', gshards')
    BY <1>9, <1>12 DEF Covers
  <2>2. h[Len(jobs)] <= snapPend
    BY <1>0, <1>2
  <2>3. Queue(h, jobs, glog', gshards') /\ jobs \in Seq(Job) /\ snapPend \in Nat
    BY <1>0, <1>1
  <2>4. a.kind = "snapshot" /\ b.kind = "register"
    BY <1>9
  <2>5. QED
    BY SMTT(30), <1>5, <1>11, <1>13, <2>1, <2>2, <2>3, <2>4, QueueSnapshot
<1>15. Ahead(g, jobs', places')
  <2>1. SUFFICES ASSUME NEW k \in 1 .. Len(jobs'), jobs'[k].kind = "propose",
                        NEW x \in places'[jobs'[k].cmd]
                 PROVE  g[k] < x
    BY DEF Ahead
  <2>2. k # Len(jobs) + 1 /\ k # Len(jobs) + 2
    BY <1>9, <1>11, <2>1
  <2>3. k \in 1 .. Len(jobs) /\ jobs'[k] = jobs[k] /\ g[k] = h[k]
    BY <1>0, <1>11, <1>13, <2>1, <2>2
  <2>4. QED
    BY <1>1, <2>1, <2>3 DEF Ahead
<1>16. g[0] = h[0]
  BY <1>0, <1>13
<1>17. Queued(jobs', "snapshot") /\ Queued(jobs', "register")
  <2>1. Len(jobs) + 1 \in 1 .. Len(jobs') /\ Len(jobs) + 2 \in 1 .. Len(jobs')
    BY <1>0, <1>11
  <2>2. QED
    BY <1>9, <1>11, <2>1 DEF Queued
<1>18. DelegateInv(g[0])'
  <2>1. after(gshards', dApplied) = after(gshards, dApplied)
    BY <1>0, <1>1, <1>2
  <2>2. dApplied <= h[0] /\ dEpoch = after(gshards, dApplied).epoch
    BY DEF Plan, DelegateInv
  <2>3. QED
    BY <1>10, <1>16, <1>17, <2>1, <2>2 DEF DelegateInv
<1>19. ResultsInv(g)'
  <2>1. \A k \in 1 .. Len(jobs') : jobs'[k].kind = "snapshot" => snapPend <= g[k]
    <3>1. SUFFICES ASSUME NEW k \in 1 .. Len(jobs'), jobs'[k].kind = "snapshot"
                   PROVE  snapPend <= g[k]
      OBVIOUS
    <3>2. k \notin 1 .. Len(jobs)
      BY <1>2, <1>11, <3>1 DEF Queued
    <3>3. k = Len(jobs) + 1 \/ k = Len(jobs) + 2
      BY <1>0, <1>11, <3>1, <3>2
    <3>4. QED
      BY <1>0, <1>13, <3>3
  <2>2. results' = <<>> /\ 1 .. Len(results') = {}
    BY <1>6, <1>10
  <2>3. QED
    BY <1>10, <1>17, <2>1, <2>2 DEF ResultsInv
<1>20. Written(data', g[0], glog')
  BY <1>1, <1>10, <1>16
<1>21. g \in [0 .. Len(jobs') -> Nat] /\ g[Len(jobs')] = lastReady'
  BY <1>10, <1>11, <1>13
<1>22. Plan(g)'
  BY <1>14, <1>15, <1>18, <1>19, <1>20, <1>21 DEF Plan
<1>23. QED
  BY <1>21, <1>22


\* What the plan says of the first job.
LEMMA FirstJob ==
    ASSUME LogsInv, ReadyInv, [Next]_vars, NEW h \in [0 .. Len(jobs) -> Nat], Plan(h),
           jobs # <<>>
    PROVE  /\ Covers(Head(jobs), h[0], h[1], glog', gshards')
           /\ h[0] \in Nat /\ h[1] \in Nat /\ h[0] <= h[1] /\ h[1] <= lastReady
           /\ lastReady \in Nat /\ lastReady <= gcommit /\ gcommit \in Nat
           /\ dApplied \in Nat /\ dApplied <= h[0]
           /\ \A k \in 0 .. lastReady : after(gshards', k) = after(gshards, k)
           /\ \A kind : Queued(jobs, kind) <=>
                          (Head(jobs).kind = kind \/ Queued(Tail(jobs), kind))
           /\ Head(jobs) \in Job
           /\ Head(jobs).kind = "apply" => ~Queued(jobs, "register") /\ ~Queued(jobs, "snapshot")
           /\ Head(jobs).kind = "snapshot" => Queued(Tail(jobs), "register")
<1>0. /\ TypeInv /\ jobs \in Seq(Job) /\ Len(jobs) \in Nat /\ dApplied \in Nat
      /\ Head(jobs) \in Job /\ gcommit \in Nat
  BY ReplyInvParts, LenProperties, HeadTailProperties DEF LogsInv, TypeInv, TypeOK, RaftTypeOK
<1>1. /\ Queue(h, jobs, glog', gshards')
      /\ \A k \in 0 .. lastReady : after(gshards', k) = after(gshards, k)
      /\ \A i \in 0 .. Len(jobs) : h[i] \in Nat /\ h[i] <= lastReady
      /\ lastReady \in Nat /\ lastReady <= gcommit
  BY PlanFrame
<1>2. /\ Len(jobs) # 0 /\ Head(jobs) = jobs[1] /\ Len(Tail(jobs)) = Len(jobs) - 1
      /\ \A i \in 1 .. Len(jobs) - 1 : Tail(jobs)[i] = jobs[i + 1]
      /\ \A kind : Queued(jobs, kind) <=>
                     (Head(jobs).kind = kind \/ Queued(Tail(jobs), kind))
  BY <1>0, QueuedTail
<1>3. 1 \in 1 .. Len(jobs) /\ 0 \in 0 .. Len(jobs) /\ 1 \in 0 .. Len(jobs) /\ 1 - 1 = 0
  BY <1>0, <1>2
<1>4. Covers(jobs[1], h[0], h[1], glog', gshards') /\ h[0] <= h[1]
  <2>1. Covers(jobs[1], h[1 - 1], h[1], glog', gshards')
    BY <1>1, <1>3 DEF Queue
  <2>2. QED
    BY <1>1, <1>3, <2>1 DEF Queue
<1>5. ASSUME jobs[1].kind = "apply"
      PROVE  ~Queued(jobs, "register") /\ ~Queued(jobs, "snapshot")
  <2>1. SUFFICES ASSUME NEW i \in 1 .. Len(jobs), jobs[i].kind \in {"register", "snapshot"}
                 PROVE  FALSE
    BY DEF Queued
  <2>2. 1 < i
    BY <1>0, <1>5, <2>1
  <2>3. QED
    BY <1>1, <1>3, <1>5, <2>1, <2>2 DEF Queue
<1>6. ASSUME jobs[1].kind = "snapshot" PROVE Queued(Tail(jobs), "register")
  <2>1. PICK j \in 1 .. Len(jobs) : 1 < j /\ jobs[j].kind = "register"
    BY <1>1, <1>3, <1>6 DEF Queue
  <2>2. j - 1 \in 1 .. Len(Tail(jobs)) /\ (j - 1) + 1 = j /\ j - 1 \in 1 .. Len(jobs) - 1
    BY <1>0, <1>2, <2>1
  <2>3. Tail(jobs)[j - 1] = jobs[j]
    BY <1>2, <2>2
  <2>4. QED
    BY <2>1, <2>2, <2>3 DEF Queued
<1>7. dApplied <= h[0]
  BY DEF Plan, DelegateInv
<1>8. QED
  BY <1>0, <1>1, <1>2, <1>3, <1>4, <1>5, <1>6, <1>7

\* The jobs that register the delegate, file a callback or destroy the replica.
LEMMA SmallJobKeepsPlan ==
    ASSUME LogsInv, ReadyInv, NEW h \in [0 .. Len(jobs) -> Nat], Plan(h),
           DoRegistrationJob \/ DoPropose \/ DoDestroy
    PROVE  \E g \in [0 .. Len(jobs') -> Nat] : Plan(g)'
<1>0. /\ [Next]_vars /\ jobs # <<>> /\ jobs' = Tail(jobs)
      /\ UNCHANGED <<lastReady, psApplied, results, data, snapFails>>
      /\ Head(jobs).kind \in {"register", "propose", "destroy"}
  BY DEF Next, Worker, DoRegistrationJob, DoPropose, DoDestroy, nextJob, psVars
<1>1. /\ Covers(Head(jobs), h[0], h[1], glog', gshards')
      /\ h[0] \in Nat /\ h[1] \in Nat /\ h[1] <= lastReady
      /\ lastReady \in Nat /\ dApplied \in Nat /\ dApplied <= h[0]
      /\ \A k \in 0 .. lastReady : after(gshards', k) = after(gshards, k)
      /\ \A kind : Queued(jobs, kind) <=>
                          (Head(jobs).kind = kind \/ Queued(jobs', kind))
  BY <1>0, FirstJob
<1>2. h[1] = h[0]
  BY <1>0, <1>1 DEF Covers
<1>3. Written(data', h[1], glog')
  <2>1. Written(data, h[0], glog')
    BY <1>0, PlanFrame
  <2>2. QED
    BY <1>0, <1>2, <2>1
<1>4. Queued(jobs', "snapshot") => results' = <<>>
  BY <1>0, <1>1 DEF Plan, ResultsInv
<1>5. /\ after(gshards', dApplied) = after(gshards, dApplied)
      /\ after(gshards', h[0]) = after(gshards, h[0])
  BY <1>1, <1>2
<1>9. intact' => intact
  BY <1>0, IntactStays
<1>6. CASE DoRegistrationJob
  <2>1. /\ Head(jobs).kind = "register" /\ registered' = TRUE
        /\ dApplied' = Head(jobs).applied /\ dEpoch' = Head(jobs).epoch
    BY <1>6 DEF DoRegistrationJob, nextJob
  <2>2. dApplied' = h[1] /\ dEpoch' = after(gshards', h[1]).epoch
    BY <1>1, <2>1 DEF Covers
  <2>3. (intact' /\ ~Queued(jobs', "snapshot")) => data = after(gshards', h[1]).data
    BY <1>1, <1>2, <1>5, <1>9, <2>1 DEF Plan, DelegateInv
  <2>4. DelegateInv(h[1])'
    BY <1>0, <1>1, <2>1, <2>2, <2>3 DEF DelegateInv
  <2>5. \A i \in 1 .. Len(results') :
              psApplied < results'[i].applied /\ results'[i].applied <= dApplied'
    <3>1. SUFFICES ASSUME NEW i \in 1 .. Len(results)
                   PROVE  psApplied < results[i].applied /\ results[i].applied <= dApplied'
      BY <1>0
    <3>2. psApplied < results[i].applied /\ results[i].applied <= dApplied
      BY DEF Plan, ResultsInv
    <3>3. results[i].applied \in Nat
      <4>1. results \in Seq([applied : Nat, epoch : Nat])
        BY ReplyInvParts DEF LogsInv, TypeInv, TypeOK
      <4>2. results[i] \in [applied : Nat, epoch : Nat]
        BY <4>1, ElementOfSeq, Zenon
      <4>3. QED
        BY <4>2
    <3>4. QED
      BY <1>1, <1>2, <2>2, <3>2, <3>3
  <2>6. QED
    BY <1>0, <1>3, <1>4, <2>4, <2>5, PlanPop
<1>7. CASE DoPropose \/ DoDestroy
  <2>1. /\ UNCHANGED <<dApplied, dEpoch>> /\ (registered' => registered)
        /\ Head(jobs).kind \in {"propose", "destroy"}
    BY <1>7 DEF DoPropose, DoDestroy, nextJob
  <2>2. \A kind \in {"register", "snapshot"} : Queued(jobs', kind) <=> Queued(jobs, kind)
    BY <1>1, <2>1
  <2>3. DelegateInv(h[1])'
    <3>1. dApplied' <= h[1] /\ dEpoch' = after(gshards', dApplied').epoch
      BY <1>1, <1>2, <1>5, <2>1 DEF Plan, DelegateInv
    <3>2. registered' => dApplied' = h[1] \/ Queued(jobs', "register")
      BY <1>2, <2>1, <2>2 DEF Plan, DelegateInv
    <3>3. (/\ intact' /\ ~Queued(jobs', "snapshot")
           /\ registered' \/ Queued(jobs', "register")) => data' = after(gshards', h[1]).data
      BY <1>0, <1>2, <1>5, <1>9, <2>1, <2>2 DEF Plan, DelegateInv
    <3>4. QED
      BY <3>1, <3>2, <3>3 DEF DelegateInv
  <2>4. \A i \in 1 .. Len(results') :
              psApplied < results'[i].applied /\ results'[i].applied <= dApplied'
    BY <1>0, <2>1 DEF Plan, ResultsInv
  <2>5. QED
    BY <1>0, <1>3, <1>4, <2>3, <2>4, PlanPop
<1>8. QED
  BY <1>6, <1>7


\* A snapshot is put in place of the data.
LEMMA SnapshotJobKeepsPlan ==
    ASSUME LogsInv, HistoryInv, ReadyInv, NEW h \in [0 .. Len(jobs) -> Nat], Plan(h),
           SnapshotInv, DoApplyingSnapshotJob
    PROVE  \E g \in [0 .. Len(jobs') -> Nat] : Plan(g)'
<1>0. /\ [Next]_vars /\ jobs # <<>> /\ jobs' = Tail(jobs)
      /\ UNCHANGED <<lastReady, psApplied, results, registered, dApplied, dEpoch, glog, gshards>>
      /\ Head(jobs).kind = "snapshot"
  BY DEF Next, Worker, DoApplyingSnapshotJob, nextJob, psVars, raftVars, groupVars
<1>1. /\ Covers(Head(jobs), h[0], h[1], glog', gshards')
      /\ h[0] \in Nat /\ h[1] \in Nat /\ h[0] <= h[1] /\ h[1] <= lastReady
      /\ lastReady \in Nat /\ lastReady <= gcommit /\ gcommit \in Nat
      /\ dApplied \in Nat /\ dApplied <= h[0]
      /\ Queued(jobs, "snapshot") /\ Queued(jobs', "register")
  BY <1>0, FirstJob
<1>2. results' = <<>> /\ 1 .. Len(results') = {}
  BY <1>0, <1>1 DEF Plan, ResultsInv
<1>3. Head(jobs).shard = after(gshards, h[1])
  BY <1>0, <1>1 DEF Covers
<1>4. \/ data' = after(gshards, h[1]).data
      \/ data' = <<>> /\ ~intact'
  <2>1. snapFails \in Nat
    BY ReplyInvParts DEF LogsInv, TypeInv, TypeOK
  <2>2. stopRaftTick
    BY <1>1 DEF SnapshotInv
  <2>3. \/ data' = Head(jobs).shard.data
        \/ data' = <<>> /\ snapFails' = snapFails + 1 /\ UNCHANGED stopRaftTick
    BY DEF DoApplyingSnapshotJob
  <2>4. snapFails' = snapFails + 1 => snapFails' # 0
    BY <2>1
  <2>5. QED
    BY <1>3, <2>2, <2>3, <2>4 DEF intact
<1>5. DelegateInv(h[1])'
  <2>1. dApplied' <= h[1] /\ dEpoch' = after(gshards', dApplied').epoch
    BY <1>0, <1>1 DEF Plan, DelegateInv
  <2>2. intact' => data' = after(gshards', h[1]).data
    BY <1>0, <1>4
  <2>3. QED
    BY <1>1, <2>1, <2>2 DEF DelegateInv
<1>6. Written(data', h[1], glog')
  <2>1. CASE data' = <<>>
    BY <2>1 DEF Written
  <2>2. CASE data' = after(gshards, h[1]).data
    <3>1. h[1] \in 0 .. gcommit
      BY <1>1
    <3>2. HistoryOf(h[1], glog, gshards)
      BY <3>1 DEF HistoryInv
    <3>3. QED
      BY <1>0, <2>2, <3>2 DEF HistoryOf, Executed, Written
  <2>3. QED
    BY <1>4, <2>1, <2>2
<1>7. QED
  BY <1>0, <1>2, <1>5, <1>6, PlanPop

\* The worker applies an entry: it is the next of the log.
LEMMA ApplyJobKeepsPlan ==
    ASSUME LogsInv, ReadyInv, NEW h \in [0 .. Len(jobs) -> Nat], Plan(h),
           DoApplyCommittedEntries
    PROVE  /\ UNCHANGED fatal
           /\ \E g \in [0 .. Len(jobs') -> Nat] : Plan(g)'
           /\ registered => /\ dApplied < gcommit /\ entry = glog[dApplied + 1]
                            /\ dEpoch = after(gshards, dApplied).epoch
<1>0. /\ [Next]_vars /\ jobs # <<>> /\ LogInv /\ TypeInv /\ psApplied \in Nat
      /\ UNCHANGED <<lastReady, psApplied, registered, glog, gshards, snapFails>>
      /\ Head(jobs).kind = "apply" /\ data \in Seq(Cmds \cup Others) /\ dEpoch \in Nat
      /\ results \in Seq([applied : Nat, epoch : Nat])
  <2>1. LogInv /\ TypeInv
    BY ReplyInvParts DEF LogsInv
  <2>2. QED
    BY <2>1 DEF Next, Worker, DoApplyCommittedEntries, nextJob, psVars, raftVars, groupVars,
       TypeInv, TypeOK
<1>1. /\ Covers(Head(jobs), h[0], h[1], glog', gshards')
      /\ h[0] \in Nat /\ h[1] \in Nat /\ h[0] <= h[1] /\ h[1] <= lastReady
      /\ lastReady \in Nat /\ lastReady <= gcommit /\ gcommit \in Nat
      /\ dApplied \in Nat /\ dApplied <= h[0]
      /\ ~Queued(jobs, "register") /\ ~Queued(jobs, "snapshot") /\ Head(jobs) \in Job
      /\ ~Queued(Tail(jobs), "register") /\ ~Queued(Tail(jobs), "snapshot")
  BY <1>0, FirstJob
<1> DEFINE es == Head(jobs).entries
<1>2. /\ es \in Seq(Entry) /\ es # <<>> /\ Len(es) \in Nat /\ Len(es) # 0
      /\ Head(es) = es[1] /\ es[1] \in Entry
  <2>1. es \in Seq(Entry) /\ es # <<>>
    BY <1>0, <1>1, JobType
  <2>2. QED
    BY <2>1, EmptySeq, LenProperties, HeadTailProperties
<1>3. /\ Head(jobs).first = h[0] + 1 /\ h[1] = h[0] + Len(es) /\ es[1] = glog[h[0] + 1]
  BY <1>0, <1>1, <1>2 DEF Covers
<1> HIDE DEF es
<1>4. Written(data, h[0], glog')
  BY <1>0, PlanFrame
<1>5. CASE ~registered
  <2>1. /\ jobs' = Tail(jobs) /\ UNCHANGED <<dApplied, dEpoch, data, results, fatal>>
    BY <1>5 DEF DoApplyCommittedEntries
  <2>2. DelegateInv(h[1])'
    <3>1. dApplied' <= h[1] /\ dEpoch' = after(gshards', dApplied').epoch
      BY <1>0, <1>1, <2>1 DEF Plan, DelegateInv
    <3>2. QED
      BY <1>0, <1>1, <1>5, <2>1, <3>1 DEF DelegateInv
  <2>3. Written(data', h[1], glog')
    <3>1. \A x \in 1 .. h[0] : x \in 1 .. h[1]
      BY <1>1
    <3>2. QED
      BY <1>4, <2>1, <3>1 DEF Written
  <2>4. \A i \in 1 .. Len(results') :
              psApplied < results'[i].applied /\ results'[i].applied <= dApplied'
    BY <2>1 DEF Plan, ResultsInv
  <2>5. \E g \in [0 .. Len(jobs') -> Nat] : Plan(g)'
    BY <1>0, <1>1, <2>1, <2>2, <2>3, <2>4, PlanPop
  <2>6. QED
    BY <1>5, <2>1, <2>5
<1>6. CASE registered
  <2>1. dApplied = h[0]
    BY <1>1, <1>6 DEF Plan, DelegateInv
  <2>2. Head(jobs).first = dApplied + 1
    BY <1>3, <2>1
  <2>3. PICK n \in 0 .. Len(pending) : applyEntry(Head(es), n)
    BY <1>6, <2>2 DEF DoApplyCommittedEntries, es
  <2>4. /\ UNCHANGED fatal
        /\ jobs' = IF Len(es) = 1 THEN Tail(jobs)
                   ELSE <<[kind |-> "apply", first |-> Head(jobs).first + 1,
                           entries |-> Tail(es)]>> \o Tail(jobs)
    BY <1>6, <2>2 DEF DoApplyCommittedEntries, es
  <2> DEFINE s == [epoch |-> dEpoch, data |-> data]
             e == es[1]
             d == after(gshards, h[0])
  <2>5. /\ dEpoch' = execEntry(s, e).epoch /\ data' = execEntry(s, e).data
        /\ dApplied' = h[0] + 1
        /\ \/ results' = results
           \/ results' = Append(results, [applied |-> h[0] + 1, epoch |-> execEntry(s, e).epoch])
    BY <1>2, <2>1, <2>3 DEF applyEntry
  <2>6. s \in Shard /\ d \in Shard /\ d.epoch = s.epoch /\ s.data = data
    <3>1. s \in Shard
      BY <1>0 DEF Shard
    <3>2. h[0] \in 0 .. gcommit
      BY <1>1
    <3>3. d \in Shard
      BY <1>0, <3>2, AfterType
    <3>4. dEpoch = d.epoch
      BY <2>1 DEF Plan, DelegateInv
    <3>5. QED
      BY <3>1, <3>3, <3>4
  <2>7. h[0] + 1 \in 1 .. gcommit /\ after(gshards, h[0] + 1) = execEntry(d, e)
    <3>1. h[0] + 1 \in 1 .. gcommit /\ (h[0] + 1) - 1 = h[0] /\ h[0] + 1 # 0
      <4>1. /\ h[0] \in Nat /\ h[1] \in Nat /\ h[1] <= lastReady
            /\ lastReady \in Nat /\ lastReady <= gcommit /\ gcommit \in Nat
        BY <1>1
      <4>2. Len(es) \in Nat /\ Len(es) # 0 /\ h[1] = h[0] + Len(es)
        BY <1>2, <1>3
      <4>3. QED
        BY <4>1, <4>2
    <3>2. gshards[h[0] + 1] = execEntry(after(gshards, (h[0] + 1) - 1), glog[h[0] + 1])
      BY <1>0, <3>1 DEF LogInv
    <3>3. QED
      BY <1>3, <3>1, <3>2 DEF after
  <2>8. dEpoch' = after(gshards, h[0] + 1).epoch
    BY <1>2, <2>5, <2>6, <2>7, ExecEntryData
  <2>9. intact' => data' = after(gshards, h[0] + 1).data
    <3>1. SUFFICES ASSUME intact PROVE data' = after(gshards, h[0] + 1).data
      BY <1>0, IntactStays
    <3>2. data = d.data
      BY <1>1, <1>6, <3>1 DEF Plan, DelegateInv
    <3>3. s = d
      BY <2>6, <3>2 DEF Shard
    <3>4. QED
      BY <2>5, <2>7, <3>3
  <2>10. Written(data', h[0] + 1, glog')
    <3>1. data' = data \/ data' = Append(data, e.cmd)
      BY <1>2, <2>5, <2>6, ExecEntryData
    <3>2. \A x \in 1 .. h[0] : x \in 1 .. h[0] + 1
      BY <1>1
    <3>3. CASE data' = data
      BY <1>4, <3>2, <3>3 DEF Written
    <3>4. CASE data' = Append(data, e.cmd)
      <4>1. SUFFICES ASSUME NEW i \in DOMAIN data', data'[i] \in Cmds
                     PROVE  \E x \in 1 .. h[0] + 1 : glog'[x].cmd = data'[i]
        BY DEF Written
      <4>2. CASE data'[i] = e.cmd
        <5>1. h[0] + 1 \in 1 .. h[0] + 1 /\ glog'[h[0] + 1] = e
          BY <1>0, <1>1, <1>3
        <5>2. QED
          BY <4>2, <5>1
      <4>3. CASE i \in DOMAIN data /\ data'[i] = data[i]
        BY <1>4, <3>2, <4>1, <4>3 DEF Written
      <4>4. QED
        BY <1>0, <3>4, <4>1, <4>2, <4>3
    <3>5. QED
      BY <3>1, <3>3, <3>4
  <2>11. ~Queued(jobs', "register") /\ ~Queued(jobs', "snapshot") => DelegateInv(h[0] + 1)'
    BY <1>0, <1>1, <2>5, <2>8, <2>9 DEF DelegateInv
  <2>12. \A i \in 1 .. Len(results') :
              psApplied < results'[i].applied /\ results'[i].applied <= dApplied'
    <3>1. psApplied <= h[0]
      BY <1>1 DEF Plan, ResultsInv
    <3>2. \A i \in 1 .. Len(results) :
              psApplied < results[i].applied /\ results[i].applied <= h[0] + 1
      <4>1. SUFFICES ASSUME NEW i \in 1 .. Len(results)
                     PROVE  psApplied < results[i].applied /\ results[i].applied <= h[0] + 1
        OBVIOUS
      <4>2. psApplied < results[i].applied /\ results[i].applied <= dApplied
        BY DEF Plan, ResultsInv
      <4>3. results[i] \in [applied : Nat, epoch : Nat]
        BY <1>0, ElementOfSeq, Zenon
      <4>4. QED
        BY <1>1, <2>1, <4>2, <4>3
    <3>3. CASE results' = results
      BY <2>5, <3>2, <3>3
    <3>4. CASE results' = Append(results, [applied |-> h[0] + 1, epoch |-> execEntry(s, e).epoch])
      <4> DEFINE r == [applied |-> h[0] + 1, epoch |-> execEntry(s, e).epoch]
      <4>1. r \in [applied : Nat, epoch : Nat] /\ r.applied = h[0] + 1
        <5>1. execEntry(s, e) \in Shard
          BY <1>2, <2>6, ExecEntryData
        <5>2. execEntry(s, e).epoch \in Nat
          BY <5>1 DEF Shard
        <5>3. h[0] + 1 \in Nat
          BY <1>1
        <5>4. QED
          BY <5>2, <5>3
      <4>2. /\ Len(results') = Len(results) + 1 /\ results'[Len(results) + 1] = r
            /\ \A i \in 1 .. Len(results) : results'[i] = results[i]
        BY <1>0, <3>4, <4>1, AppendProperties
      <4> HIDE DEF r
      <4>3. SUFFICES ASSUME NEW i \in 1 .. Len(results')
                     PROVE  psApplied < results'[i].applied /\ results'[i].applied <= h[0] + 1
        BY <2>5
      <4>4. CASE i = Len(results) + 1
        BY <1>0, <1>1, <3>1, <4>1, <4>2, <4>4
      <4>5. CASE i # Len(results) + 1
        <5>1. i \in 1 .. Len(results)
          BY <1>0, <4>2, <4>5, LenProperties
        <5>2. QED
          BY <3>2, <4>2, <5>1
      <4>6. QED
        BY <4>4, <4>5
    <3>5. QED
      BY <2>5, <3>3, <3>4
  <2> HIDE DEF s, e, d
  <2>13. ASSUME Len(es) = 1 PROVE \E g \in [0 .. Len(jobs') -> Nat] : Plan(g)'
    <3>1. jobs' = Tail(jobs) /\ h[1] = h[0] + 1
      BY <1>3, <2>4, <2>13
    <3>2. DelegateInv(h[1])'
      BY <1>1, <2>11, <3>1 DEF DelegateInv
    <3>3. Written(data', h[1], glog') /\ ~Queued(jobs', "snapshot")
      BY <1>1, <2>10, <3>1
    <3>4. QED
      BY <1>0, <2>12, <3>1, <3>2, <3>3, PlanPop
  <2>14. ASSUME Len(es) # 1 PROVE \E g \in [0 .. Len(jobs') -> Nat] : Plan(g)'
    <3>1. PICK left : left = [kind |-> "apply", first |-> Head(jobs).first + 1,
                              entries |-> Tail(Head(jobs).entries)]
      OBVIOUS
    <3>2. jobs' = <<left>> \o Tail(jobs)
      BY <2>4, <2>14, <3>1 DEF es
    <3>3. ~Queued(jobs', "register") /\ ~Queued(jobs', "snapshot")
      <4>1. left.kind = "apply"
        BY <3>1
      <4>2. Tail(jobs) \in Seq(Job)
        BY <1>0, HeadTailProperties DEF TypeInv, TypeOK
      <4>3. /\ Len(<<left>> \o Tail(jobs)) = 1 + Len(Tail(jobs))
            /\ (<<left>> \o Tail(jobs))[1] = left
            /\ \A i \in 2 .. 1 + Len(Tail(jobs)) : (<<left>> \o Tail(jobs))[i] = Tail(jobs)[i - 1]
        BY <4>2
      <4>4. SUFFICES ASSUME NEW i \in 1 .. Len(jobs'), jobs'[i].kind \in {"register", "snapshot"}
                     PROVE  FALSE
        BY DEF Queued
      <4>5. i # 1
        BY <3>2, <4>1, <4>3, <4>4
      <4>6. Len(Tail(jobs)) \in Nat
        BY <4>2, LenProperties
      <4>7. i - 1 \in 1 .. Len(Tail(jobs)) /\ jobs'[i] = Tail(jobs)[i - 1]
        BY <3>2, <4>3, <4>4, <4>5, <4>6
      <4>8. QED
        BY <1>1, <4>4, <4>7 DEF Queued
    <3>4. Len(Head(jobs).entries) # 1
      BY <2>14 DEF es
    <3>5. DelegateInv(h[0] + 1)'
      BY <2>11, <3>3
    <3>6. QED
      BY <1>0, <2>10, <2>12, <3>1, <3>2, <3>4, <3>5, PlanFront
  <2>15. \E g \in [0 .. Len(jobs') -> Nat] : Plan(g)'
    BY <2>13, <2>14
  <2>16. dApplied < gcommit /\ entry = glog[dApplied + 1]
    BY <1>1, <1>2, <1>3, <2>1, <2>7 DEF entry, es
  <2>17. dEpoch = after(gshards, dApplied).epoch
    BY DEF Plan, DelegateInv
  <2>18. QED
    BY <2>4, <2>15, <2>16, <2>17
<1>7. QED
  BY <1>5, <1>6


\* The steps that leave the queue and the delegate alone.
LEMMA OtherStepsKeepPlan ==
    ASSUME LogsInv, ReadyInv, ~fatal, NEW h \in [0 .. Len(jobs) -> Nat], Plan(h),
           \/ \E c \in Cmds : Submit(c)
           \/ LoopStart \/ LoopStop \/ HandleApplyResult \/ HandleRequest
           \/ ProposeRefused \/ ProposeForwarded \/ SkipReady
           \/ HandleStep \/ RetryMustDestroy \/ RemovePR \/ Group \/ UNCHANGED vars
    PROVE  ~fatal' /\ \E g \in [0 .. Len(jobs') -> Nat] : Plan(g)'
<1>1. [Next]_vars /\ jobs \in Seq(Job)
  BY ReplyInvParts DEF LogsInv, TypeInv, TypeOK, Next, Loop, Worker
<1>2. UNCHANGED <<jobs, lastReady, registered, dApplied, dEpoch, data, snapFails>>
  BY DEF Submit, LoopStart, LoopStop, HandleApplyResult, HandleRequest, ProposeRefused,
     ProposeForwarded, SkipReady, HandleStep, RetryMustDestroy, RemovePR, Group, vars, psVars,
     delegateVars
<1>3. CASE HandleApplyResult
  <2>1. CASE results = <<>>
    <3>1. UNCHANGED <<results, psApplied, fatal>>
      BY <1>3, <2>1 DEF HandleApplyResult
    <3>2. Plan(h)'
      BY <1>1, <1>2, <3>1, PlanSame
    <3>3. QED
      BY <1>2, <3>1, <3>2
  <2>2. CASE results # <<>>
    <3>1. /\ results' = <<>> /\ psApplied' = results[Len(results)].applied
          /\ fatal' = (fatal \/ isApplyingSnapshot)
      BY <1>3, <2>2 DEF HandleApplyResult
    <3>2. ~isApplyingSnapshot
      <4>1. ~Queued(jobs, "snapshot")
        BY <2>2 DEF Plan, ResultsInv
      <4>2. DOMAIN jobs = 1 .. Len(jobs)
        BY <1>1, LenProperties
      <4>3. QED
        BY <4>1, <4>2 DEF Queued, isApplyingSnapshot
    <3>3. Plan(h)'
      BY <1>1, <1>2, <2>2, <3>1, PlanSame
    <3>4. QED
      BY <1>2, <3>1, <3>2, <3>3
  <2>3. QED
    BY <2>1, <2>2
<1>4. CASE ~HandleApplyResult
  <2>1. UNCHANGED <<psApplied, fatal>> /\ (results' = results \/ results' = <<>>)
    BY <1>4 DEF Submit, LoopStart, LoopStop, HandleRequest, ProposeRefused,
       ProposeForwarded, SkipReady, HandleStep, RetryMustDestroy, RemovePR, Group, vars, psVars
  <2>2. Plan(h)'
    BY <1>1, <1>2, <2>1, PlanSame
  <2>3. QED
    BY <1>2, <2>1, <2>2
<1>5. QED
  BY <1>3, <1>4

----------------------------------------------------------------------------
(* Snapshots and leadership.                                               *)

LEMMA SnapshotsAppend ==
    ASSUME NEW js \in Seq(Job), NEW x \in Job, x.kind # "snapshot", OneSnapshot(js)
    PROVE  /\ OneSnapshot(Append(js, x))
           /\ Queued(Append(js, x), "snapshot") <=> Queued(js, "snapshot")
<1>0. PICK p : p = Append(js, x)
  OBVIOUS
<1>1. /\ Len(p) = Len(js) + 1 /\ Len(js) \in Nat
      /\ \A i \in 1 .. Len(js) : p[i] = js[i]
      /\ p[Len(js) + 1] = x
  BY <1>0, Appended
<1>2. /\ \A i \in 1 .. Len(p) : p[i].kind = "snapshot" => i \in 1 .. Len(js) /\ js[i].kind = "snapshot"
      /\ \A i \in 1 .. Len(js) : i \in 1 .. Len(p) /\ p[i] = js[i]
  BY <1>1
<1>3. OneSnapshot(p) /\ (Queued(p, "snapshot") <=> Queued(js, "snapshot"))
  BY <1>2 DEF OneSnapshot, Queued
<1>4. QED
  BY <1>0, <1>3

LEMMA SnapshotsTail ==
    ASSUME NEW js \in Seq(Job), js # <<>>, OneSnapshot(js)
    PROVE  /\ OneSnapshot(Tail(js))
           /\ Queued(Tail(js), "snapshot") => Queued(js, "snapshot")
           /\ Head(js).kind = "snapshot" => ~Queued(Tail(js), "snapshot")
<1>1. /\ Queued(js, "snapshot") <=> (Head(js).kind = "snapshot" \/ Queued(Tail(js), "snapshot"))
      /\ Len(js) \in Nat /\ Len(js) # 0 /\ Len(Tail(js)) = Len(js) - 1 /\ Head(js) = js[1]
      /\ \A i \in 1 .. Len(js) - 1 : Tail(js)[i] = js[i + 1]
  BY QueuedTail
<1>2. \A i \in 1 .. Len(Tail(js)) : /\ i + 1 \in 1 .. Len(js) /\ i + 1 # 1
                                    /\ Tail(js)[i] = js[i + 1]
  BY <1>1
<1>3. OneSnapshot(Tail(js))
  <2>1. SUFFICES ASSUME NEW i \in 1 .. Len(Tail(js)), NEW j \in 1 .. Len(Tail(js)),
                        Tail(js)[i].kind = "snapshot", Tail(js)[j].kind = "snapshot"
                 PROVE  i = j
    BY DEF OneSnapshot
  <2>2. i + 1 = j + 1
    BY <1>2, <2>1 DEF OneSnapshot
  <2>3. QED
    BY <1>1, <2>2
<1>4. 1 \in 1 .. Len(js)
  BY <1>1
<1>5. Head(js).kind = "snapshot" => ~Queued(Tail(js), "snapshot")
  BY <1>1, <1>2, <1>4 DEF OneSnapshot, Queued
<1>6. QED
  BY <1>1, <1>3, <1>5

LEMMA SnapshotsFront ==
    ASSUME NEW js \in Seq(Job), js # <<>>, NEW x \in Job, x.kind # "snapshot", OneSnapshot(js),
           Head(js).kind # "snapshot"
    PROVE  /\ OneSnapshot(<<x>> \o Tail(js))
           /\ Queued(<<x>> \o Tail(js), "snapshot") <=> Queued(js, "snapshot")
<1>1. /\ Len(js) \in Nat /\ Len(js) # 0 /\ Len(Tail(js)) = Len(js) - 1 /\ Head(js) = js[1]
      /\ \A i \in 1 .. Len(js) - 1 : Tail(js)[i] = js[i + 1]
  BY QueuedTail
<1>2. Tail(js) \in Seq(Job)
  BY HeadTailProperties
<1>0. PICK p : p = <<x>> \o Tail(js)
  OBVIOUS
<1>3. Len(p) = Len(js) /\ p[1] = x /\ \A i \in 2 .. Len(js) : p[i] = js[i]
  <2>1. /\ Len(<<x>> \o Tail(js)) = 1 + Len(Tail(js))
        /\ (<<x>> \o Tail(js))[1] = x
        /\ \A i \in 2 .. 1 + Len(Tail(js)) : (<<x>> \o Tail(js))[i] = Tail(js)[i - 1]
    BY <1>2
  <2>2. QED
    BY <1>0, <1>1, <2>1
<1>4. /\ \A i \in 1 .. Len(p) : p[i].kind = "snapshot" => i \in 1 .. Len(js) /\ js[i].kind = "snapshot"
      /\ \A i \in 1 .. Len(js) : js[i].kind = "snapshot" => i \in 1 .. Len(p) /\ p[i] = js[i]
  BY <1>1, <1>3
<1>5. OneSnapshot(p) /\ (Queued(p, "snapshot") <=> Queued(js, "snapshot"))
  BY <1>4 DEF OneSnapshot, Queued
<1>6. QED
  BY <1>0, <1>5

LEMMA SnapshotsQueued ==
    ASSUME NEW js \in Seq(Job), ~Queued(js, "snapshot"), NEW a \in Job, NEW b \in Job,
           b.kind # "snapshot"
    PROVE  OneSnapshot(js \o <<a, b>>)
<1>0. PICK p : p = js \o <<a, b>>
  OBVIOUS
<1>1. /\ Len(js) \in Nat /\ Len(p) = Len(js) + 2
      /\ \A i \in 1 .. Len(js) : p[i] = js[i]
      /\ p[Len(js) + 2] = b
  BY <1>0
<1>2. \A i \in 1 .. Len(p) : p[i].kind = "snapshot" => i = Len(js) + 1
  BY <1>1 DEF Queued
<1>3. OneSnapshot(p)
  BY <1>2 DEF OneSnapshot
<1>4. QED
  BY <1>0, <1>3

\* What a step does to the snapshot jobs.
LEMMA SnapshotJobs ==
    ASSUME TypeInv, [Next]_vars, OneSnapshot(jobs)
    PROVE  /\ OneSnapshot(jobs')
           /\ Queued(jobs', "snapshot") => Queued(jobs, "snapshot") \/ SnapshotReady
           /\ Queued(jobs, "snapshot") => Queued(jobs', "snapshot") \/ DoApplyingSnapshotJob
<1>0. jobs \in Seq(Job) /\ DOMAIN jobs = 1 .. Len(jobs)
  BY LenProperties DEF TypeInv, TypeOK
<1>1. CASE ProposeAppended
  <2>1. PICK x : x = [kind |-> "propose", cmd |-> Head(batch).cmd, term |-> cachedTerm]
    OBVIOUS
  <2>2. x \in Job /\ x.kind # "snapshot"
    <3>1. batch \in Seq(Header) /\ batch # <<>> /\ cachedTerm \in Nat
      BY <1>1 DEF ProposeAppended, TypeInv, TypeOK
    <3>2. Head(batch) \in Header
      BY <3>1, HeadTailProperties
    <3>3. Head(batch).cmd \in Cmds
      BY <3>2 DEF Header
    <3>4. QED
      BY <2>1, <3>1, <3>3 DEF Job
  <2>3. jobs' = Append(jobs, x)
    BY <1>1, <2>1 DEF ProposeAppended, addApplyJob
  <2>4. QED
    BY <1>0, <2>2, <2>3, SnapshotsAppend
<1>2. CASE HandleGCPeerMsg
  <2>1. PICK x : x = [kind |-> "destroy"]
    OBVIOUS
  <2>2. x \in Job /\ x.kind # "snapshot"
    BY <2>1 DEF Job
  <2>3. jobs' = Append(jobs, x)
    BY <1>2, <2>1 DEF HandleGCPeerMsg, addApplyJob
  <2>4. QED
    BY <1>0, <2>2, <2>3, SnapshotsAppend
<1>3. CASE HandleReady
  <2>1. PICK x : x = [kind |-> "apply", first |-> lastReady + 1,
                      entries |-> SubSeq(rlog, lastReady + 1, rcommit)]
    OBVIOUS
  <2>2. x.kind # "snapshot"
    BY <2>1
  <2>3. jobs' = jobs \/ (jobs' = Append(jobs, x) /\ rcommit > lastReady)
    BY <1>3, <2>1 DEF HandleReady, hasCommitted, addApplyJob
  <2>4. CASE jobs' = Append(jobs, x) /\ rcommit > lastReady
    <3>1. jobs' \in Seq(Job)
      BY NextKeepsTypes DEF TypeInv, TypeOK
    <3>2. x \in Job
      <4>1. Len(jobs') = Len(jobs) + 1 /\ jobs'[Len(jobs) + 1] = x /\ Len(jobs) \in Nat
        BY <1>0, <2>4
      <4>2. QED
        BY <3>1, <4>1, ElementOfSeq
    <3>3. QED
      BY <1>0, <2>2, <2>4, <3>2, SnapshotsAppend
  <2>5. QED
    BY <2>3, <2>4
<1>4. CASE SnapshotReady
  <2>1. PICK a, b : /\ a = [kind |-> "snapshot", shard |-> shardAt(snapPend)]
                    /\ b = registrationJob(snapPend, shardAt(snapPend).epoch)
    OBVIOUS
  <2>2. b.kind # "snapshot"
    BY <2>1 DEF registrationJob
  <2>3. jobs' = jobs \o <<a, b>> /\ ~Queued(jobs, "snapshot")
    BY <1>0, <1>4, <2>1 DEF SnapshotReady, isApplyingSnapshot, Queued
  <2>4. a \in Job /\ b \in Job
    <3>1. jobs' \in Seq(Job)
      BY NextKeepsTypes DEF TypeInv, TypeOK
    <3>2. /\ Len(jobs') = Len(jobs) + 2 /\ jobs'[Len(jobs) + 1] = a /\ Len(jobs) \in Nat
          /\ jobs'[Len(jobs) + 2] = b
      BY <1>0, <2>3
    <3>3. QED
      BY <3>1, <3>2, ElementOfSeq
  <2>5. QED
    BY <1>0, <1>4, <2>2, <2>3, <2>4, SnapshotsQueued
<1>5. CASE /\ jobs # <<>> /\ jobs' = Tail(jobs)
           /\ Head(jobs).kind # "snapshot" \/ DoApplyingSnapshotJob
  <2>1. /\ OneSnapshot(Tail(jobs))
        /\ Queued(Tail(jobs), "snapshot") => Queued(jobs, "snapshot")
    BY <1>0, <1>5, SnapshotsTail
  <2>2. Queued(jobs, "snapshot") => Head(jobs).kind = "snapshot" \/ Queued(Tail(jobs), "snapshot")
    BY <1>0, <1>5, QueuedTail
  <2>3. QED
    BY <1>5, <2>1, <2>2
<1>6. CASE DoApplyCommittedEntries /\ ~(jobs # <<>> /\ jobs' = Tail(jobs))
  <2>1. PICK x : x = [kind |-> "apply", first |-> Head(jobs).first + 1,
                      entries |-> Tail(Head(jobs).entries)]
    OBVIOUS
  <2>2. /\ jobs # <<>> /\ jobs' = <<x>> \o Tail(jobs) /\ x.kind # "snapshot"
        /\ Head(jobs).kind # "snapshot"
    BY <1>6, <2>1 DEF DoApplyCommittedEntries, nextJob
  <2>3. x \in Job
    <3>1. jobs' \in Seq(Job)
      BY NextKeepsTypes DEF TypeInv, TypeOK
    <3>2. Tail(jobs) \in Seq(Job)
      BY <1>0, <2>2, HeadTailProperties
    <3>3. Len(jobs') >= 1 /\ jobs'[1] = x
      BY <2>2, <3>2
    <3>4. QED
      BY <3>1, <3>3, ElementOfSeq
  <2>4. QED
    BY <1>0, <2>2, <2>3, SnapshotsFront
<1>7. CASE DoRegistrationJob \/ DoPropose \/ DoDestroy \/ DoApplyingSnapshotJob
  BY <1>5, <1>7 DEF DoRegistrationJob, DoPropose, DoDestroy, DoApplyingSnapshotJob, nextJob
<1>8. CASE jobs' = jobs
  BY <1>8
<1>9. CASE \/ \E c \in Cmds : Submit(c)
           \/ LoopStart \/ LoopStop \/ HandleApplyResult \/ HandleRequest
           \/ ProposeRefused \/ ProposeForwarded \/ SkipReady
           \/ HandleStep \/ RetryMustDestroy \/ RemovePR \/ Group \/ UNCHANGED vars
  <2>1. jobs' = jobs
    BY <1>9 DEF Submit, LoopStart, LoopStop, HandleApplyResult, HandleRequest, ProposeRefused,
       ProposeForwarded, SkipReady, HandleStep, RetryMustDestroy, RemovePR, Group, vars
  <2>2. QED
    BY <1>8, <2>1
<1>11. CASE DoApplyCommittedEntries /\ jobs # <<>> /\ jobs' = Tail(jobs)
  BY <1>5, <1>11 DEF DoApplyCommittedEntries, nextJob
<1>10. QED
  BY <1>1, <1>2, <1>3, <1>4, <1>6, <1>7, <1>9, <1>11 DEF Next, Loop, Worker

LEMMA NextKeepsSnapshot ==
    ASSUME TypeInv, SnapshotInv, [Next]_vars
    PROVE  SnapshotInv'
<1>0. /\ OneSnapshot(jobs') /\ snapPend \in Nat
      /\ Queued(jobs', "snapshot") => Queued(jobs, "snapshot") \/ SnapshotReady
  BY SnapshotJobs DEF SnapshotInv, TypeInv, RaftInv, RaftTypeOK
<1>1. CASE HandleStep
  <2>1. UNCHANGED <<jobs, stopRaftTick>>
    BY <1>1 DEF HandleStep, psVars
  <2>2. CASE Campaign /\ ~stopRaftTick
    BY <1>0, <2>1, <2>2 DEF Campaign, SnapshotInv
  <2>3. CASE Win
    BY <1>0, <2>1, <2>3 DEF Win, SnapshotInv
  <2>4. CASE StepDown \/ FollowLeader \/ RecvSnapshot
    BY <1>0, <2>1, <2>4 DEF StepDown, FollowLeader, RecvSnapshot, SnapshotInv
  <2>5. CASE LearnCommit \/ RecvProp
    BY <1>0, <2>1, <2>5 DEF LearnCommit, RecvProp, SnapshotInv
  <2>6. QED
    BY <1>1, <2>2, <2>3, <2>4, <2>5 DEF HandleStep
<1>2. CASE SnapshotReady
  <2>1. role' = role /\ snapPend # 0 /\ snapPend' = 0 /\ stopRaftTick' = TRUE
    BY <1>2 DEF SnapshotReady
  <2>2. QED
    BY <1>0, <2>1 DEF SnapshotInv
<1>3. CASE DoApplyingSnapshotJob
  <2>1. jobs # <<>> /\ jobs' = Tail(jobs) /\ Head(jobs).kind = "snapshot"
    BY <1>3 DEF DoApplyingSnapshotJob, nextJob
  <2>2. ~Queued(jobs', "snapshot")
    <3>1. jobs \in Seq(Job) /\ OneSnapshot(jobs)
      BY DEF TypeInv, TypeOK, SnapshotInv
    <3>2. QED
      BY <2>1, <3>1, SnapshotsTail
  <2>3. UNCHANGED <<role, snapPend>>
    BY <1>3 DEF DoApplyingSnapshotJob, raftVars, nodeVars
  <2>4. QED
    BY <1>0, <2>2, <2>3 DEF SnapshotInv
<1>4. CASE ~HandleStep /\ ~SnapshotReady /\ ~DoApplyingSnapshotJob
  <2>1. UNCHANGED <<role, snapPend>> /\ (stopRaftTick => stopRaftTick')
    <3>1. CASE Worker \/ HandleGCPeerMsg \/ \E c \in Cmds : Submit(c)
      <4>1. UNCHANGED raftVars /\ UNCHANGED psVars
        BY <1>4, <3>1 DEF Worker, HandleGCPeerMsg, Submit, DoRegistrationJob, DoPropose,
           DoApplyCommittedEntries, DoDestroy, RetryMustDestroy, RemovePR
      <4>2. QED
        BY <4>1 DEF raftVars, nodeVars, psVars
    <3>2. CASE Loop
      BY <1>4, <3>2 DEF Loop, LoopStart, LoopStop, HandleApplyResult, HandleRequest,
         ProposeRefused, ProposeForwarded, SkipReady, HandleReady, ProposeAppended, raftVars,
         nodeVars, psVars
    <3>3. CASE Group
      BY <3>3 DEF Group, GroupNext, OtherElected, OtherAppend, OtherAppendForwarded, GroupCommit,
         SnapshotFileArrives, nodeVars, psVars
    <3>4. CASE UNCHANGED vars
      BY <3>4 DEF vars, raftVars, nodeVars, psVars
    <3>5. QED
      BY <1>4, <3>1, <3>2, <3>3, <3>4 DEF Next
  <2>2. QED
    BY <1>0, <1>4, <2>1 DEF SnapshotInv
<1>5. QED
  BY <1>1, <1>2, <1>3, <1>4

----------------------------------------------------------------------------
(* The invariant of the pipeline.                                          *)

\* Every step keeps the plan, and reaches no Fatalf.
LEMMA NextKeepsPlan ==
    ASSUME LogsInv, LogsInv', SnapshotInv, HistoryInv, PlanInv, [Next]_vars
    PROVE  PlanInv'
<1>1. /\ ReadyInv /\ ~fatal /\ ReadyInv'
  BY NextKeepsReady DEF PlanInv
<1>2. PICK h \in [0 .. Len(jobs) -> Nat] : Plan(h)
  BY DEF PlanInv
<1>3. SUFFICES ~fatal' /\ \E g \in [0 .. Len(jobs') -> Nat] : Plan(g)'
  BY <1>1 DEF PlanInv
<1>4. CASE ProposeAppended \/ HandleReady \/ SnapshotReady
  <2>1. UNCHANGED fatal
    BY <1>4 DEF ProposeAppended, HandleReady, SnapshotReady
  <2>2. QED
    BY <1>1, <1>2, <1>4, <2>1, ProposeAppendedKeepsPlan, HandleReadyKeepsPlan,
       SnapshotReadyKeepsPlan
<1>5. CASE DoRegistrationJob \/ DoPropose \/ DoDestroy \/ DoApplyingSnapshotJob
  <2>1. UNCHANGED fatal
    BY <1>5 DEF DoRegistrationJob, DoPropose, DoDestroy, DoApplyingSnapshotJob
  <2>2. QED
    BY <1>1, <1>2, <1>5, <2>1, SmallJobKeepsPlan, SnapshotJobKeepsPlan
<1>6. CASE DoApplyCommittedEntries
  BY <1>1, <1>2, <1>6, ApplyJobKeepsPlan
<1>7. CASE HandleGCPeerMsg
  <2>1. PICK job : job = [kind |-> "destroy"]
    OBVIOUS
  <2>2. job \in Job /\ job.kind = "destroy"
    BY <2>1 DEF Job
  <2>3. /\ jobs' = Append(jobs, job)
        /\ UNCHANGED <<registered, dApplied, dEpoch, data, snapFails, results, psApplied,
                       lastReady, fatal>>
    BY <1>7, <2>1 DEF HandleGCPeerMsg, addApplyJob, psVars, delegateVars
  <2>4. Covers(job, lastReady, lastReady, glog', gshards')
    BY <2>2 DEF Covers
  <2>5. lastReady \in Nat
    BY ReplyInvParts DEF LogsInv, TypeInv, TypeOK
  <2>6. \E g \in [0 .. Len(jobs') -> Nat] : Plan(g)'
    BY <1>1, <1>2, <2>2, <2>3, <2>4, <2>5, PlanPush
  <2>7. QED
    BY <1>1, <2>3, <2>6
<1>8. CASE \/ \E c \in Cmds : Submit(c)
           \/ LoopStart \/ LoopStop \/ HandleApplyResult \/ HandleRequest
           \/ ProposeRefused \/ ProposeForwarded \/ SkipReady
           \/ HandleStep \/ RetryMustDestroy \/ RemovePR \/ Group \/ UNCHANGED vars
  BY <1>1, <1>2, <1>8, OtherStepsKeepPlan
<1>9. QED
  BY <1>4, <1>5, <1>6, <1>7, <1>8 DEF Next, Loop, Worker


----------------------------------------------------------------------------
(* What the clients are told.                                              *)

\* A command answered with success was written by an entry that is chosen,
\* and one answered with a stale epoch has an entry that was not executed.
ToldInv ==
    \A c \in Cmds :
        /\ "ok" \in ToSet(replies[c]) =>
              \E i \in DOMAIN after(gshards, gcommit).data : after(gshards, gcommit).data[i] = c
        /\ "epoch" \in ToSet(replies[c]) =>
              \E x \in 1 .. gcommit : /\ glog[x].cmd = c
                                      /\ ~checkEpoch(after(gshards, x - 1).epoch, glog[x])

LEMMA NextKeepsTold ==
    ASSUME LogsInv, HistoryInv, PlanInv, ToldInv, HistoryInv', [Next]_vars
    PROVE  ToldInv'
<1>0. /\ TypeInv /\ TypeInv' /\ LogInv /\ Stays /\ gcommit \in Nat /\ gcommit' \in Nat
      /\ gcommit <= gcommit'
  <2>1. TypeInv /\ TypeInv' /\ LogInv
    BY ReplyInvParts, NextKeepsTypes DEF LogsInv
  <2>2. Stays
    BY <2>1, NextKeepsLog
  <2>3. QED
    BY <2>1, <2>2 DEF TypeInv, TypeOK, RaftTypeOK, Stays
<1>1. \A k \in 0 .. gcommit : after(gshards', k) = after(gshards, k)
  BY <1>0 DEF after, Stays
<1>2. \A k \in 0 .. gcommit : Extends(after(gshards, k).data, after(gshards', gcommit').data)
  <2>1. SUFFICES ASSUME NEW k \in 0 .. gcommit
                 PROVE  Extends(after(gshards, k).data, after(gshards', gcommit').data)
    OBVIOUS
  <2>2. k \in 0 .. gcommit'
    BY <1>0
  <2>3. Extends(after(gshards', k).data, after(gshards', gcommit').data)
    BY <2>2 DEF HistoryInv
  <2>4. QED
    BY <1>1, <2>3
<1>3. ASSUME NEW c \in Cmds, NEW b \in {"ok", "epoch"}, b \in ToSet(replies'[c]),
             b \notin ToSet(replies[c])
      PROVE  /\ dApplied + 1 \in 1 .. gcommit /\ glog[dApplied + 1] \in Entry
             /\ c = glog[dApplied + 1].cmd /\ hasCB(c)
             /\ b = IF checkEpoch(after(gshards, dApplied).epoch, glog[dApplied + 1])
                    THEN "ok" ELSE "epoch"
             /\ dApplied \in 0 .. gcommit
  <2>1. /\ DoApplyCommittedEntries /\ registered /\ c = entry.cmd /\ hasCB(c) /\ b = verdict
    BY <1>0, <1>3, NewAnswers
  <2>2. PICK h \in [0 .. Len(jobs) -> Nat] : Plan(h)
    BY DEF PlanInv
  <2>3. /\ dApplied < gcommit /\ entry = glog[dApplied + 1]
        /\ dEpoch = after(gshards, dApplied).epoch
    BY <2>1, <2>2, ApplyJobKeepsPlan DEF PlanInv
  <2>4. dApplied \in Nat /\ gcommit <= Len(glog) /\ glog \in Seq(Entry)
    BY <1>0 DEF TypeInv, TypeOK, RaftInv, RaftTypeOK
  <2>5. dApplied + 1 \in 1 .. gcommit /\ dApplied \in 0 .. gcommit /\ dApplied + 1 \in 1 .. Len(glog)
    BY <1>0, <2>3, <2>4, LenProperties
  <2>6. glog[dApplied + 1] \in Entry
    BY <2>4, <2>5, ElementOfSeq
  <2>7. QED
    BY <2>1, <2>3, <2>5, <2>6 DEF verdict
<1>4. ASSUME NEW c \in Cmds, "ok" \in ToSet(replies'[c])
      PROVE  \E i \in DOMAIN after(gshards', gcommit').data : after(gshards', gcommit').data[i] = c
  <2>1. PICK k \in 0 .. gcommit : \E i \in DOMAIN after(gshards, k).data : after(gshards, k).data[i] = c
    <3>1. CASE "ok" \in ToSet(replies[c])
      <4>1. gcommit \in 0 .. gcommit
        BY <1>0
      <4>2. QED
        BY <3>1, <4>1 DEF ToldInv
    <3>2. CASE "ok" \notin ToSet(replies[c])
      <4> DEFINE k == dApplied + 1
                 s == after(gshards, dApplied)
                 e == glog[dApplied + 1]
      <4>1. /\ k \in 1 .. gcommit /\ e \in Entry /\ c = e.cmd /\ hasCB(c)
            /\ checkEpoch(s.epoch, e) /\ dApplied \in 0 .. gcommit /\ k - 1 = dApplied
        <5>1. /\ k \in 1 .. gcommit /\ e \in Entry /\ c = e.cmd /\ hasCB(c)
              /\ "ok" = (IF checkEpoch(s.epoch, e) THEN "ok" ELSE "epoch")
              /\ dApplied \in 0 .. gcommit
          BY <1>3, <1>4, <3>2
        <5>2. QED
          BY <1>0, <5>1
      <4>2. s \in Shard /\ s.data \in Seq(Cmds \cup Others)
        BY <1>0, <4>1, AfterType
      <4>3. execEntry(s, e).data = Append(s.data, c)
        BY <4>1, <4>2, ExecEntryData DEF hasCB
      <4>4. after(gshards, k) = execEntry(s, e) /\ k \in 0 .. gcommit
        <5>1. gshards[k] = execEntry(after(gshards, k - 1), glog[k])
          BY <1>0, <4>1 DEF LogInv
        <5>2. QED
          BY <1>0, <4>1, <5>1 DEF after
      <4> HIDE DEF k, s, e
      <4>5. Len(s.data) + 1 \in DOMAIN Append(s.data, c) /\ Append(s.data, c)[Len(s.data) + 1] = c
        BY <4>2
      <4>6. Len(s.data) + 1 \in DOMAIN after(gshards, k).data
            /\ after(gshards, k).data[Len(s.data) + 1] = c
        BY <4>3, <4>4, <4>5
      <4>7. QED
        BY <4>4, <4>6
    <3>3. QED
      BY <3>1, <3>2
  <2>2. QED
    BY <1>2, <2>1 DEF Extends
<1>5. ASSUME NEW c \in Cmds, "epoch" \in ToSet(replies'[c])
      PROVE  \E x \in 1 .. gcommit' : /\ glog'[x].cmd = c
                                      /\ ~checkEpoch(after(gshards', x - 1).epoch, glog'[x])
  <2>1. PICK x \in 1 .. gcommit : /\ glog[x].cmd = c
                                  /\ ~checkEpoch(after(gshards, x - 1).epoch, glog[x])
    <3>1. CASE "epoch" \in ToSet(replies[c])
      BY <3>1 DEF ToldInv
    <3>2. CASE "epoch" \notin ToSet(replies[c])
      <4>1. /\ dApplied + 1 \in 1 .. gcommit /\ c = glog[dApplied + 1].cmd
            /\ "epoch" = (IF checkEpoch(after(gshards, dApplied).epoch, glog[dApplied + 1])
                          THEN "ok" ELSE "epoch")
            /\ dApplied \in 0 .. gcommit
        BY <1>3, <1>5, <3>2
      <4>2. (dApplied + 1) - 1 = dApplied
        BY <1>0, <4>1
      <4>3. ~checkEpoch(after(gshards, (dApplied + 1) - 1).epoch, glog[dApplied + 1])
        BY <4>1, <4>2
      <4>4. QED
        BY <4>1, <4>3
    <3>3. QED
      BY <3>1, <3>2
  <2>2. x \in 1 .. gcommit' /\ x - 1 \in 0 .. gcommit
    BY <1>0
  <2>3. glog'[x] = glog[x] /\ after(gshards', x - 1) = after(gshards, x - 1)
    BY <1>0, <1>1, <2>2 DEF Stays
  <2>4. QED
    BY <2>1, <2>2, <2>3
<1>6. QED
  BY <1>4, <1>5 DEF ToldInv


----------------------------------------------------------------------------
(* The invariant of the pipeline, and what it shows.                       *)

PipelineInv == LogsInv /\ SnapshotInv /\ HistoryInv /\ PlanInv /\ ToldInv

LEMMA InitPipelineInv == Init => PipelineInv
<1>1. SUFFICES ASSUME Init PROVE PipelineInv
  OBVIOUS
<1>2. LogsInv
  BY <1>1, InitLogsInv
<1>3. /\ gcommit = 0 /\ after(gshards, 0).data = <<>> /\ after(gshards, 0).epoch = 0
      /\ DOMAIN <<>> = {}
  BY <1>1 DEF Init, RaftInit, after, NewShard
<1>4. HistoryInv
  <2>1. SUFFICES ASSUME NEW k \in 0 .. gcommit
                 PROVE  /\ HistoryOf(k, glog, gshards)
                        /\ Extends(after(gshards, k).data, after(gshards, gcommit).data)
    BY DEF HistoryInv
  <2>2. k = 0
    BY <1>3
  <2>3. after(gshards, k).data = <<>>
    BY <1>3, <2>2
  <2>4. QED
    BY <1>3, <2>3 DEF HistoryOf, Extends
<1>5. ToldInv
  <2>1. \A c \in Cmds : replies[c] = <<>>
    BY <1>1 DEF Init
  <2>2. ToSet(<<>>) = {}
    BY DEF ToSet
  <2>3. QED
    BY <2>1, <2>2 DEF ToldInv
<1>6. PlanInv
  <2>1. /\ Len(jobs) = 1 /\ jobs[1].kind = "register" /\ jobs[1].applied = 0
        /\ jobs[1].epoch = 0
    BY <1>1 DEF Init, registrationJob
  <2>2. PICK h \in [0 .. Len(jobs) -> Nat] : h[0] = 0 /\ h[1] = 0
    <3> DEFINE h == [i \in 0 .. Len(jobs) |-> 0]
    <3>1. h \in [0 .. Len(jobs) -> Nat] /\ h[0] = 0 /\ h[1] = 0
      BY <2>1
    <3>2. QED
      BY <3>1, Zenon
  <2>3. Queue(h, jobs, glog, gshards)
    <3>1. \A i, j \in 0 .. Len(jobs) : i <= j => h[i] <= h[j]
      BY <2>1, <2>2
    <3>2. \A k \in 1 .. Len(jobs) : Covers(jobs[k], h[k - 1], h[k], glog, gshards)
      <4>1. Covers(jobs[1], h[0], h[1], glog, gshards)
        BY <1>3, <2>1, <2>2 DEF Covers
      <4>2. SUFFICES ASSUME NEW k \in 1 .. Len(jobs)
                     PROVE  Covers(jobs[k], h[k - 1], h[k], glog, gshards)
        OBVIOUS
      <4>3. k = 1 /\ k - 1 = 0
        BY <2>1
      <4>4. QED
        BY <4>1, <4>3
    <3>3. QED
      BY <2>1, <3>1, <3>2 DEF Queue
  <2>4. Ahead(h, jobs, places)
    BY <2>1 DEF Ahead
  <2>5. lastReady = 0 /\ ReadyInv /\ ~fatal
    BY <1>1 DEF Init, RaftInit, ReadyInv
  <2>6. ~Queued(jobs, "snapshot") /\ Queued(jobs, "register")
    <3>1. 1 \in 1 .. Len(jobs) /\ \A i \in 1 .. Len(jobs) : i = 1
      BY <2>1
    <3>2. QED
      BY <2>1, <3>1 DEF Queued
  <2>7. DelegateInv(h[0])
    BY <1>1, <1>3, <2>2, <2>6 DEF Init, DelegateInv
  <2>8. ResultsInv(h)
    <3>1. results = <<>> /\ psApplied = 0 /\ Len(results) = 0
      BY <1>1 DEF Init
    <3>2. QED
      BY <2>1, <2>2, <2>6, <3>1 DEF ResultsInv
  <2>9. Written(data, h[0], glog)
    BY <1>1 DEF Init, Written
  <2>10. Plan(h)
    BY <2>1, <2>2, <2>3, <2>4, <2>5, <2>7, <2>8, <2>9 DEF Plan
  <2>11. QED
    BY <2>5, <2>10 DEF PlanInv
<1>7. SnapshotInv
  <2>1. Len(jobs) = 1 /\ jobs[1].kind = "register" /\ snapPend = 0
    BY <1>1 DEF Init, RaftInit, registrationJob
  <2>2. \A i \in 1 .. Len(jobs) : jobs[i].kind # "snapshot"
    BY <2>1
  <2>3. QED
    BY <2>1, <2>2 DEF SnapshotInv, Queued, OneSnapshot
<1>8. QED
  BY <1>2, <1>4, <1>5, <1>6, <1>7 DEF PipelineInv

LEMMA NextKeepsPipelineInv ==
    ASSUME PipelineInv, [Next]_vars
    PROVE  PipelineInv'
<1>1. LogsInv /\ SnapshotInv /\ HistoryInv /\ PlanInv /\ ToldInv
  BY DEF PipelineInv
<1>2. LogsInv'
  BY <1>1, NextKeepsLogsInv
<1>3. HistoryInv'
  BY <1>1, <1>2, NextKeepsHistory
<1>4. PlanInv'
  BY <1>1, <1>2, NextKeepsPlan
<1>5. ToldInv'
  BY <1>1, <1>3, NextKeepsTold
<1>6. SnapshotInv'
  <2>1. TypeInv
    BY <1>1, ReplyInvParts DEF LogsInv
  <2>2. QED
    BY <1>1, <2>1, NextKeepsSnapshot
<1>7. QED
  BY <1>2, <1>3, <1>4, <1>5, <1>6 DEF PipelineInv

LEMMA PipelineInvHolds == Spec => []PipelineInv
<1>1. Init => PipelineInv
  BY InitPipelineInv
<1>2. PipelineInv /\ [Next]_vars => PipelineInv'
  BY NextKeepsPipelineInv
<1>3. QED
  BY <1>1, <1>2, PTL DEF Spec

\* Neither Fatalf of the pipeline is reached: the jobs in the queue continue
\* one another and what the delegate applied (doApplyCommittedEntries), and no
\* result is left when a snapshot is queued (doPostApply).
THEOREM PipelineNeverFatal == Spec => []NoFatal
<1>1. PipelineInv => NoFatal
  BY DEF PipelineInv, PlanInv, NoFatal
<1>2. QED
  BY <1>1, PipelineInvHolds, PTL

\* A step of the delegate.
LEMMA AppliedGrows ==
    ASSUME PipelineInv, [Next]_vars
    PROVE  dApplied' >= dApplied
<1>0. LogsInv /\ ReadyInv /\ dApplied \in Nat
  BY ReplyInvParts DEF PipelineInv, PlanInv, LogsInv, TypeInv, TypeOK
<1>1. PICK h \in [0 .. Len(jobs) -> Nat] : Plan(h)
  BY DEF PipelineInv, PlanInv
<1>2. CASE DoRegistrationJob
  <2>1. jobs # <<>> /\ Head(jobs).kind = "register" /\ dApplied' = Head(jobs).applied
    BY <1>2 DEF DoRegistrationJob, nextJob
  <2>2. /\ Covers(Head(jobs), h[0], h[1], glog', gshards')
        /\ h[0] \in Nat /\ h[1] \in Nat /\ h[0] <= h[1] /\ dApplied <= h[0]
    BY <1>0, <1>1, <2>1, FirstJob
  <2>3. dApplied' = h[1]
    BY <2>1, <2>2 DEF Covers
  <2>4. QED
    BY <1>0, <2>2, <2>3
<1>3. CASE DoApplyCommittedEntries
  BY <1>0, <1>3 DEF DoApplyCommittedEntries, applyEntry
<1>4. CASE ~DoRegistrationJob /\ ~DoApplyCommittedEntries
  <2>1. UNCHANGED dApplied
    BY <1>4 DEF Next, Loop, Worker, Submit, LoopStart, LoopStop, HandleApplyResult, HandleRequest,
       ProposeRefused, ProposeForwarded, ProposeAppended, SkipReady, SnapshotReady, HandleReady,
       HandleStep, DoPropose, DoApplyingSnapshotJob, DoDestroy, RetryMustDestroy, RemovePR,
       HandleGCPeerMsg, Group, vars, delegateVars
  <2>2. QED
    BY <1>0, <2>1
<1>5. QED
  BY <1>2, <1>3, <1>4

\* The delegate never goes back: a registration that waits behind a snapshot
\* carries what the entries before it reach, or more.
THEOREM DelegateNeverGoesBack == Spec => AppliedNeverGoesBack
<1>1. PipelineInv /\ [Next]_vars => [dApplied' >= dApplied]_dApplied
  BY AppliedGrows
<1>2. QED
  BY <1>1, PipelineInvHolds, PTL DEF Spec, AppliedNeverGoesBack


LEMMA PipelineInvGivesData == PipelineInv => DataMatchesLog
<1>1. SUFFICES ASSUME PipelineInv, registered, intact,
                      \A i \in DOMAIN jobs : jobs[i].kind # "register"
               PROVE  /\ dApplied <= gcommit
                      /\ shardAt(dApplied) = [epoch |-> dEpoch, data |-> data]
  BY DEF DataMatchesLog
<1>2. /\ TypeInv /\ LogInv /\ ReadyInv /\ jobs \in Seq(Job) /\ Len(jobs) \in Nat
      /\ DOMAIN jobs = 1 .. Len(jobs) /\ lastReady \in Nat /\ psCommit \in Nat
      /\ rcommit \in Nat /\ gcommit \in Nat /\ dApplied \in Nat
  <2>1. TypeInv /\ LogInv /\ ReadyInv
    BY <1>1, ReplyInvParts DEF PipelineInv, LogsInv, PlanInv
  <2>2. QED
    BY <2>1, LenProperties DEF TypeInv, TypeOK, RaftTypeOK
<1>3. PICK h \in [0 .. Len(jobs) -> Nat] : Plan(h)
  BY <1>1 DEF PipelineInv, PlanInv
<1>4. ~Queued(jobs, "register") /\ ~Queued(jobs, "snapshot")
  <2>1. ~Queued(jobs, "register")
    BY <1>1, <1>2 DEF Queued
  <2>2. QED
    BY <1>3, <2>1 DEF Queued, Plan, Queue
<1>5. /\ dApplied = h[0] /\ dEpoch = after(gshards, dApplied).epoch
      /\ data = after(gshards, h[0]).data
  BY <1>1, <1>3, <1>4 DEF Plan, DelegateInv
<1>6. dApplied <= gcommit
  <2>1. h[0] <= h[Len(jobs)] /\ h[Len(jobs)] = lastReady
    BY <1>2, <1>3 DEF Plan, Queue
  <2>2. QED
    BY <1>2, <1>5, <2>1 DEF ReadyInv, LogInv
<1>7. dApplied \in 0 .. gcommit
  BY <1>2, <1>6
<1>8. after(gshards, dApplied) = shardAt(dApplied) /\ after(gshards, dApplied) \in Shard
  BY <1>2, <1>7, AfterType
<1>9. QED
  BY <1>5, <1>6, <1>8 DEF Shard

\* Whatever snapshots, restarts of the delegate and leader changes came
\* before, a registered delegate holds exactly what the chosen entries up to
\* its applied index give.
THEOREM ReplicaMatchesLog == Spec => []DataMatchesLog
BY PipelineInvGivesData, PipelineInvHolds, PTL

LEMMA PipelineInvGivesFiled == PipelineInv => FiledBeforeApplied
<1>1. SUFFICES ASSUME PipelineInv, NEW i \in DOMAIN jobs, jobs[i].kind = "propose"
               PROVE  /\ jobs[i].cmd \notin ToSet(data)
                      /\ \A j \in 1 .. i - 1 :
                            /\ jobs[j].kind = "apply" => jobs[i].cmd \notin cmdsOf(jobs[j].entries)
                            /\ jobs[j].kind = "snapshot" =>
                                  jobs[i].cmd \notin ToSet(jobs[j].shard.data)
  BY DEF FiledBeforeApplied
<1>2. /\ TypeInv /\ LogInv /\ ReadyInv /\ HistoryInv /\ jobs \in Seq(Job) /\ Len(jobs) \in Nat
      /\ i \in 1 .. Len(jobs) /\ lastReady \in Nat /\ psCommit \in Nat
      /\ rcommit \in Nat /\ gcommit \in Nat /\ glog \in Seq(Entry) /\ Len(glog) \in Nat
      /\ gcommit <= Len(glog) /\ data \in Seq(Cmds \cup Others)
  <2>1. TypeInv /\ LogInv /\ ReadyInv /\ HistoryInv
    BY <1>1, ReplyInvParts DEF PipelineInv, LogsInv, PlanInv
  <2>2. QED
    BY <1>1, <2>1, LenProperties DEF TypeInv, TypeOK, RaftInv, RaftTypeOK
<1>3. PICK h \in [0 .. Len(jobs) -> Nat] : Plan(h)
  BY <1>1 DEF PipelineInv, PlanInv
<1> DEFINE c == jobs[i].cmd
<1>4. c \in Cmds
  BY <1>1, <1>2, ElementOfSeq, JobType
<1>5. \A m, n \in 0 .. Len(jobs) : m <= n => h[m] <= h[n]
  BY <1>3 DEF Plan, Queue
<1>6. \A m \in 0 .. Len(jobs) : h[m] \in Nat /\ h[m] <= gcommit
  <2>1. SUFFICES ASSUME NEW m \in 0 .. Len(jobs) PROVE h[m] \in Nat /\ h[m] <= gcommit
    OBVIOUS
  <2>2. h[m] \in Nat /\ h[m] <= lastReady
    <3>1. h[Len(jobs)] = lastReady
      BY <1>3 DEF Plan
    <3>2. Len(jobs) \in 0 .. Len(jobs) /\ m <= Len(jobs)
      BY <1>2
    <3>3. QED
      BY <1>5, <3>1, <3>2
  <2>3. QED
    BY <1>2, <2>2 DEF ReadyInv, LogInv
<1> HIDE DEF c
\* Nothing given out before the proposal was queued is its command.
<1>7. ASSUME NEW x \in 1 .. h[i], glog[x].cmd = c PROVE FALSE
  <2>1. h[i] \in Nat /\ h[i] <= gcommit
    BY <1>2, <1>6
  <2>2. x \in 1 .. Len(glog) /\ x \in Nat
    BY <1>2, <1>7, <2>1
  <2>3. InLog(glog[x], x) /\ glog[x] \in Entry
    BY <1>2, <2>2, ElementOfSeq DEF InLog
  <2>4. x \in places[c]
    BY <1>4, <1>7, <2>2, <2>3 DEF places
  <2>5. h[i] < x
    BY <1>1, <1>2, <1>3, <2>4 DEF Plan, Ahead, c
  <2>6. QED
    BY <1>7, <2>1, <2>5
<1>8. c \notin ToSet(data)
  <2>1. SUFFICES ASSUME NEW k \in DOMAIN data, data[k] = c PROVE FALSE
    BY DEF ToSet
  <2>2. PICK x \in 1 .. h[0] : glog[x].cmd = c
    BY <1>3, <1>4, <2>1 DEF Plan, Written
  <2>3. x \in 1 .. h[i]
    <3>1. 0 \in 0 .. Len(jobs) /\ i \in 0 .. Len(jobs) /\ 0 <= i
      BY <1>2
    <3>2. h[0] <= h[i] /\ h[0] \in Nat /\ h[i] \in Nat
      BY <1>5, <1>6, <3>1
    <3>3. QED
      BY <2>2, <3>2
  <2>4. QED
    BY <1>7, <2>2, <2>3
<1>9. ASSUME NEW j \in 1 .. i - 1
      PROVE  /\ jobs[j].kind = "apply" => c \notin cmdsOf(jobs[j].entries)
             /\ jobs[j].kind = "snapshot" => c \notin ToSet(jobs[j].shard.data)
  <2>1. /\ j \in 1 .. Len(jobs) /\ j \in 0 .. Len(jobs) /\ j - 1 \in 0 .. Len(jobs)
        /\ i \in 0 .. Len(jobs) /\ j <= i
    BY <1>2
  <2>2. /\ h[j] <= h[i] /\ h[j - 1] \in Nat /\ h[j] \in Nat /\ h[i] \in Nat /\ h[j] <= gcommit
        /\ jobs[j] \in Job
    BY <1>2, <1>5, <1>6, <2>1, ElementOfSeq
  <2>3. Covers(jobs[j], h[j - 1], h[j], glog, gshards)
    BY <1>3, <2>1 DEF Plan, Queue
  <2>4. ASSUME jobs[j].kind = "apply", c \in cmdsOf(jobs[j].entries) PROVE FALSE
    <3> DEFINE es == jobs[j].entries
    <3>1. es \in Seq(Entry) /\ DOMAIN es = 1 .. Len(es) /\ Len(es) \in Nat
      BY <2>2, <2>4, JobType, LenProperties
    <3>2. /\ h[j] = h[j - 1] + Len(es)
          /\ \A k \in 1 .. Len(es) : es[k] = glog[h[j - 1] + k]
      BY <2>3, <2>4 DEF Covers
    <3>3. PICK k \in DOMAIN es : es[k].cmd = c
      BY <2>4 DEF cmdsOf
    <3> HIDE DEF es
    <3>4. k \in 1 .. Len(es)
      BY <3>1
    <3>5. glog[h[j - 1] + k].cmd = c
      <4>1. es[k] = glog[h[j - 1] + k]
        BY <3>2, <3>4
      <4>2. QED
        BY <3>3, <4>1
    <3>6. h[j - 1] + k \in 1 .. h[i]
      <4>1. h[j] = h[j - 1] + Len(es) /\ Len(es) \in Nat
        BY <3>1, <3>2
      <4>2. QED
        BY SMTT(30), <2>2, <3>4, <4>1
    <3>7. QED
      BY <1>7, <3>5, <3>6
  <2>5. ASSUME jobs[j].kind = "snapshot", c \in ToSet(jobs[j].shard.data) PROVE FALSE
    <3>1. jobs[j].shard = after(gshards, h[j])
      BY <2>3, <2>5 DEF Covers
    <3>2. PICK k \in DOMAIN after(gshards, h[j]).data : after(gshards, h[j]).data[k] = c
      BY <2>5, <3>1 DEF ToSet
    <3>3. HistoryOf(h[j], glog, gshards)
      BY <1>2, <2>2 DEF HistoryInv
    <3>4. PICK x \in 1 .. h[j] : glog[x].cmd = c
      BY <1>4, <3>2, <3>3 DEF HistoryOf, Executed
    <3>5. x \in 1 .. h[i]
      BY <2>2
    <3>6. QED
      BY <1>7, <3>4, <3>5
  <2>6. QED
    BY <2>4, <2>5
<1>10. QED
  BY <1>8, <1>9 DEF c

\* The job that files a callback is in the queue before the job that executes
\* its command, although the one is queued by propose and the other, after the
\* entry came back committed, by handleReady.
THEOREM CallbackFiledFirst == Spec => []FiledBeforeApplied
BY PipelineInvGivesFiled, PipelineInvHolds, PTL

\* The writes the group has executed, once more.
LEMMA ExecutedCommands ==
    ASSUME PipelineInv
    PROVE  /\ TypeInv /\ LogsInv /\ HistoryOf(gcommit, glog, gshards) /\ gcommit \in Nat
           /\ after(gshards, gcommit) = shardAt(gcommit) /\ gcommit <= Len(glog)
           /\ glog \in Seq(Entry)
<1>1. TypeInv /\ LogsInv /\ HistoryInv
  BY ReplyInvParts DEF PipelineInv, LogsInv
<1>2. gcommit \in Nat /\ gcommit <= Len(glog) /\ glog \in Seq(Entry)
  BY <1>1 DEF TypeInv, RaftInv, RaftTypeOK
<1>3. gcommit \in 0 .. gcommit
  BY <1>2
<1>4. HistoryOf(gcommit, glog, gshards)
  BY <1>1, <1>3 DEF HistoryInv
<1>5. QED
  BY <1>1, <1>2, <1>3, <1>4, AfterType

LEMMA PipelineInvGivesOk == PipelineInv => OkMeansExecutedOnce
<1>1. SUFFICES ASSUME PipelineInv, NEW c \in Cmds, "ok" \in ToSet(replies[c])
               PROVE  \E i \in DOMAIN shardAt(gcommit).data : executed(c) = {i}
  BY DEF OkMeansExecutedOnce
<1> DEFINE d == shardAt(gcommit).data
<1>2. /\ after(gshards, gcommit) = shardAt(gcommit) /\ HistoryOf(gcommit, glog, gshards)
  BY <1>1, ExecutedCommands
<1>3. PICK i \in DOMAIN d : d[i] = c
  BY <1>1, <1>2 DEF PipelineInv, ToldInv
<1>4. \A j \in DOMAIN d : d[j] = c => j = i
  BY <1>1, <1>2, <1>3 DEF HistoryOf
<1>5. executed(c) = {i}
  BY <1>3, <1>4 DEF executed
<1>6. QED
  BY <1>3, <1>5

\* A client told ok can rely on it: the command was executed by the group,
\* once, whatever the other callbacks, leaders and snapshots did.
THEOREM OkIsExecutedOnce == Spec => []OkMeansExecutedOnce
BY PipelineInvGivesOk, PipelineInvHolds, PTL

LEMMA PipelineInvGivesRefused == PipelineInv => RefusedNeverExecuted
<1>1. SUFFICES ASSUME PipelineInv, NEW c \in Cmds,
                      NEW b \in {"epoch", "rejected", "storeNotMatch"}, b \in ToSet(replies[c]),
                      NEW i \in DOMAIN shardAt(gcommit).data, shardAt(gcommit).data[i] = c
               PROVE  FALSE
  BY DEF RefusedNeverExecuted, executed
<1>2. /\ after(gshards, gcommit) = shardAt(gcommit) /\ HistoryOf(gcommit, glog, gshards)
      /\ gcommit \in Nat /\ gcommit <= Len(glog) /\ glog \in Seq(Entry) /\ LogsInv
  BY <1>1, ExecutedCommands
<1>3. PICK x \in 1 .. gcommit :
          glog[x].cmd = c /\ checkEpoch(after(gshards, x - 1).epoch, glog[x])
  BY <1>1, <1>2 DEF HistoryOf, Executed
<1>4. \A y \in 1 .. gcommit : InLog(glog[y], y) /\ glog[y] \in Entry /\ y \in Nat
  <2>1. SUFFICES ASSUME NEW y \in 1 .. gcommit
                 PROVE  InLog(glog[y], y) /\ glog[y] \in Entry /\ y \in Nat
    OBVIOUS
  <2>2. y \in 1 .. Len(glog)
    BY <1>2, LenProperties
  <2>3. QED
    BY <1>2, <2>2, ElementOfSeq DEF InLog
<1>5. CASE b \in {"rejected", "storeNotMatch"}
  <2>1. refused(c)
    BY <1>1, <1>5 DEF refused
  <2>2. Unlogged(c)
    BY <1>2, <2>1 DEF LogsInv, OnceInv
  <2>3. QED
    BY <1>3, <1>4, <2>2 DEF Unlogged
<1>6. CASE b = "epoch"
  <2>1. PICK y \in 1 .. gcommit :
            glog[y].cmd = c /\ ~checkEpoch(after(gshards, y - 1).epoch, glog[y])
    BY <1>1, <1>6 DEF PipelineInv, ToldInv
  <2>2. LoggedOnce
    BY <1>2 DEF LogsInv, OnceInv
  <2>3. x = y
    BY <1>1, <1>3, <1>4, <2>1, <2>2 DEF LoggedOnce
  <2>4. QED
    BY <1>3, <2>1, <2>3
<1>7. QED
  BY <1>1, <1>5, <1>6

\* A client told that its command was refused may send it again: no replica
\* has executed it, and none will.
THEOREM RefusedIsNeverExecuted == Spec => []RefusedNeverExecuted
BY PipelineInvGivesRefused, PipelineInvHolds, PTL
=============================================================================
