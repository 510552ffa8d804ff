----------------------------- MODULE RaftGroup -----------------------------
(***************************************************************************)
(* The raft group of one shard, as raftstore/ uses it: the RawNode of the  *)
(* replica under study (role, term, leader, log, commit index, a received  *)
(* snapshot) and, summarised, the rest of the group.  The code modelled    *)
(* here is go.etcd.io/etcd/raft, an external library; what matters is what *)
(* peer_event_*.go observes of it: Status, Propose, Step, Tick, Ready.     *)
(*                                                                         *)
(* The rest of the group is the log of the newest elected leader (glog),   *)
(* its term, how much of it a quorum holds (gcommit), and whether that     *)
(* leader is this replica (gself).  Raft's own safety is assumed: a leader *)
(* always has every chosen entry.                                          *)
(***************************************************************************)
EXTENDS ApplyRules

CONSTANT MaxTerm      \* bound on elections: no term is higher

ASSUME MaxTermAssumption == MaxTerm \in Nat

VARIABLES
    glog, gcommit, gterm, gself,   \* the group
    gshards,                       \* the shard after each chosen entry
    net,                           \* proposals of this replica in flight to the leader
    role, rterm, rlead,            \* this RawNode's status
    rlog, rcommit,                 \* its log and commit index
    asked,                         \* the vote requests of this candidacy were sent
    snapPend,                      \* index of a received, unhandled snapshot, or 0
    snapFile                       \* its chunks are all on this store

groupVars == <<glog, gcommit, gterm, gself, gshards, net>>
nodeVars == <<role, rterm, rlead, rlog, rcommit, asked, snapPend, snapFile>>
raftVars == <<groupVars, nodeVars>>

EmptyEntry(t) == [term |-> t, cmd |-> Empty, epoch |-> 0]

RaftTypeOK ==
    /\ glog \in Seq(Entry)
    /\ gcommit \in Nat
    /\ gterm \in Nat
    /\ gself \in BOOLEAN
    /\ gshards \in Seq(Shard)
    /\ net \in SUBSET [cmd : Cmds, epoch : Nat]
    /\ role \in {"follower", "candidate", "leader"}
    /\ rterm \in Nat
    /\ rlead \in {"self", "other", "none"}
    /\ rlog \in Seq(Entry)
    /\ rcommit \in Nat
    /\ asked \in BOOLEAN
    /\ snapPend \in Nat
    /\ snapFile \in BOOLEAN

\* The entries the group has agreed on, for ever.
chosen == SubSeq(glog, 1, gcommit)

\* The shard after the first k of them: what a replica that applied k entries
\* must hold, and what a snapshot at index k carries.
shardAt(k) == IF k = 0 THEN NewShard ELSE gshards[k]

RaftInit ==
    /\ glog = <<>> /\ gcommit = 0 /\ gterm = 0 /\ gself = FALSE
    /\ gshards = <<>>
    /\ net = {}
    /\ role = "follower" /\ rterm = 0 /\ rlead = "none"
    /\ rlog = <<>> /\ rcommit = 0
    /\ asked = FALSE
    /\ snapPend = 0 /\ snapFile = FALSE

----------------------------------------------------------------------------
(* The rest of the group.                                                  *)

\* Another replica wins an election: its log holds the chosen entries and is
\* a part of one that was replicated before, or of this replica's.
OtherElected ==
    /\ \E t \in gterm + 1 .. MaxTerm :
       \E base \in {glog, rlog} :
       \E n \in gcommit .. Len(base) :
          /\ SubSeq(base, 1, gcommit) = chosen
          /\ glog' = Append(SubSeq(base, 1, n), EmptyEntry(t))
          /\ gterm' = t
    /\ gself' = FALSE
    /\ UNCHANGED <<gcommit, gshards, net, nodeVars>>

\* The leader, another replica, appends a command submitted elsewhere.
OtherAppend ==
    /\ ~gself /\ gterm > 0
    /\ \E o \in Others :
          /\ \A i \in DOMAIN glog : glog[i].cmd # o
          /\ \A i \in DOMAIN rlog : rlog[i].cmd # o
          /\ glog' = Append(glog, [term |-> gterm, cmd |-> o,
                                   epoch |-> shardAt(gcommit).epoch])
    /\ UNCHANGED <<gcommit, gterm, gself, gshards, net, nodeVars>>

\* The leader, another replica, appends a proposal this replica forwarded.
OtherAppendForwarded ==
    /\ ~gself /\ gterm > 0
    /\ \E p \in net :
          /\ glog' = Append(glog, [term |-> gterm, cmd |-> p.cmd, epoch |-> p.epoch])
          /\ net' = net \ {p}
    /\ UNCHANGED <<gcommit, gterm, gself, gshards, nodeVars>>

\* A quorum holds the next entry of the leader's log and, at or after it, one
\* of the leader's own term.
GroupCommit ==
    /\ \E n \in gcommit + 1 .. Len(glog) : glog[n].term = gterm
    /\ gcommit' = gcommit + 1
    /\ gshards' = Append(gshards, execEntry(shardAt(gcommit), glog[gcommit + 1]))
    /\ UNCHANGED <<glog, gterm, gself, net, nodeVars>>

\* The chunks of the snapshot this replica was sent are all received.
SnapshotFileArrives ==
    /\ snapPend # 0 /\ ~snapFile
    /\ snapFile' = TRUE
    /\ UNCHANGED <<groupVars, role, rterm, rlead, rlog, rcommit, asked, snapPend>>

GroupNext ==
    \/ OtherElected
    \/ OtherAppend
    \/ OtherAppendForwarded
    \/ GroupCommit
    \/ SnapshotFileArrives

----------------------------------------------------------------------------
(* Steps of this replica's RawNode: RawNode.Step and RawNode.Tick.         *)

\* The election timeout, or a request to campaign.  MaxTerm itself is left to
\* the other replicas, so that the group never runs out of terms leaderless.
Campaign ==
    /\ role # "leader" /\ snapPend = 0
    /\ rterm + 1 < MaxTerm
    /\ role' = "candidate" /\ rterm' = rterm + 1 /\ rlead' = "none"
    /\ asked' = FALSE
    /\ UNCHANGED <<groupVars, rlog, rcommit, snapPend, snapFile>>

\* The votes of a quorum: none of its members knows a newer leader or holds a
\* chosen entry this replica lacks.
Win ==
    /\ role = "candidate" /\ asked /\ snapPend = 0
    /\ rterm > gterm
    /\ IsPrefix(chosen, rlog)
    /\ role' = "leader" /\ rlead' = "self"
    /\ rlog' = Append(rlog, EmptyEntry(rterm))
    /\ glog' = rlog /\ gterm' = rterm /\ gself' = TRUE
    /\ UNCHANGED <<gcommit, gshards, net, rterm, rcommit, asked, snapPend, snapFile>>

\* A message of a higher term without a leader, or a lost quorum (CheckQuorum).
StepDown ==
    /\ role # "follower" \/ gterm > rterm
    /\ role' = "follower" /\ rlead' = "none"
    /\ rterm' \in {t \in {rterm, gterm} : t >= rterm}
    /\ UNCHANGED <<groupVars, rlog, rcommit, asked, snapPend, snapFile>>

\* MsgApp or MsgHeartbeat from the newest leader: its log is copied as far as
\* the message goes, a conflicting tail cut off, the commit index follows.
FollowLeader ==
    /\ ~gself /\ gterm > 0 /\ gterm >= rterm
    /\ role' = "follower" /\ rlead' = "other" /\ rterm' = gterm
    /\ \E n \in rcommit .. Len(glog) :
          /\ rlog' = IF IsPrefix(SubSeq(glog, 1, n), rlog)
                     THEN rlog ELSE SubSeq(glog, 1, n)
          /\ rcommit' \in {rcommit} \cup
                          (IF n < gcommit THEN rcommit .. n ELSE rcommit .. gcommit)
    /\ UNCHANGED <<groupVars, asked, snapPend, snapFile>>

\* MsgAppResp: the leader learns that a quorum has an entry of its term.
LearnCommit ==
    /\ role = "leader"
    /\ \E n \in rcommit + 1 .. gcommit :
          /\ n <= Len(rlog)
          /\ rlog[n].term = rterm
          /\ SubSeq(rlog, 1, n) = SubSeq(glog, 1, n)
          /\ rcommit' = n
    /\ UNCHANGED <<groupVars, role, rterm, rlead, rlog, asked, snapPend, snapFile>>

\* MsgProp: the leader appends a command forwarded by another replica.
RecvProp ==
    /\ role = "leader"
    /\ \E o \in Others :
          /\ \A i \in DOMAIN glog : glog[i].cmd # o
          /\ \A i \in DOMAIN rlog : rlog[i].cmd # o
          /\ rlog' = Append(rlog, [term |-> rterm, cmd |-> o,
                                   epoch |-> shardAt(gcommit).epoch])
    /\ UNCHANGED <<groupVars, role, rterm, rlead, rcommit, asked, snapPend, snapFile>>

\* MsgSnap: the log is replaced by the snapshot, which covers chosen entries
\* this replica does not hold.
RecvSnapshot ==
    /\ ~gself /\ gterm > 0 /\ gterm >= rterm
    /\ role' = "follower" /\ rlead' = "other" /\ rterm' = gterm
    /\ \E k \in rcommit + 1 .. gcommit :
          /\ ~IsPrefix(SubSeq(glog, 1, k), rlog)
          /\ rlog' = SubSeq(glog, 1, k)
          /\ rcommit' = k
          /\ snapPend' = k
    /\ snapFile' \in BOOLEAN
    /\ UNCHANGED <<groupVars, asked>>
=============================================================================
