----------------------------- MODULE ApplyRules -----------------------------
(***************************************************************************)
(* What applying one committed entry does to a shard: the epoch check of   *)
(* raftstore/store.go and the two kinds of command the pipeline tells      *)
(* apart, a write and a BatchSplit (which bumps the Version of the epoch). *)
(***************************************************************************)
EXTENDS Integers, Sequences, SequencesExt

CONSTANTS
    Cmds,        \* commands submitted through this replica
    Others,      \* commands other replicas of the group propose
    Splits,      \* the commands among Cmds that are BatchSplit admin requests
    IgnoreEpoch, \* the writes submitted with IgnoreEpochCheck
    Empty        \* what the entry a new leader appends carries

ASSUME CommandsAssumption ==
    /\ Splits \subseteq Cmds
    /\ IgnoreEpoch \subseteq Cmds \ Splits
    /\ Cmds \cap Others = {}
    /\ Empty \notin Cmds \cup Others

\* An entry: the term it was appended in, its command, and the epoch Version
\* in the header of the command.
Entry == [term : Nat, cmd : Cmds \cup Others \cup {Empty}, epoch : Nat]

\* A shard: its epoch Version and the writes executed on its data, in order.
Shard == [epoch : Nat, data : Seq(Cmds \cup Others)]

\* checkEpoch: writes and splits check the Version unless told not to.
checkEpoch(epoch, e) == e.cmd \in IgnoreEpoch \/ e.epoch >= epoch

\* doExecSplit: one new shard, so the Version of the derived shard grows by
\* one.  The requests are well formed: a key outside the shard changes nothing.
doExecSplit(s) == [epoch |-> s.epoch + 1, data |-> s.data]

\* execWriteRequest: the write handler changes the data.
execWriteRequest(s, e) == [epoch |-> s.epoch, data |-> Append(s.data, e.cmd)]

\* Mutant of execEntry: a write of a stale epoch is executed.
execEntry_noCheck(s, e) ==
    CASE e.cmd = Empty -> s
      [] e.cmd \in Splits -> IF checkEpoch(s.epoch, e) THEN doExecSplit(s) ELSE s
      [] OTHER -> execWriteRequest(s, e)

\* doApplyRaftCMD on a shard: nothing for an empty entry or a stale epoch, a
\* new Version for a split, a write otherwise.
execEntry(s, e) ==
    CASE e.cmd = Empty \/ ~checkEpoch(s.epoch, e) -> s
      [] e.cmd \in Splits /\ checkEpoch(s.epoch, e) -> doExecSplit(s)
      [] OTHER -> execWriteRequest(s, e)

\* A shard just created.
NewShard == [epoch |-> 0, data |-> <<>>]
=============================================================================
