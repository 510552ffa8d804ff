---------------------------- MODULE IdAllocator ----------------------------
(***************************************************************************)
(* AllocID of components/prophet/storage/kv_etcd.go: every prophet node    *)
(* takes a range of ids from a counter in etcd and then hands them out     *)
(* from memory.  The counter is changed by a transaction that compares the *)
(* leader key and the value read before; a node keeps its range when it    *)
(* loses leadership and uses it up when it leads again.                    *)
(***************************************************************************)
EXTENDS Integers, Sequences

CONSTANTS
    Nodes,     \* the prophet nodes
    NoNode,    \* no leader
    idBatch,   \* how many ids a node takes at once
    MaxID      \* bound on the counter

ASSUME IdAssumption ==
    /\ NoNode \notin Nodes
    /\ idBatch \in Nat \ {0}
    /\ MaxID \in Nat

VARIABLES
    leader,    \* whose value the leader key holds
    stored,    \* the counter in etcd, 0 while it does not exist
    base, end, \* etcdKV.base and etcdKV.end of each node
    seen,      \* what generate read, while it waits for its transaction, or -1
    issued     \* the ids AllocID returned, in order

vars == <<leader, stored, base, end, seen, issued>>

Init ==
    /\ leader = NoNode
    /\ stored = 0
    /\ base = [n \in Nodes |-> 0] /\ end = [n \in Nodes |-> 0]
    /\ seen = [n \in Nodes |-> -1]
    /\ issued = <<>>

\* The leader key changes hands, or is nobody's for a while.
LeaderChange ==
    /\ leader' \in (Nodes \cup {NoNode}) \ {leader}
    /\ UNCHANGED <<stored, base, end, seen, issued>>

\* AllocID with ids left in the range.
AllocID(n) ==
    /\ seen[n] = -1 /\ base[n] # end[n]
    /\ base' = [base EXCEPT ![n] = @ + 1]
    /\ issued' = Append(issued, base[n] + 1)
    /\ UNCHANGED <<leader, stored, end, seen>>

\* AllocID with none left: generate reads the counter.
GetID(n) ==
    /\ seen[n] = -1 /\ base[n] = end[n]
    /\ stored + idBatch <= MaxID
    /\ seen' = [seen EXCEPT ![n] = stored]
    /\ UNCHANGED <<leader, stored, base, end, issued>>

\* Mutant of txnSucceeds: the value read before is not compared.
txnSucceeds_noCompare(n) == leader = n /\ stored + idBatch <= MaxID

\* createID and updateID: the leader key is this node's, and the counter is
\* still what generate read (or still does not exist).
txnSucceeds(n) == leader = n /\ stored = seen[n]

\* Mutant of newBase: the range that was used up is not left.
newBase_kept(n) == base[n]

\* Where the new range starts.
newBase(n) == (seen[n] + idBatch) - idBatch

\* generate's transaction succeeds, and AllocID returns the first id of the
\* new range.
Generate(n) ==
    /\ seen[n] # -1 /\ txnSucceeds(n)
    /\ stored' = seen[n] + idBatch
    /\ end' = [end EXCEPT ![n] = seen[n] + idBatch]
    /\ base' = [base EXCEPT ![n] = newBase(n) + 1]
    /\ issued' = Append(issued, newBase(n) + 1)
    /\ seen' = [seen EXCEPT ![n] = -1]
    /\ UNCHANGED leader

\* AllocID returns an error: the transaction failed, or it was executed and
\* the answer was lost.
GenerateFails(n) ==
    /\ seen[n] # -1
    /\ \/ UNCHANGED stored
       \/ txnSucceeds(n) /\ stored' = seen[n] + idBatch
    /\ seen' = [seen EXCEPT ![n] = -1]
    /\ UNCHANGED <<leader, base, end, issued>>

\* The node restarts: its range is lost.
Restart(n) ==
    /\ base' = [base EXCEPT ![n] = 0] /\ end' = [end EXCEPT ![n] = 0]
    /\ seen' = [seen EXCEPT ![n] = -1]
    /\ UNCHANGED <<leader, stored, issued>>

Next ==
    \/ LeaderChange
    \/ \E n \in Nodes :
          AllocID(n) \/ GetID(n) \/ Generate(n) \/ GenerateFails(n) \/ Restart(n)

Spec == Init /\ [][Next]_vars

----------------------------------------------------------------------------
\* AllocID never returns an id twice, on whatever nodes it runs: not after a
\* change of leader, a lost answer of etcd or a restart.
IdsDistinct == \A i, j \in DOMAIN issued : issued[i] = issued[j] => i = j

\* The ids a node still has in memory are its own: they are below the counter,
\* in no other node's range, and were not returned before.
RangesOwned ==
    \A n \in Nodes :
        /\ end[n] <= stored
        /\ \A m \in Nodes \ {n} : end[m] <= base[n] \/ end[n] <= base[m]
                                  \/ base[n] = end[n] \/ base[m] = end[m]
        /\ \A i \in DOMAIN issued : issued[i] <= base[n] \/ issued[i] > end[n]
=============================================================================
