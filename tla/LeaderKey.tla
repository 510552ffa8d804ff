----------------------------- MODULE LeaderKey -----------------------------
(***************************************************************************)
(* What the prophet's election promises to the code that runs on a leader: *)
(* a node serves requests only while the leader key is its own.  It does   *)
(* not promise that the cluster and the jobs of a former leader are        *)
(* stopped: they are when the node finds another leader, and not before.   *)
(***************************************************************************)
EXTENDS Naturals

CONSTANTS
    Nodes,   \* the prophet nodes
    NoNode   \* no node

VARIABLES
    key,     \* whose value the leader key in etcd holds
    serving, \* the nodes that accept requests as leader (GetRaftCluster, IsLeader)
    running  \* the nodes whose cluster and jobs were started and not stopped

leaderVars == <<key, serving, running>>

LeaderInit == key = NoNode /\ serving = {} /\ running = {}

\* A campaign succeeds.
Acquire(n) ==
    /\ key = NoNode
    /\ key' = n
    /\ UNCHANGED <<serving, running>>

\* The key is deleted: resigned, or its lease expired.
Release ==
    /\ key # NoNode /\ key \notin serving
    /\ key' = NoNode
    /\ UNCHANGED <<serving, running>>

\* enableLeader: start the cluster and the jobs, unless they still run.  The
\* node serves if its lease is still good.
Begin(n) ==
    /\ running' = running \cup {n}
    /\ serving' \in {serving} \cup (IF key = n THEN {serving \cup {n}} ELSE {})
    /\ UNCHANGED key

\* A late answer of etcd extends the lease.
Resume(n) ==
    /\ n \in running /\ key = n
    /\ serving' = serving \cup {n}
    /\ UNCHANGED <<key, running>>

\* The lease is over, or the node gives leadership up.
End(n) ==
    /\ n \in serving
    /\ serving' = serving \ {n}
    /\ UNCHANGED <<key, running>>

\* disableLeader: the node finds another leader, and stops what it ran.
Follow(n) ==
    /\ key \notin {NoNode, n} /\ n \notin serving
    /\ running' = running \ {n}
    /\ UNCHANGED <<key, serving>>

\* The node restarts.
Restart(n) ==
    /\ serving' = serving \ {n} /\ running' = running \ {n}
    /\ UNCHANGED key

LeaderNext ==
    \/ Release
    \/ \E n \in Nodes :
          \/ Acquire(n) \/ Begin(n) \/ Resume(n)
          \/ End(n) \/ Follow(n) \/ Restart(n)

LeaderSpec == LeaderInit /\ [][LeaderNext]_leaderVars
=============================================================================
