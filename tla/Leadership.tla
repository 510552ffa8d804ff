---------------------------- MODULE Leadership ----------------------------
(***************************************************************************)
(* The prophet's leader election (components/prophet/election, member and  *)
(* prophet_leader.go): every node runs ElectionLoop against etcd, holds    *)
(* leadership by a lease it keeps alive, and compares the lease's expiry   *)
(* with its own clock before it serves a request.  etcd is external.       *)
(*                                                                         *)
(* Time is counted in ticks until something expires.  The local expiry is  *)
(* computed from the moment a request was sent, etcd's from the moment it  *)
(* was executed; clocks run at the same speed.  A request a node gave up   *)
(* on takes effect before the node's next one, or never.                   *)
(***************************************************************************)
EXTENDS Integers, FiniteSets

CONSTANTS
    Nodes,   \* the prophet nodes, all of them candidates
    NoNode,  \* no node
    TTL,     \* leaseSec, in ticks
    MaxCalls \* bound on the keep-alive requests a node has under way

ASSUME LeadershipAssumption ==
    NoNode \notin Nodes /\ TTL \in Nat \ {0} /\ MaxCalls \in Nat

VARIABLES
    key,       \* the leader key in etcd
    lease,     \* what etcd leaves of each node's current lease
    pc,        \* where ElectionLoop is
    obj,       \* Leadership.lease: none, new (no expireTime yet) or granted
    mine,      \* ticks to its expireTime
    calls,     \* its lease requests under way: ticks to TTL after it was sent,
               \* and whether etcd executed it
    lead,      \* Member.leader
    running    \* the RaftCluster and the jobs were started and not stopped

vars == <<key, lease, pc, obj, mine, calls, lead, running>>
leaseVars == <<lease, obj, mine, calls>>

Call == [left : 0 .. TTL, done : BOOLEAN]

\* The type of every variable; no lease, in etcd or on a node, ends more than
\* TTL from now (keepAlive).
TypeOK ==
    /\ key \in Nodes \cup {NoNode}
    /\ lease \in [Nodes -> 0 .. TTL]
    /\ pc \in [Nodes -> {"loop", "resign", "watch", "campaign", "grant", "put",
                         "enable", "lead"}]
    /\ obj \in [Nodes -> {"none", "new", "granted"}]
    /\ mine \in [Nodes -> 0 .. TTL]
    /\ calls \in [Nodes -> SUBSET Call]
    /\ lead \in [Nodes -> Nodes \cup {NoNode}]
    /\ running \in [Nodes -> BOOLEAN]

Init ==
    /\ key = NoNode
    /\ lease = [n \in Nodes |-> 0]
    /\ pc = [n \in Nodes |-> "loop"]
    /\ obj = [n \in Nodes |-> "none"]
    /\ mine = [n \in Nodes |-> 0]
    /\ calls = [n \in Nodes |-> {}]
    /\ lead = [n \in Nodes |-> NoNode]
    /\ running = [n \in Nodes |-> FALSE]

\* Member.IsLeader, asked only when the cluster is running (handleRPCRequest).
Serving(n) == running[n] /\ obj[n] = "granted" /\ mine[n] > 0 /\ lead[n] = n

----------------------------------------------------------------------------
(* Time and etcd.                                                          *)

less(t) == IF t > 0 THEN t - 1 ELSE 0

\* A keep-alive request times out after leaseTimeout; the grant waits longer.
Tick ==
    /\ lease' = [n \in Nodes |-> less(lease[n])]
    /\ mine' = [n \in Nodes |-> less(mine[n])]
    /\ calls' = [n \in Nodes |->
                    {[c EXCEPT !.left = less(@)] :
                        c \in {d \in calls[n] : d.left > 1 \/ pc[n] = "grant"}}]
    /\ UNCHANGED <<key, pc, obj, lead, running>>

\* etcd revokes the lease of the leader key, some time after it expired.
Expire ==
    /\ key # NoNode /\ lease[key] = 0
    /\ key' = NoNode
    /\ UNCHANGED <<leaseVars, pc, lead, running>>

----------------------------------------------------------------------------
(* ElectionLoop.                                                           *)

goto(n, where) == pc' = [pc EXCEPT ![n] = where]

\* CurrentLeader finds nobody, this node itself, or another leader: then
\* becomeFollower stops what the node ran, and the loop watches the key.
ReadLeader(n) ==
    /\ pc[n] = "loop"
    /\ \/ key = NoNode /\ goto(n, "campaign") /\ UNCHANGED <<lead, running>>
       \/ key = n /\ goto(n, "resign") /\ UNCHANGED <<lead, running>>
       \/ /\ key \notin {NoNode, n}
          /\ goto(n, "watch")
          /\ lead' = [lead EXCEPT ![n] = key]
          /\ running' = [running EXCEPT ![n] = FALSE]
    /\ UNCHANGED <<key, leaseVars>>

\* resign, when the key is a leftover of this node: it succeeds, the answer is
\* lost, or it fails.
Resign(n) ==
    /\ pc[n] = "resign"
    /\ \/ key = n /\ key' = NoNode /\ (goto(n, "campaign") \/ goto(n, "loop"))
       \/ UNCHANGED key /\ goto(n, "loop")
    /\ UNCHANGED <<leaseVars, lead, running>>

\* watch ends because the key was deleted or the watcher canceled.
WatchEnds(n) ==
    /\ pc[n] = "watch"
    /\ goto(n, "campaign")
    /\ lead' = [lead EXCEPT ![n] = NoNode]
    /\ UNCHANGED <<key, leaseVars, running>>

\* checkExpectLeader and the start of campaign: a new lease object replaces
\* the old one, and etcd is asked to grant it.
Campaign(n) ==
    /\ pc[n] = "campaign"
    /\ \/ /\ goto(n, "grant")
          /\ obj' = [obj EXCEPT ![n] = "new"]
          /\ lease' = [lease EXCEPT ![n] = 0] /\ mine' = [mine EXCEPT ![n] = 0]
          /\ calls' = [calls EXCEPT ![n] = {[left |-> TTL, done |-> FALSE]}]
       \/ goto(n, "loop") /\ UNCHANGED leaseVars
    /\ UNCHANGED <<key, lead, running>>

\* Mutant of expireTime: counted from when the answer is received.
expireTime_received(c) == TTL

\* The expireTime of a granted or renewed lease: TTL after the request was sent.
expireTime(c) == c.left

\* The answer to the grant: etcd executed it at some time since it was sent.
Grant(n) ==
    /\ pc[n] = "grant"
    /\ goto(n, "put")
    /\ obj' = [obj EXCEPT ![n] = "granted"]
    /\ \E c \in calls[n] :
          /\ \E left \in c.left .. TTL : lease' = [lease EXCEPT ![n] = left]
          /\ mine' = [mine EXCEPT ![n] = expireTime(c)]
    /\ calls' = [calls EXCEPT ![n] = {}]
    /\ UNCHANGED <<key, lead, running>>

\* The grant fails: campaign returns, and the new lease object stays.
GrantFails(n) ==
    /\ pc[n] = "grant"
    /\ goto(n, "loop")
    /\ calls' = [calls EXCEPT ![n] = {}]
    /\ UNCHANGED <<key, lease, obj, mine, lead, running>>

\* The transaction that creates the leader key succeeds.
PutKey(n) ==
    /\ pc[n] = "put" /\ key = NoNode /\ lease[n] > 0
    /\ key' = n
    /\ goto(n, "enable")
    /\ UNCHANGED <<leaseVars, lead, running>>

\* It fails, or its answer is lost: the lease is closed, which etcd may not
\* hear of.
PutFails(n) ==
    /\ pc[n] = "put"
    /\ \/ UNCHANGED key /\ (lease' = [lease EXCEPT ![n] = 0] \/ UNCHANGED lease)
       \/ key = NoNode /\ lease[n] > 0 /\ key' = n /\ UNCHANGED lease
    /\ mine' = [mine EXCEPT ![n] = 0]
    /\ goto(n, "loop")
    /\ UNCHANGED <<obj, calls, lead, running>>

\* becomeLeader: the node records itself as leader and starts the cluster and
\* the jobs, unless they still run from an earlier time.
Enable(n) ==
    /\ pc[n] = "enable"
    /\ goto(n, "lead")
    /\ lead' = [lead EXCEPT ![n] = n]
    /\ running' = [running EXCEPT ![n] = TRUE]
    /\ UNCHANGED <<key, leaseVars>>

\* becomeLeader returns false, because the cluster information cannot be
\* loaded: campaign returns, and nobody calls becomeFollower.
EnableFails(n) ==
    /\ pc[n] = "enable" /\ ~running[n]
    /\ goto(n, "loop")
    /\ lead' = [lead EXCEPT ![n] = n]
    /\ calls' = [calls EXCEPT ![n] = {}]
    /\ UNCHANGED <<key, lease, obj, mine, running>>

\* Mutant of StepDown: the node still takes itself for the leader.
StepDown_noFollower(n) ==
    /\ pc[n] = "lead"
    /\ goto(n, "loop")
    /\ calls' = [calls EXCEPT ![n] = {}]
    /\ UNCHANGED <<key, lease, obj, mine, lead, running>>

\* campaign's loop ends because the lease expired or the leader of etcd
\* changed: becomeFollower("") forgets the leader, and stops nothing.
StepDown(n) ==
    /\ pc[n] = "lead"
    /\ goto(n, "loop")
    /\ lead' = [lead EXCEPT ![n] = NoNode]
    /\ calls' = [calls EXCEPT ![n] = {}]
    /\ UNCHANGED <<key, lease, obj, mine, running>>

----------------------------------------------------------------------------
(* keepAlive, while the node leads.                                        *)

\* keepAliveWorker sends a request at every tick of its own, whether or not
\* the earlier ones were answered.
KeepAlive(n) ==
    /\ pc[n] \in {"enable", "lead"} /\ Cardinality(calls[n]) < MaxCalls
    /\ calls' = [calls EXCEPT ![n] = @ \cup {[left |-> TTL, done |-> FALSE]}]
    /\ UNCHANGED <<key, lease, obj, mine, pc, lead, running>>

\* etcd extends a lease that has not expired.
Renew(n) ==
    /\ pc[n] \in {"enable", "lead"} /\ lease[n] > 0
    /\ \E c \in calls[n] :
          /\ ~c.done
          /\ calls' = [calls EXCEPT ![n] = (@ \ {c}) \cup {[c EXCEPT !.done = TRUE]}]
    /\ lease' = [lease EXCEPT ![n] = TTL]
    /\ UNCHANGED <<key, obj, mine, pc, lead, running>>

\* Mutant of later: the answer that comes last counts.
later_last(t, c) == c.left

\* Mutant of later: an answer prolongs the lease from where it would end.
later_added(t, c) == t + expireTime(c)

\* keepAlive takes an answer over only if it is later than maxExpire.
later(t, c) == IF expireTime(c) > t THEN expireTime(c) ELSE t

\* The answers may come in any order.
Renewed(n) ==
    /\ \E c \in calls[n] :
          /\ c.done
          /\ mine' = [mine EXCEPT ![n] = later(@, c)]
          /\ calls' = [calls EXCEPT ![n] = @ \ {c}]
    /\ UNCHANGED <<key, lease, obj, pc, lead, running>>

\* A request or its answer is lost.
KeepAliveFails(n) ==
    /\ pc[n] # "grant"
    /\ \E c \in calls[n] : calls' = [calls EXCEPT ![n] = @ \ {c}]
    /\ UNCHANGED <<key, lease, obj, mine, pc, lead, running>>

\* The process restarts; what it has in etcd stays there.
Restart(n) ==
    /\ goto(n, "loop")
    /\ obj' = [obj EXCEPT ![n] = "none"] /\ mine' = [mine EXCEPT ![n] = 0]
    /\ calls' = [calls EXCEPT ![n] = {}]
    /\ lead' = [lead EXCEPT ![n] = NoNode]
    /\ running' = [running EXCEPT ![n] = FALSE]
    /\ UNCHANGED <<key, lease>>

----------------------------------------------------------------------------
Next ==
    \/ Tick
    \/ Expire
    \/ \E n \in Nodes :
          \/ ReadLeader(n) \/ Resign(n) \/ WatchEnds(n)
          \/ Campaign(n) \/ Grant(n) \/ GrantFails(n)
          \/ PutKey(n) \/ PutFails(n) \/ Enable(n) \/ EnableFails(n) \/ StepDown(n)
          \/ KeepAlive(n) \/ Renew(n) \/ Renewed(n) \/ KeepAliveFails(n)
          \/ Restart(n)

Spec == Init /\ [][Next]_vars

----------------------------------------------------------------------------
\* A node accepts requests as leader (handleRPCRequest) only while the leader
\* key is its own, so at most one node does: its clock runs out first.
ServingHoldsKey == \A n \in Nodes : Serving(n) => key = n

\* The clock argument behind it: a node never counts on more time than etcd
\* gives it, not even by an answer still on its way, and a campaigner that won
\* owns the key as long as etcd keeps its lease.
TimeIsEtcds ==
    \A n \in Nodes :
        /\ mine[n] <= lease[n]
        /\ \A c \in calls[n] : c.done => c.left <= lease[n]
        /\ pc[n] \in {"enable", "lead"} /\ lease[n] > 0 => key = n

\* Answers of etcd that come out of order never shorten a leader's time: a
\* leader gives up no leadership that etcd has confirmed (maxExpire).
AnswersNeverShorten ==
    [][\A n \in Nodes : pc[n] = "lead" /\ pc'[n] = "lead" => mine'[n] >= mine[n] - 1]_vars

\* The election is what the jobs of the leader may rely on.
Promise == INSTANCE LeaderKey WITH
    serving <- {n \in Nodes : Serving(n)},
    running <- {n \in Nodes : running[n]}
PromiseKept == Promise!LeaderSpec
=============================================================================
