-------------------------- MODULE LeadershipProofs --------------------------
(***************************************************************************)
(* Proofs about Leadership, for any nodes and any lease time: a node that  *)
(* accepts requests holds the leader key, and the election implements what *)
(* LeaderKey promises.                                                     *)
(***************************************************************************)
EXTENDS Leadership, TLAPS

\* A node that takes itself for the leader of a running cluster is in
\* campaign's last loop; requests to etcd belong to a campaign.
LoopInv ==
    \A n \in Nodes :
        /\ lead[n] = n /\ running[n] => pc[n] = "lead"
        /\ calls[n] # {} => pc[n] \in {"grant", "enable", "lead"}

IInv == TypeOK /\ TimeIsEtcds /\ LoopInv

\* Init satisfies the invariant: nobody has a lease, a request or the key.
LEMMA InitInv == Init => IInv
<1> USE LeadershipAssumption
<1> SUFFICES ASSUME Init PROVE IInv
  OBVIOUS
<1>1. TypeOK
  BY DEF Init, TypeOK, Call
<1>2. TimeIsEtcds
  BY DEF Init, TimeIsEtcds
<1>3. LoopInv
  BY DEF Init, LoopInv
<1> QED
  BY <1>1, <1>2, <1>3 DEF IInv

\* Time passes for a node and for etcd alike.
LEMMA TickInv == IInv /\ Tick => IInv'
<1> USE LeadershipAssumption
<1> SUFFICES ASSUME IInv, Tick PROVE IInv'
  OBVIOUS
<1>0. ASSUME NEW n \in Nodes, NEW c \in calls'[n]
      PROVE  /\ c \in Call
             /\ \E d \in calls[n] : c.done = d.done /\ c.left = less(d.left)
  <2>1. PICK d \in calls[n] : c = [d EXCEPT !.left = less(@)]
    BY DEF Tick
  <2>2. d \in Call
    BY DEF IInv, TypeOK
  <2>3. less(d.left) \in 0 .. TTL
    BY <2>2 DEF Call, less
  <2> QED
    BY <2>1, <2>2, <2>3 DEF Call
<1>1. TypeOK'
  <2>1. lease' \in [Nodes -> 0 .. TTL] /\ mine' \in [Nodes -> 0 .. TTL]
    BY DEF IInv, TypeOK, Tick, less
  <2>2. calls' \in [Nodes -> SUBSET Call]
    BY <1>0 DEF Tick
  <2> QED
    BY <2>1, <2>2 DEF IInv, TypeOK, Tick
<1>2. TimeIsEtcds'
  <2> SUFFICES ASSUME NEW n \in Nodes
               PROVE  /\ mine'[n] <= lease'[n]
                      /\ \A c \in calls'[n] : c.done => c.left <= lease'[n]
                      /\ pc'[n] \in {"enable", "lead"} /\ lease'[n] > 0 => key' = n
    BY DEF TimeIsEtcds
  <2>1. lease[n] \in Nat /\ mine[n] \in Nat /\ lease'[n] = less(lease[n])
        /\ mine'[n] = less(mine[n])
    BY DEF IInv, TypeOK, Tick
  <2>2. mine'[n] <= lease'[n]
    BY <2>1 DEF IInv, TimeIsEtcds, less
  <2>3. ASSUME NEW c \in calls'[n], c.done PROVE c.left <= lease'[n]
    <3>1. PICK d \in calls[n] : c.done = d.done /\ c.left = less(d.left)
      BY <1>0
    <3>2. d.left \in Nat
      BY DEF IInv, TypeOK, Call
    <3>3. d.left <= lease[n]
      BY <3>1, <2>3 DEF IInv, TimeIsEtcds
    <3> QED
      BY <3>1, <3>2, <3>3, <2>1 DEF less
  <2>4. pc'[n] \in {"enable", "lead"} /\ lease'[n] > 0 => key' = n
    BY <2>1 DEF IInv, TimeIsEtcds, Tick, less
  <2> QED
    BY <2>2, <2>3, <2>4
<1>3. LoopInv'
  BY DEF IInv, LoopInv, Tick
<1> QED
  BY <1>1, <1>2, <1>3 DEF IInv

\* etcd drops the key only of a node without lease.
LEMMA ExpireInv == IInv /\ Expire => IInv'
BY LeadershipAssumption
   DEF IInv, TypeOK, TimeIsEtcds, LoopInv, Expire, leaseVars

\* A node that finds another leader forgets its own leadership.
LEMMA ReadLeaderInv == ASSUME NEW n \in Nodes, IInv, ReadLeader(n) PROVE IInv'
<1> USE LeadershipAssumption
<1>1. TypeOK'
  <2>1. lead' \in [Nodes -> Nodes \cup {NoNode}]
    BY DEF IInv, TypeOK, ReadLeader
  <2>2. running' \in [Nodes -> BOOLEAN]
    BY DEF IInv, TypeOK, ReadLeader
  <2>3. pc' \in [Nodes -> {"loop", "resign", "watch", "campaign", "grant", "put",
                           "enable", "lead"}]
    BY DEF IInv, TypeOK, ReadLeader, goto
  <2> QED
    BY <2>1, <2>2, <2>3 DEF IInv, TypeOK, ReadLeader, leaseVars
<1>2. TimeIsEtcds'
  BY DEF IInv, TypeOK, TimeIsEtcds, LoopInv, ReadLeader, leaseVars, goto
<1>3. LoopInv'
  BY DEF IInv, TypeOK, LoopInv, ReadLeader, leaseVars, goto
<1> QED
  BY <1>1, <1>2, <1>3 DEF IInv

\* A node resigns a key it does not lead with.
LEMMA ResignInv == ASSUME NEW n \in Nodes, IInv, Resign(n) PROVE IInv'
<1> USE LeadershipAssumption
<1>1. TypeOK'
  BY DEF IInv, TypeOK, Resign, leaseVars, goto
<1>2. TimeIsEtcds'
  BY DEF IInv, TypeOK, TimeIsEtcds, LoopInv, Resign, leaseVars, goto
<1>3. LoopInv'
  BY DEF IInv, TypeOK, LoopInv, Resign, leaseVars, goto
<1> QED
  BY <1>1, <1>2, <1>3 DEF IInv

\* A follower forgets the leader it watched.
LEMMA WatchEndsInv == ASSUME NEW n \in Nodes, IInv, WatchEnds(n) PROVE IInv'
<1> USE LeadershipAssumption
<1>1. TypeOK'
  BY DEF IInv, TypeOK, WatchEnds, leaseVars, goto
<1>2. TimeIsEtcds'
  BY DEF IInv, TypeOK, TimeIsEtcds, LoopInv, WatchEnds, leaseVars, goto
<1>3. LoopInv'
  BY DEF IInv, TypeOK, LoopInv, WatchEnds, leaseVars, goto
<1> QED
  BY <1>1, <1>2, <1>3 DEF IInv

\* A campaign starts without time.
LEMMA CampaignInv == ASSUME NEW n \in Nodes, IInv, Campaign(n) PROVE IInv'
<1> USE LeadershipAssumption
<1>0. [left |-> TTL, done |-> FALSE] \in Call
  BY DEF Call
<1>1. TypeOK'
  <2>1. calls' \in [Nodes -> SUBSET Call]
    <3> DEFINE sent == [left |-> TTL, done |-> FALSE]
    <3>1. calls' = [calls EXCEPT ![n] = {sent}] \/ calls' = calls
      BY DEF Campaign, leaseVars
    <3>2. sent \in Call /\ calls \in [Nodes -> SUBSET Call]
      BY <1>0 DEF IInv, TypeOK
    <3> HIDE DEF sent
    <3> QED
      BY <3>1, <3>2
  <2> QED
    BY <2>1 DEF IInv, TypeOK, Campaign, leaseVars, goto
<1>2. TimeIsEtcds'
  BY DEF IInv, TypeOK, TimeIsEtcds, LoopInv, Campaign, leaseVars, goto, Call
<1>3. LoopInv'
  BY DEF IInv, TypeOK, LoopInv, Campaign, leaseVars, goto, Call
<1> QED
  BY <1>1, <1>2, <1>3 DEF IInv

\* The granted lease lasts no shorter at etcd than on the node.
LEMMA GrantInv == ASSUME NEW n \in Nodes, IInv, Grant(n) PROVE IInv'
<1> USE LeadershipAssumption
<1>1. TypeOK'
  BY DEF IInv, TypeOK, Grant, leaseVars, goto, expireTime, Call
<1>2. TimeIsEtcds'
  BY DEF IInv, TypeOK, TimeIsEtcds, LoopInv, Grant, leaseVars, goto, expireTime, Call
<1>3. LoopInv'
  BY DEF IInv, TypeOK, LoopInv, Grant, leaseVars, goto, expireTime, Call
<1> QED
  BY <1>1, <1>2, <1>3 DEF IInv

\* A campaign without lease ends.
LEMMA GrantFailsInv == ASSUME NEW n \in Nodes, IInv, GrantFails(n) PROVE IInv'
<1> USE LeadershipAssumption
<1>1. TypeOK'
  BY DEF IInv, TypeOK, GrantFails, leaseVars, goto
<1>2. TimeIsEtcds'
  BY DEF IInv, TypeOK, TimeIsEtcds, LoopInv, GrantFails, leaseVars, goto
<1>3. LoopInv'
  BY DEF IInv, TypeOK, LoopInv, GrantFails, leaseVars, goto
<1> QED
  BY <1>1, <1>2, <1>3 DEF IInv

\* The key is taken by the node that holds the lease.
LEMMA PutKeyInv == ASSUME NEW n \in Nodes, IInv, PutKey(n) PROVE IInv'
<1> USE LeadershipAssumption
<1>1. TypeOK'
  BY DEF IInv, TypeOK, PutKey, leaseVars, goto
<1>2. TimeIsEtcds'
  BY DEF IInv, TypeOK, TimeIsEtcds, LoopInv, PutKey, leaseVars, goto
<1>3. LoopInv'
  BY DEF IInv, TypeOK, LoopInv, PutKey, leaseVars, goto
<1> QED
  BY <1>1, <1>2, <1>3 DEF IInv

\* A lost campaign leaves no time.
LEMMA PutFailsInv == ASSUME NEW n \in Nodes, IInv, PutFails(n) PROVE IInv'
<1> USE LeadershipAssumption
<1>1. TypeOK'
  BY DEF IInv, TypeOK, PutFails, leaseVars, goto
<1>2. TimeIsEtcds'
  BY DEF IInv, TypeOK, TimeIsEtcds, LoopInv, PutFails, leaseVars, goto
<1>3. LoopInv'
  BY DEF IInv, TypeOK, LoopInv, PutFails, leaseVars, goto
<1> QED
  BY <1>1, <1>2, <1>3 DEF IInv

\* The node leads from campaign's last loop only.
LEMMA EnableInv == ASSUME NEW n \in Nodes, IInv, Enable(n) PROVE IInv'
<1> USE LeadershipAssumption
<1>1. TypeOK'
  BY DEF IInv, TypeOK, Enable, leaseVars, goto
<1>2. TimeIsEtcds'
  BY DEF IInv, TypeOK, TimeIsEtcds, LoopInv, Enable, leaseVars, goto
<1>3. LoopInv'
  BY DEF IInv, TypeOK, LoopInv, Enable, leaseVars, goto
<1> QED
  BY <1>1, <1>2, <1>3 DEF IInv

\* A leader that cannot start its cluster does not serve.
LEMMA EnableFailsInv == ASSUME NEW n \in Nodes, IInv, EnableFails(n) PROVE IInv'
<1> USE LeadershipAssumption
<1>1. TypeOK'
  BY DEF IInv, TypeOK, EnableFails, leaseVars, goto
<1>2. TimeIsEtcds'
  BY DEF IInv, TypeOK, TimeIsEtcds, LoopInv, EnableFails, leaseVars, goto
<1>3. LoopInv'
  BY DEF IInv, TypeOK, LoopInv, EnableFails, leaseVars, goto
<1> QED
  BY <1>1, <1>2, <1>3 DEF IInv

\* A node that steps down forgets its leadership.
LEMMA StepDownInv == ASSUME NEW n \in Nodes, IInv, StepDown(n) PROVE IInv'
<1> USE LeadershipAssumption
<1>1. TypeOK'
  BY DEF IInv, TypeOK, StepDown, leaseVars, goto
<1>2. TimeIsEtcds'
  BY DEF IInv, TypeOK, TimeIsEtcds, LoopInv, StepDown, leaseVars, goto
<1>3. LoopInv'
  BY DEF IInv, TypeOK, LoopInv, StepDown, leaseVars, goto
<1> QED
  BY <1>1, <1>2, <1>3 DEF IInv

\* A request just sent promises nothing.
LEMMA KeepAliveInv == ASSUME NEW n \in Nodes, IInv, KeepAlive(n) PROVE IInv'
<1> USE LeadershipAssumption
<1>0. [left |-> TTL, done |-> FALSE] \in Call
  BY DEF Call
<1>1. TypeOK'
  <2>1. calls' \in [Nodes -> SUBSET Call]
    BY <1>0 DEF IInv, TypeOK, KeepAlive, leaseVars
  <2> QED
    BY <2>1 DEF IInv, TypeOK, KeepAlive
<1>2. TimeIsEtcds'
  BY DEF IInv, TypeOK, TimeIsEtcds, LoopInv, KeepAlive, leaseVars, Call
<1>3. LoopInv'
  BY DEF IInv, TypeOK, LoopInv, KeepAlive, leaseVars, Call
<1> QED
  BY <1>1, <1>2, <1>3 DEF IInv

\* An executed request leaves a full lease.
LEMMA RenewInv == ASSUME NEW n \in Nodes, IInv, Renew(n) PROVE IInv'
<1> USE LeadershipAssumption
<1>1. TypeOK'
  <2>1. PICK c \in calls[n] :
          calls' = [calls EXCEPT ![n] = (@ \ {c}) \cup {[c EXCEPT !.done = TRUE]}]
    BY DEF Renew
  <2>2. [c EXCEPT !.done = TRUE] \in Call
    <3>1. c \in Call
      BY DEF IInv, TypeOK
    <3> QED
      BY <3>1 DEF Call
  <2>3. calls' \in [Nodes -> SUBSET Call]
    BY <2>1, <2>2 DEF IInv, TypeOK
  <2> QED
    BY <2>3 DEF IInv, TypeOK, Renew
<1>2. TimeIsEtcds'
  BY DEF IInv, TypeOK, TimeIsEtcds, LoopInv, Renew, leaseVars, Call
<1>3. LoopInv'
  BY DEF IInv, TypeOK, LoopInv, Renew, leaseVars, Call
<1> QED
  BY <1>1, <1>2, <1>3 DEF IInv

\* An answer brings no more time than etcd gave.
LEMMA RenewedInv == ASSUME NEW n \in Nodes, IInv, Renewed(n) PROVE IInv'
<1> USE LeadershipAssumption
<1>1. TypeOK'
  BY DEF IInv, TypeOK, Renewed, leaseVars, later, expireTime, Call
<1>2. TimeIsEtcds'
  BY DEF IInv, TypeOK, TimeIsEtcds, LoopInv, Renewed, leaseVars, later, expireTime, Call
<1>3. LoopInv'
  BY DEF IInv, TypeOK, LoopInv, Renewed, leaseVars, later, expireTime, Call
<1> QED
  BY <1>1, <1>2, <1>3 DEF IInv

\* A lost request changes no time.
LEMMA KeepAliveFailsInv == ASSUME NEW n \in Nodes, IInv, KeepAliveFails(n) PROVE IInv'
<1> USE LeadershipAssumption
<1>1. TypeOK'
  BY DEF IInv, TypeOK, KeepAliveFails, leaseVars, Call
<1>2. TimeIsEtcds'
  BY DEF IInv, TypeOK, TimeIsEtcds, LoopInv, KeepAliveFails, leaseVars, Call
<1>3. LoopInv'
  BY DEF IInv, TypeOK, LoopInv, KeepAliveFails, leaseVars, Call
<1> QED
  BY <1>1, <1>2, <1>3 DEF IInv

\* A restarted node has no time.
LEMMA RestartInv == ASSUME NEW n \in Nodes, IInv, Restart(n) PROVE IInv'
<1> USE LeadershipAssumption
<1>1. TypeOK'
  BY DEF IInv, TypeOK, Restart, leaseVars, goto
<1>2. TimeIsEtcds'
  BY DEF IInv, TypeOK, TimeIsEtcds, LoopInv, Restart, leaseVars, goto
<1>3. LoopInv'
  BY DEF IInv, TypeOK, LoopInv, Restart, leaseVars, goto
<1> QED
  BY <1>1, <1>2, <1>3 DEF IInv

\* Every step preserves the invariant.
LEMMA NextInv == IInv /\ [Next]_vars => IInv'
<1> SUFFICES ASSUME IInv, [Next]_vars PROVE IInv'
  OBVIOUS
<1>1. CASE Tick
  BY <1>1, TickInv
<1>2. CASE Expire
  BY <1>2, ExpireInv
<1>3. ASSUME NEW n \in Nodes,
             ReadLeader(n) \/ Resign(n) \/ WatchEnds(n) \/ Campaign(n)
             \/ Grant(n) \/ GrantFails(n) \/ PutKey(n) \/ PutFails(n)
      PROVE  IInv'
  BY <1>3, ReadLeaderInv, ResignInv, WatchEndsInv, CampaignInv, GrantInv,
     GrantFailsInv, PutKeyInv, PutFailsInv
<1>4. ASSUME NEW n \in Nodes,
             Enable(n) \/ EnableFails(n) \/ StepDown(n) \/ KeepAlive(n)
             \/ Renew(n) \/ Renewed(n) \/ KeepAliveFails(n) \/ Restart(n)
      PROVE  IInv'
  BY <1>4, EnableInv, EnableFailsInv, StepDownInv, KeepAliveInv, RenewInv,
     RenewedInv, KeepAliveFailsInv, RestartInv
<1>5. CASE UNCHANGED vars
  BY <1>5 DEF vars, IInv, TypeOK, TimeIsEtcds, LoopInv
<1> QED
  BY <1>1, <1>2, <1>3, <1>4, <1>5 DEF Next

\* The invariant gives a serving node the key.
LEMMA InvServing == IInv => ServingHoldsKey
BY DEF IInv, TypeOK, TimeIsEtcds, LoopInv, ServingHoldsKey, Serving

\* The invariant holds in every state of the election.
LEMMA ElectionInvariant == Spec => []IInv
BY InitInv, NextInv, PTL DEF Spec

\* Every variable of the election keeps its type.
THEOREM ElectionTypes == Spec => []TypeOK
<1>1. IInv => TypeOK
  BY DEF IInv
<1> QED
  BY ElectionInvariant, <1>1, PTL

\* A node never counts on more time than etcd gives it, not even by an answer
\* still on its way (Grant and keepAlive count from before the request), and a
\* campaigner whose lease lives owns the key.
THEOREM TimeNeverExceedsLease == Spec => []TimeIsEtcds
<1>1. IInv => TimeIsEtcds
  BY DEF IInv
<1> QED
  BY ElectionInvariant, <1>1, PTL

\* Whatever is slow, lost or answered late, a node that accepts requests as
\* leader holds the leader key.
THEOREM LeaderHoldsKey == Spec => []ServingHoldsKey
BY ElectionInvariant, InvServing, PTL

----------------------------------------------------------------------------
(* Leadership implements LeaderKey: what each step is there.               *)

servers == {n \in Nodes : Serving(n)}
runners == {n \in Nodes : running[n]}

\* Only the owner of the key serves, from campaign's last loop.
LEMMA OneServer ==
    ASSUME IInv, NEW n \in servers
    PROVE  n \in Nodes /\ key = n /\ pc[n] = "lead" /\ lease[n] > 0 /\ n \in runners
BY DEF IInv, TypeOK, TimeIsEtcds, LoopInv, servers, runners, Serving

\* Time may end the one server's term.
LEMMA TickMaps ==
    ASSUME IInv, Tick
    PROVE  \/ UNCHANGED <<key, servers, runners>>
           \/ \E n \in servers : servers' = servers \ {n} /\ UNCHANGED <<key, runners>>
<1>1. servers' \subseteq servers
  BY DEF IInv, TypeOK, Tick, less, servers, Serving
<1>2. UNCHANGED <<key, runners>>
  BY DEF Tick, runners
<1>3. \A m, n \in servers : m = n
  BY OneServer
<1> QED
  BY <1>1, <1>2, <1>3

\* etcd takes the key of a node that does not serve.
LEMMA ExpireMaps ==
    ASSUME IInv, Expire
    PROVE  key # NoNode /\ key \notin servers /\ key' = NoNode /\ UNCHANGED <<servers, runners>>
<1>1. key \notin servers
  BY OneServer, LeadershipAssumption DEF Expire, IInv, TypeOK
<1> QED
  BY <1>1 DEF Expire, leaseVars, servers, runners, Serving

\* A node that does not serve follows another leader.
LEMMA ReadLeaderMaps ==
    ASSUME NEW n \in Nodes, IInv, ReadLeader(n)
    PROVE  \/ UNCHANGED <<key, servers, runners>>
           \/ /\ key \notin {NoNode, n} /\ n \notin servers
              /\ runners' = runners \ {n} /\ UNCHANGED <<key, servers>>
<1>1. n \notin servers
  BY OneServer DEF ReadLeader
<1>2. CASE UNCHANGED <<lead, running>>
  BY <1>2 DEF ReadLeader, leaseVars, servers, runners, Serving
<1>3. CASE key \notin {NoNode, n} /\ running' = [running EXCEPT ![n] = FALSE]
           /\ lead' = [lead EXCEPT ![n] = key]
  <2>1. runners' = runners \ {n}
    BY <1>3 DEF IInv, TypeOK, runners
  <2>2. servers' = servers
    BY <1>1, <1>3 DEF IInv, TypeOK, ReadLeader, leaseVars, servers, Serving
  <2> QED
    BY <1>1, <1>3, <2>1, <2>2 DEF ReadLeader
<1> QED
  BY <1>2, <1>3 DEF ReadLeader

\* A node resigns when it does not serve.
LEMMA ResignMaps ==
    ASSUME NEW n \in Nodes, IInv, Resign(n)
    PROVE  \/ UNCHANGED <<key, servers, runners>>
           \/ key # NoNode /\ key \notin servers /\ key' = NoNode /\ UNCHANGED <<servers, runners>>
<1>1. n \notin servers
  BY OneServer DEF Resign
<1>2. UNCHANGED <<servers, runners>>
  BY DEF Resign, leaseVars, servers, runners, Serving
<1> QED
  BY <1>1, <1>2, LeadershipAssumption DEF Resign

\* A follower does not serve.
LEMMA WatchEndsMaps ==
    ASSUME NEW n \in Nodes, IInv, WatchEnds(n)
    PROVE  UNCHANGED <<key, servers, runners>>
<1>1. n \notin servers /\ ~(lead[n] = n /\ running[n])
  BY OneServer DEF IInv, LoopInv, WatchEnds
<1>2. \A m \in Nodes \ {n} : Serving(m)' <=> Serving(m)
  BY DEF IInv, TypeOK, WatchEnds, leaseVars, Serving
<1>3. ~Serving(n)'
  BY <1>1, LeadershipAssumption DEF IInv, TypeOK, WatchEnds, leaseVars, Serving
<1> QED
  BY <1>1, <1>2, <1>3 DEF WatchEnds, leaseVars, servers, runners

\* A campaigner does not serve.
LEMMA CampaignMaps ==
    ASSUME NEW n \in Nodes, IInv, Campaign(n)
    PROVE  UNCHANGED <<key, servers, runners>>
<1>1. n \notin servers /\ ~(lead[n] = n /\ running[n])
  BY OneServer DEF IInv, LoopInv, Campaign
<1>2. \A m \in Nodes \ {n} : Serving(m)' <=> Serving(m)
  BY DEF IInv, TypeOK, Campaign, leaseVars, Serving
<1>3. ~Serving(n)'
  BY <1>1, LeadershipAssumption DEF IInv, TypeOK, Campaign, leaseVars, Serving
<1> QED
  BY <1>1, <1>2, <1>3 DEF Campaign, leaseVars, servers, runners

\* A granted lease alone does not serve.
LEMMA GrantMaps ==
    ASSUME NEW n \in Nodes, IInv, Grant(n)
    PROVE  UNCHANGED <<key, servers, runners>>
<1>1. n \notin servers /\ ~(lead[n] = n /\ running[n])
  BY OneServer DEF IInv, LoopInv, Grant
<1>2. \A m \in Nodes \ {n} : Serving(m)' <=> Serving(m)
  BY DEF IInv, TypeOK, Grant, leaseVars, Serving
<1>3. ~Serving(n)'
  BY <1>1, LeadershipAssumption DEF IInv, TypeOK, Grant, leaseVars, Serving
<1> QED
  BY <1>1, <1>2, <1>3 DEF Grant, leaseVars, servers, runners

\* A leader without cluster does not serve.
LEMMA EnableFailsMaps ==
    ASSUME NEW n \in Nodes, IInv, EnableFails(n)
    PROVE  UNCHANGED <<key, servers, runners>>
<1>1. n \notin servers /\ ~(lead[n] = n /\ running[n])
  BY OneServer DEF IInv, LoopInv, EnableFails
<1>2. \A m \in Nodes \ {n} : Serving(m)' <=> Serving(m)
  BY DEF IInv, TypeOK, EnableFails, leaseVars, Serving
<1>3. ~Serving(n)'
  BY <1>1, LeadershipAssumption DEF IInv, TypeOK, EnableFails, leaseVars, Serving
<1> QED
  BY <1>1, <1>2, <1>3 DEF EnableFails, leaseVars, servers, runners

\* Nothing visible happens.
LEMMA GrantFailsMaps ==
    ASSUME NEW n \in Nodes, IInv, GrantFails(n)
    PROVE  UNCHANGED <<key, servers, runners>>
BY DEF GrantFails, servers, runners, Serving

\* Nothing visible happens.
LEMMA KeepAliveMaps ==
    ASSUME NEW n \in Nodes, IInv, KeepAlive(n)
    PROVE  UNCHANGED <<key, servers, runners>>
BY DEF KeepAlive, servers, runners, Serving

\* Nothing visible happens.
LEMMA RenewMaps ==
    ASSUME NEW n \in Nodes, IInv, Renew(n)
    PROVE  UNCHANGED <<key, servers, runners>>
BY DEF Renew, servers, runners, Serving

\* Nothing visible happens.
LEMMA KeepAliveFailsMaps ==
    ASSUME NEW n \in Nodes, IInv, KeepAliveFails(n)
    PROVE  UNCHANGED <<key, servers, runners>>
BY DEF KeepAliveFails, servers, runners, Serving

\* The key is taken.
LEMMA PutKeyMaps ==
    ASSUME NEW n \in Nodes, IInv, PutKey(n)
    PROVE  key = NoNode /\ key' = n /\ UNCHANGED <<servers, runners>>
BY DEF PutKey, leaseVars, servers, runners, Serving

\* The key may be taken without the node knowing.
LEMMA PutFailsMaps ==
    ASSUME NEW n \in Nodes, IInv, PutFails(n)
    PROVE  /\ key' = key \/ (key = NoNode /\ key' = n)
           /\ UNCHANGED <<servers, runners>>
<1>1. n \notin servers
  BY OneServer DEF PutFails
<1>2. servers' = servers
  BY <1>1 DEF IInv, TypeOK, PutFails, servers, Serving
<1>3. runners' = runners
  BY DEF PutFails, runners
<1>4. key' = key \/ (key = NoNode /\ key' = n)
  BY DEF PutFails
<1> QED
  BY <1>2, <1>3, <1>4

\* The node starts, and serves if its time is not over.
LEMMA EnableMaps ==
    ASSUME NEW n \in Nodes, IInv, Enable(n)
    PROVE  /\ runners' = runners \cup {n}
           /\ servers' = servers \/ (servers' = servers \cup {n} /\ key = n)
           /\ UNCHANGED key
<1>1. runners' = runners \cup {n} /\ key' = key
  BY DEF IInv, TypeOK, Enable, runners
<1>2. n \notin servers
  BY OneServer DEF Enable
<1>3. \A m \in Nodes \ {n} : Serving(m)' <=> Serving(m)
  BY DEF IInv, TypeOK, Enable, leaseVars, Serving
<1>4. n \in servers' => key = n
  <2>1. n \in servers' => lease[n] > 0
    <3>1. n \in servers' => mine[n] > 0
      BY DEF Enable, leaseVars, servers, Serving
    <3> QED
      BY <3>1 DEF IInv, TypeOK, TimeIsEtcds
  <2> QED
    BY <2>1 DEF IInv, TimeIsEtcds, Enable
<1> QED
  BY <1>1, <1>2, <1>3, <1>4 DEF servers

\* A late answer lets the owner of the key serve again.
LEMMA RenewedMaps ==
    ASSUME NEW n \in Nodes, IInv, Renewed(n)
    PROVE  \/ UNCHANGED <<key, servers, runners>>
           \/ n \in runners /\ key = n /\ servers' = servers \cup {n} /\ UNCHANGED <<key, runners>>
<1>1. UNCHANGED <<key, runners>>
  BY DEF Renewed, runners
<1>2. \A m \in Nodes \ {n} : Serving(m)' <=> Serving(m)
  BY DEF IInv, TypeOK, Renewed, Serving
<1>3. n \in servers => n \in servers'
  BY DEF IInv, TypeOK, Call, Renewed, later, expireTime, servers, Serving
<1>4. n \in servers' => n \in runners /\ key = n
  <2>1. IInv'
    BY RenewedInv
  <2>2. mine'[n] <= lease'[n] /\ lease' = lease /\ pc' = pc /\ mine'[n] \in Nat /\ lease[n] \in Nat
    BY <2>1 DEF IInv, TypeOK, TimeIsEtcds, Renewed
  <2> QED
    BY <2>2 DEF IInv, TimeIsEtcds, LoopInv, Renewed, servers, runners, Serving
<1> QED
  BY <1>1, <1>2, <1>3, <1>4 DEF servers

\* A server that steps down serves no more.
LEMMA StepDownMaps ==
    ASSUME NEW n \in Nodes, IInv, StepDown(n)
    PROVE  /\ servers' = servers \ {n}
           /\ UNCHANGED <<key, runners>>
<1>1. ~Serving(n)'
  BY LeadershipAssumption DEF IInv, TypeOK, StepDown, Serving
<1>2. \A m \in Nodes \ {n} : Serving(m)' <=> Serving(m)
  BY DEF IInv, TypeOK, StepDown, Serving
<1> QED
  BY <1>1, <1>2 DEF StepDown, servers, runners

\* A restarted node neither serves nor runs.
LEMMA RestartMaps ==
    ASSUME NEW n \in Nodes, IInv, Restart(n)
    PROVE  /\ servers' = servers \ {n} /\ runners' = runners \ {n}
           /\ UNCHANGED key
<1>1. ~Serving(n)'
  BY DEF IInv, TypeOK, Restart, Serving
<1>2. \A m \in Nodes \ {n} : Serving(m)' <=> Serving(m)
  BY DEF IInv, TypeOK, Restart, Serving
<1>3. runners' = runners \ {n}
  BY DEF IInv, TypeOK, Restart, runners
<1> QED
  BY <1>1, <1>2, <1>3 DEF Restart, servers

\* Every step is a step of LeaderKey, or changes nothing it sees.
LEMMA NextMaps ==
    IInv /\ [Next]_vars => [Promise!LeaderNext]_(Promise!leaderVars)
<1> USE DEF servers, runners
<1> SUFFICES ASSUME IInv, [Next]_vars
             PROVE  Promise!LeaderNext \/ UNCHANGED <<key, servers, runners>>
  BY DEF Promise!leaderVars
<1>1. CASE Tick
  <2>1. CASE UNCHANGED <<key, servers, runners>>
    BY <2>1
  <2>2. CASE \E n \in servers : servers' = servers \ {n} /\ UNCHANGED <<key, runners>>
    BY <2>2 DEF Promise!LeaderNext, Promise!End
  <2> QED
    BY <1>1, <2>1, <2>2, TickMaps
<1>2. CASE Expire
  BY <1>2, ExpireMaps DEF Promise!LeaderNext, Promise!Release
<1>3. ASSUME NEW n \in Nodes, ReadLeader(n)
      PROVE  Promise!LeaderNext \/ UNCHANGED <<key, servers, runners>>
  BY <1>3, ReadLeaderMaps DEF Promise!LeaderNext, Promise!Follow
<1>4. ASSUME NEW n \in Nodes, Resign(n)
      PROVE  Promise!LeaderNext \/ UNCHANGED <<key, servers, runners>>
  BY <1>4, ResignMaps DEF Promise!LeaderNext, Promise!Release
<1>5. ASSUME NEW n \in Nodes, PutKey(n) \/ PutFails(n)
      PROVE  Promise!LeaderNext \/ UNCHANGED <<key, servers, runners>>
  BY <1>5, PutKeyMaps, PutFailsMaps DEF Promise!LeaderNext, Promise!Acquire
<1>6. ASSUME NEW n \in Nodes, Enable(n)
      PROVE  Promise!LeaderNext \/ UNCHANGED <<key, servers, runners>>
  BY <1>6, EnableMaps DEF Promise!LeaderNext, Promise!Begin
<1>7. ASSUME NEW n \in Nodes, Renewed(n)
      PROVE  Promise!LeaderNext \/ UNCHANGED <<key, servers, runners>>
  BY <1>7, RenewedMaps DEF Promise!LeaderNext, Promise!Resume
<1>8. ASSUME NEW n \in Nodes, StepDown(n)
      PROVE  Promise!LeaderNext \/ UNCHANGED <<key, servers, runners>>
  <2>1. CASE n \in servers
    BY <1>8, <2>1, StepDownMaps DEF Promise!LeaderNext, Promise!End
  <2>2. CASE n \notin servers
    BY <1>8, <2>2, StepDownMaps
  <2> QED
    BY <2>1, <2>2
<1>9. ASSUME NEW n \in Nodes, Restart(n)
      PROVE  Promise!LeaderNext \/ UNCHANGED <<key, servers, runners>>
  BY <1>9, RestartMaps DEF Promise!LeaderNext, Promise!Restart
<1>10. ASSUME NEW n \in Nodes,
              WatchEnds(n) \/ Campaign(n) \/ Grant(n) \/ GrantFails(n)
              \/ EnableFails(n) \/ KeepAlive(n) \/ Renew(n) \/ KeepAliveFails(n)
       PROVE  UNCHANGED <<key, servers, runners>>
  BY <1>10, WatchEndsMaps, CampaignMaps, GrantMaps, GrantFailsMaps,
     EnableFailsMaps, KeepAliveMaps, RenewMaps, KeepAliveFailsMaps
<1>11. CASE UNCHANGED vars
  BY <1>11 DEF vars, Serving
<1> QED
  BY <1>1, <1>2, <1>3, <1>4, <1>5, <1>6, <1>7, <1>8, <1>9, <1>10, <1>11 DEF Next

\* The election, with its leases, clocks and lost answers, implements LeaderKey:
\* what the code that runs on a leader may rely on.
THEOREM ElectionKeepsPromise == Spec => PromiseKept
<1>1. Init => Promise!LeaderInit
  BY LeadershipAssumption DEF Init, Promise!LeaderInit, Serving
<1>2. Init /\ []IInv /\ [][Next]_vars => Promise!LeaderSpec
  BY <1>1, NextMaps, PTL DEF Promise!LeaderSpec
<1> QED
  BY ElectionInvariant, <1>2, PTL DEF Spec, PromiseKept

----------------------------------------------------------------------------
\* No answer, however late, takes time from a node that goes on leading.
LEMMA NextKeepsTime ==
    ASSUME IInv, [Next]_vars, NEW m \in Nodes, pc[m] = "lead", pc'[m] = "lead"
    PROVE  mine'[m] >= mine[m] - 1
<1>0. mine[m] \in Nat /\ mine \in [Nodes -> 0 .. TTL]
  BY DEF IInv, TypeOK
<1>1. CASE mine' = mine
  BY <1>0, <1>1
<1>2. CASE Tick
  BY <1>0, <1>2 DEF Tick, less
<1>3. ASSUME NEW n \in Nodes, Renewed(n) PROVE mine'[m] >= mine[m]
  <2>1. PICK c \in calls[n] : mine' = [mine EXCEPT ![n] = later(@, c)]
    BY <1>3 DEF Renewed
  <2>2. c.left \in Nat
    BY DEF IInv, TypeOK, Call
  <2> QED
    BY <1>0, <2>1, <2>2 DEF later, expireTime
<1>4. ASSUME NEW n \in Nodes,
             Campaign(n) \/ Grant(n) \/ PutFails(n) \/ Restart(n)
      PROVE  mine'[m] = mine[m]
  <2>1. n # m
    BY <1>4 DEF IInv, TypeOK, Campaign, Grant, PutFails, Restart, goto
  <2> QED
    BY <1>0, <1>4, <2>1 DEF Campaign, Grant, PutFails, Restart, leaseVars
<1>5. ASSUME NEW n \in Nodes,
             ReadLeader(n) \/ Resign(n) \/ WatchEnds(n) \/ GrantFails(n)
             \/ PutKey(n) \/ Enable(n) \/ EnableFails(n) \/ StepDown(n)
             \/ KeepAlive(n) \/ Renew(n) \/ KeepAliveFails(n)
      PROVE  mine' = mine
  BY <1>5 DEF ReadLeader, Resign, WatchEnds, GrantFails, PutKey, Enable,
     EnableFails, StepDown, KeepAlive, Renew, KeepAliveFails, leaseVars
<1>6. CASE Expire \/ UNCHANGED vars
  BY <1>6, <1>1 DEF Expire, leaseVars, vars
<1> QED
  <2>1. ASSUME NEW n \in Nodes, mine' = mine \/ mine'[m] = mine[m] \/ mine'[m] >= mine[m]
        PROVE  mine'[m] >= mine[m] - 1
    <3>1. mine'[m] \in Int
      BY NextInv DEF IInv, TypeOK
    <3> QED
      BY <1>0, <2>1, <3>1
  <2> QED
    BY <1>2, <1>3, <1>4, <1>5, <1>6, <2>1 DEF Next

\* Late and reordered answers of etcd never shorten a leader's time (maxExpire).
THEOREM LateAnswersHarmless == Spec => AnswersNeverShorten
<1>1. IInv /\ [Next]_vars =>
        [\A n \in Nodes : pc[n] = "lead" /\ pc'[n] = "lead"
                          => mine'[n] >= mine[n] - 1]_vars
  BY NextKeepsTime
<1> QED
  BY ElectionInvariant, <1>1, PTL DEF Spec, AnswersNeverShorten
=============================================================================
