---------------------------- MODULE MCPeerStorage ----------------------------
(* PeerStorage for TLC: logs with writes, entries of new leaders and a       *)
(* compaction in the different orders.                                       *)
EXTENDS PeerStorage

W == [kind |-> "write", to |-> 0]
E == [kind |-> "empty", to |-> 0]
C(to) == [kind |-> "compact", to |-> to]

MCLogs == {<<W, E, C(2), W>>, <<E, W, W, C(3)>>}
=============================================================================
