---------------------------- MODULE MCShardsPool ----------------------------
(* ShardsPool for TLC: nodes and purposes are interchangeable.             *)
EXTENDS ShardsPool, TLC

Symmetry == Permutations(Nodes) \cup Permutations(Purposes)
=============================================================================
