--------------------------- MODULE MCReplicaReads ---------------------------
(* ReplicaReads for TLC: the reads are interchangeable.                    *)
EXTENDS ReplicaReads, TLC

Symmetry == Permutations(Reads)
=============================================================================
