------------------------- MODULE MCReplicaPipeline -------------------------
(* ReplicaPipeline for TLC: commands are model values, interchangeable     *)
(* where no split and no IgnoreEpochCheck tells them apart.                *)
EXTENDS ReplicaPipeline, TLC

Symmetry == Permutations(Cmds \ (Splits \cup IgnoreEpoch))
=============================================================================
