--------------------------- MODULE MCIdAllocator ---------------------------
(* IdAllocator for TLC: the nodes are interchangeable.                     *)
EXTENDS IdAllocator, TLC

Symmetry == Permutations(Nodes)
=============================================================================
