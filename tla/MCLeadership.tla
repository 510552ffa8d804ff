--------------------------- MODULE MCLeadership ---------------------------
(* Leadership for TLC.  The runs use no symmetry: one checks a refinement. *)
EXTENDS Leadership
=============================================================================
