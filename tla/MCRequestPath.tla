--------------------------- MODULE MCRequestPath ---------------------------
(* RequestPath for TLC.                                                    *)
EXTENDS RequestPath
=============================================================================
