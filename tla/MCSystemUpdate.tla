--------------------------- MODULE MCSystemUpdate ---------------------------
(* Instances of SystemUpdate for TLC. *)
EXTENDS SystemUpdate

CONSTANTS c1, c2, t1, t2
=============================================================================
