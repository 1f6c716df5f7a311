---------------------------- MODULE MCMapAssets ----------------------------
(* An instance of MapAssets for TLC. *)
EXTENDS MapAssets

CONSTANTS r1, r2
=============================================================================
