---------------------------- MODULE MCBenchmarks ----------------------------
(* Instances of Benchmarks for TLC. *)
EXTENDS Benchmarks

CONSTANTS r1, r2, s1, s2, g1, llama
=============================================================================
