-------------------------- MODULE MCEmbedPipeline --------------------------
(* Instances of EmbedPipeline for TLC. *)
EXTENDS EmbedPipeline

CONSTANTS u1, z1, d1

\* The first article is a full batch; the second is left for the next one.
MCArticles == [f \in File |-> IF f \in Zim THEN <<{1}, {2}>> ELSE <<{1}>>]
=============================================================================
