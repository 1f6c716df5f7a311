-------------------------- MODULE MCKnowledgeSearch --------------------------
(* An instance of KnowledgeSearch for TLC: hits on both sides of the gate, with and     *)
(* without a boost, of two documents, short and long.                                   *)
EXTENDS KnowledgeSearch

CONSTANTS d1, d2

MCHit ==
    [score : {33, 38}, boost : {0, 16}, source : {d1, d2}, length : {3}]
    \cup [score : {34, 39}, boost : {16}, source : {d1, d2}, length : {9}]

MCPenalty == [n \in 0 .. 4 |-> 17 ^ n * 20 ^ (4 - n)]

MCContextLimits ==
    << [maxParams |-> 3, maxResults |-> 1, maxTokens |-> 1],
       [maxParams |-> 8, maxResults |-> 3, maxTokens |-> 2] >>
=============================================================================
