--------------------------- MODULE KnowledgeSearch ---------------------------
(***************************************************************************)
(* What a chat message is answered with from the knowledge base: the query *)
(* it is turned into, the hits of the vector store, their order after the  *)
(* boosts and the penalty for hits of one document, and the part of them   *)
(* that fits the model.  Of a text its length counts, of a hit the boost   *)
(* its words earn.  Scores and boosts are in percent.                      *)
(***************************************************************************)
EXTENDS Integers, Sequences, FiniteSets, SequencesExt

CONSTANTS
    Hit,            \* what may be stored: [score, boost, source, length]
    MaxHits,        \* bound: hits the store finds (3 * Limit at most in the code)
    Limit,          \* results wanted (5)
    Penalty,        \* the factor of a hit by how many of its document are before it:
                    \* 0.85^n, all multiplied by the same to make them whole
    MessageLength,  \* lengths of messages and of rewritten queries
    MaxSafeTokens,  \* of the embedding model (1800)
    PrefixLength,   \* length of "search_query: " (14)
    ContextLimits,  \* per size of model, ascending: [maxParams, maxResults, maxTokens]
    ModelParams     \* the sizes found in names of models

ASSUME SearchAssumption ==
    /\ \A h \in Hit : h.score \in 0 .. 100 /\ h.boost \in 0 .. 17 /\ h.length \in Nat
    /\ Limit \in Nat \ {0} /\ MaxHits \in 0 .. 3 * Limit
    /\ Penalty \in [0 .. MaxHits - 1 -> Nat \ {0}]
    /\ \A m, n \in 0 .. MaxHits - 1 : m < n => Penalty[m] > Penalty[n]
    /\ MessageLength \subseteq Nat
    /\ MaxSafeTokens \in Nat /\ PrefixLength \in 0 .. 3 * MaxSafeTokens
    /\ ContextLimits \in Seq([maxParams : Nat, maxResults : Nat \ {0}, maxTokens : Nat])
    /\ ModelParams \subseteq Nat

VARIABLES
    stage,
    query,    \* length of the query, 0 for none
    hits,     \* what the store found
    ranked,   \* the hits in their order after reranking, by index
    found,    \* the results, by index
    context   \* those the model is told, by index

vars == <<stage, query, hits, ranked, found, context>>

NoText == 0
Unknown == 8   \* the size assumed of a model whose name does not tell it

Stages == {"rewrite", "embed", "search", "rerank", "diversify", "limit", "done", "too long"}

TypeOK ==
    /\ stage \in Stages
    /\ query \in MessageLength \cup {NoText}
    /\ hits \in Seq(Hit) /\ Len(hits) <= MaxHits
    /\ ranked \in Seq(DOMAIN hits) /\ IsInjective(ranked)
    /\ found \in Seq(DOMAIN hits) /\ IsInjective(found) /\ Len(found) <= Limit
    /\ context \in Seq(DOMAIN hits) /\ Len(context) <= Len(found)

Init ==
    /\ stage = "rewrite"
    /\ query = NoText
    /\ hits = <<>> /\ ranked = <<>> /\ found = <<>> /\ context = <<>>

GoTo(from, to) == stage = from /\ stage' = to

-----------------------------------------------------------------------------
(* The query *)

\* The user's message, or what a model makes of the conversation, which may be nothing.
RewriteQuery ==
    /\ query' \in MessageLength \cup {NoText}
    /\ GoTo("rewrite", IF query' = NoText THEN "done" ELSE "embed")
    /\ UNCHANGED <<hits, ranked, found, context>>

Tokens(length) == (length + 2) \div 3

\* Cut at a space, if there is one in the last fifth.
Truncated(length, max) ==
    IF Tokens(length) <= max THEN {length}
    ELSE {n \in 0 .. 3 * max : 5 * n > 4 * (3 * max)} \cup {3 * max}

\* Mutation: the prefix is forgotten.
MaxQueryTokensBare == MaxSafeTokens

MaxQueryTokens == MaxSafeTokens - Tokens(PrefixLength)

\* A query that is too long with its prefix is not searched for.
EmbedQuery ==
    /\ \E n \in Truncated(query, MaxQueryTokens) :
         GoTo("embed", IF Tokens(PrefixLength + n) > MaxSafeTokens THEN "too long" ELSE "search")
    /\ query' = NoText
    /\ UNCHANGED <<hits, ranked, found, context>>

\* Nothing stored, no embedding model, or an error: the chat goes on without.
SearchFails ==
    /\ stage \in {"embed", "search"}
    /\ stage' = "done"
    /\ query' = NoText
    /\ UNCHANGED <<hits, ranked, found, context>>

\* The store orders what it finds by its score.
Search ==
    /\ GoTo("search", "rerank")
    /\ \E n \in 0 .. MaxHits : hits' \in {s \in [1 .. n -> Hit] : \A i \in 2 .. n : s[i - 1].score >= s[i].score}
    /\ UNCHANGED <<query, ranked, found, context>>

-----------------------------------------------------------------------------
(* The order of the results *)

Gate == 35

\* Mutation: words count for poor hits, too.
FinalScoreUngated(h) == h.score * (100 + h.boost)

\* In hundredths of a percent; 1 is the most.
FinalScore(h) ==
    IF h.score < Gate THEN 100 * h.score
    ELSE LET boosted == h.score * (100 + h.boost)
         IN  IF boosted > 10000 THEN 10000 ELSE boosted

\* Place i comes before place j: for its score, or else for its place.
Precedes(scores, i, j) == scores[i] > scores[j] \/ (scores[i] = scores[j] /\ i < j)

Before(scores, i) == {j \in DOMAIN scores : Precedes(scores, j, i)}

\* The places of scores, the best first.  The sorts are stable.
Sorted(scores) ==
    [k \in DOMAIN scores |->
        CHOOSE i \in DOMAIN scores : Cardinality(Before(scores, i)) = k - 1]

FinalScores == [i \in DOMAIN hits |-> FinalScore(hits[i])]

\* Mutation: left as the store ordered them.
ByFinalScoreNot == [i \in DOMAIN hits |-> i]

ByFinalScore == Sorted(FinalScores)

Rerank ==
    /\ GoTo("rerank", "diversify")
    /\ ranked' = ByFinalScore
    /\ UNCHANGED <<query, hits, found, context>>

\* How many of the places before p in the order r go to the document of p.
SeenBefore(r, p) == Cardinality({q \in 1 .. p - 1 : hits[r[q]].source = hits[r[p]].source})

\* Each place of the reranked order, weighed by the hits of its document before it.
DiverseScores ==
    [p \in DOMAIN ranked |-> FinalScore(hits[ranked[p]]) * Penalty[SeenBefore(ranked, p)]]

ByDiversity == LET order == Sorted(DiverseScores) IN [k \in DOMAIN order |-> ranked[order[k]]]

\* Mutation: more than was asked for.
TopResultsAll == ByDiversity

TopResults == SubSeq(ByDiversity, 1, IF Len(hits) < Limit THEN Len(hits) ELSE Limit)

Diversify ==
    /\ GoTo("diversify", IF hits = <<>> THEN "done" ELSE "limit")
    /\ found' = TopResults
    /\ UNCHANGED <<query, hits, ranked, context>>

-----------------------------------------------------------------------------
(* What the model is told *)

\* Sizes above all of the table's have no limits.
LimitsOf(params) ==
    LET fits == {i \in DOMAIN ContextLimits : params <= ContextLimits[i].maxParams}
    IN  IF fits = {} THEN [maxResults |-> 5, maxTokens |-> 0]
        ELSE ContextLimits[CHOOSE i \in fits : \A j \in fits : i <= j]

\* The running total of the lengths.
TotalLength(results) ==
    LET total[p \in 0 .. Len(results)] ==
          IF p = 0 THEN 0 ELSE total[p - 1] + hits[results[p]].length
    IN  total

\* The results at some of their places.
At(results, places) ==
    [k \in 1 .. Cardinality(places) |->
        results[CHOOSE p \in places : Cardinality(places \cap 1 .. p) = k]]

\* Mutation: each result counts for itself.
WithinTokensEach(results, maxTokens) ==
    LET kept == {p \in DOMAIN results :
                   p = 1 \/ hits[results[p]].length <= 4 * maxTokens}
    IN  IF maxTokens = 0 THEN results ELSE At(results, kept)

\* The first result is always kept; what is left out counts against the limit, too.
WithinTokens(results, maxTokens) ==
    LET kept == {p \in DOMAIN results : p = 1 \/ TotalLength(results)[p] <= 4 * maxTokens}
    IN  IF maxTokens = 0 THEN results ELSE At(results, kept)

LimitContext ==
    /\ GoTo("limit", "done")
    /\ \E params \in ModelParams \cup {Unknown} :
         LET limits == LimitsOf(params)
             n == IF Len(found) < limits.maxResults THEN Len(found) ELSE limits.maxResults
         IN  context' = WithinTokens(SubSeq(found, 1, n), limits.maxTokens)
    /\ UNCHANGED <<query, hits, ranked, found>>

Next ==
    \/ RewriteQuery \/ EmbedQuery \/ SearchFails \/ Search
    \/ Rerank \/ Diversify \/ LimitContext

Spec == Init /\ [][Next]_vars

-----------------------------------------------------------------------------
(* Properties *)

\* "Query too long even after truncation" (rag_service.ts:735) never happens: what the
\* estimate rounds up of prefix and query never adds up to more than the model takes.
TruncationSuffices == stage # "too long"

\* What hit i is worth when the hits of picked have been: its score, weighed by how many
\* of its document are among them.
Worth(picked, i) ==
    LET same == {j \in Range(picked) : hits[j].source = hits[i].source}
    IN  FinalScore(hits[i]) * Penalty[Cardinality(same)]

\* The best of those that are left.  Of equal ones it is the one ranked first.
NextPick(picked) ==
    LET left == DOMAIN hits \ Range(picked)
        place == [i \in DOMAIN hits |-> CHOOSE p \in DOMAIN ranked : ranked[p] = i]
    IN  CHOOSE i \in left :
            \A j \in left \ {i} :
                \/ Worth(picked, i) > Worth(picked, j)
                \/ Worth(picked, i) = Worth(picked, j) /\ place[i] < place[j]

\* "Uses greedy selection" (rag_service.ts:899): the results are those that picking the
\* best remaining hit again and again would give, though the code counts the hits of a
\* document in the reranked order and sorts once.
DiversityIsGreedy ==
    stage = "limit" => \A k \in DOMAIN found : found[k] = NextPick(SubSeq(found, 1, k - 1))

\* Words do not promote a poor hit (rag_service.ts:835): it comes before a better one only
\* when another hit of the better one's document comes before both.
PoorNotPromoted ==
    \A a, b \in DOMAIN found :
        LET poor == hits[found[a]]
            better == hits[found[b]]
        IN  a < b /\ poor.score < Gate /\ better.score > poor.score =>
                \E c \in 1 .. a - 1 : hits[found[c]].source = better.source

\* The model is told the best results without a gap, and at least one if there are any
\* (ollama_controller.ts:74-85).
ContextIsBest ==
    /\ IsPrefix(context, found)
    /\ stage = "done" /\ found # <<>> => context # <<>>

=============================================================================
