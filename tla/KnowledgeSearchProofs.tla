------------------------ MODULE KnowledgeSearchProofs ------------------------
(***************************************************************************)
(* The query always fits the embedding model with its prefix, whatever the *)
(* lengths and the limit are.  The results are the greedy selection they   *)
(* are said to be, and the model is told a prefix of them, whatever the    *)
(* store finds, the penalty and the limits of the models are.              *)
(***************************************************************************)
EXTENDS KnowledgeSearch, FiniteSetTheorems, TLAPS

\* The estimate is the number of thirds, rounded up.
LEMMA TokensRoundUp ==
    ASSUME NEW length \in Nat
    PROVE  /\ Tokens(length) \in Nat
           /\ \A max \in Nat : Tokens(length) <= max <=> length <= 3 * max
BY DEF Tokens

\* A truncated text is within the limit it was truncated to.
LEMMA TruncatedFits ==
    ASSUME NEW length \in Nat, NEW max \in Nat, NEW n \in Truncated(length, max)
    PROVE  n \in Nat /\ n <= 3 * max
<1>1. CASE Tokens(length) <= max
  BY <1>1, TokensRoundUp DEF Truncated
<1>2. CASE ~(Tokens(length) <= max)
  BY <1>2 DEF Truncated
<1> QED BY <1>1, <1>2

\* What is left beside the prefix.
LEMMA RoomForQuery == MaxQueryTokens \in Nat
<1>1. PrefixLength \in Nat /\ MaxSafeTokens \in Nat /\ PrefixLength <= 3 * MaxSafeTokens
  BY SearchAssumption
<1>2. Tokens(PrefixLength) \in Nat /\ Tokens(PrefixLength) <= MaxSafeTokens
  BY <1>1, TokensRoundUp
<1> QED BY <1>1, <1>2 DEF MaxQueryTokens

LEMMA QueryWithPrefixFits ==
    ASSUME NEW length \in Nat, NEW n \in Truncated(length, MaxQueryTokens)
    PROVE  ~(Tokens(PrefixLength + n) > MaxSafeTokens)
<1>1. PrefixLength \in Nat /\ MaxSafeTokens \in Nat
  BY SearchAssumption
<1>2. n \in Nat /\ n <= 3 * MaxQueryTokens
  BY RoomForQuery, TruncatedFits
<1>3. Tokens(PrefixLength) \in Nat /\ PrefixLength <= 3 * Tokens(PrefixLength)
  BY <1>1, TokensRoundUp
<1>4. PrefixLength + n \in Nat /\ PrefixLength + n <= 3 * MaxSafeTokens
  BY <1>1, <1>2, <1>3 DEF MaxQueryTokens
<1> QED BY <1>1, <1>4, TokensRoundUp

-----------------------------------------------------------------------------

QueryInv == query \in Nat /\ stage \in Stages \ {"too long"}

LEMMA QueryInvInit == Init => QueryInv
BY DEF Init, QueryInv, Stages, NoText

LEMMA QueryInvNext == QueryInv /\ [Next]_vars => QueryInv'
<1> SUFFICES ASSUME QueryInv, [Next]_vars PROVE QueryInv'
  OBVIOUS
<1> USE DEF QueryInv
<1>1. CASE RewriteQuery
  BY <1>1, SearchAssumption DEF RewriteQuery, GoTo, Stages, NoText
<1>2. CASE EmbedQuery
  <2>1. PICK n \in Truncated(query, MaxQueryTokens) :
          GoTo("embed", IF Tokens(PrefixLength + n) > MaxSafeTokens THEN "too long" ELSE "search")
    BY <1>2 DEF EmbedQuery
  <2>2. ~(Tokens(PrefixLength + n) > MaxSafeTokens)
    BY QueryWithPrefixFits
  <2>5. stage' = "search"
    BY <2>1, <2>2 DEF GoTo
  <2> QED BY <1>2, <2>5 DEF EmbedQuery, Stages, NoText
<1>3. CASE SearchFails
  BY <1>3 DEF SearchFails, Stages, NoText
<1>4. CASE Search
  BY <1>4 DEF Search, GoTo, Stages
<1>5. CASE Rerank
  BY <1>5 DEF Rerank, GoTo, Stages
<1>6. CASE Diversify
  BY <1>6 DEF Diversify, GoTo, Stages
<1>7. CASE LimitContext
  BY <1>7 DEF LimitContext, GoTo, Stages
<1>8. CASE UNCHANGED vars
  BY <1>8 DEF vars
<1> QED BY <1>1, <1>2, <1>3, <1>4, <1>5, <1>6, <1>7, <1>8 DEF Next

\* The exit for queries that are "too long even after truncation" is never taken
\* (rag_service.ts:135-157, 716-729).
THEOREM QueryFits == Spec => []TruncationSuffices
<1>1. QueryInv => TruncationSuffices
  BY DEF QueryInv, TruncationSuffices
<1> QED BY <1>1, QueryInvInit, QueryInvNext, PTL DEF Spec

-----------------------------------------------------------------------------
(* Orders by rank *)

\* Every set of naturals has a smallest element, if it has any.
LEMMA Smallest ==
    ASSUME NEW S \in SUBSET Nat, S # {}
    PROVE  \E least \in S : \A n \in S : least <= n
<1>1. PICK least \in S : \A n \in S : <<n, least>> \notin OpToRel(<, Nat)
  BY WFMin, NatLessThanWellFounded, Zenon
<1>2. ASSUME NEW n \in S PROVE least <= n
  <2>1. <<n, least>> \in Nat \X Nat
    OBVIOUS
  <2>2. ~(n < least)
    BY <1>1, <2>1 DEF OpToRel
  <2> QED BY <2>2
<1> QED BY <1>2

LEMMA PrecedesOrders ==
    ASSUME NEW n \in Nat, NEW scores \in [1 .. n -> Nat],
           NEW i \in 1 .. n, NEW j \in 1 .. n
    PROVE  /\ ~Precedes(scores, i, i)
           /\ i # j => Precedes(scores, i, j) \/ Precedes(scores, j, i)
           /\ ~(Precedes(scores, i, j) /\ Precedes(scores, j, i))
           /\ \A k \in 1 .. n :
                Precedes(scores, i, j) /\ Precedes(scores, j, k) => Precedes(scores, i, k)
BY DEF Precedes

LEMMA RankBound ==
    ASSUME NEW n \in Nat, NEW scores \in [1 .. n -> Nat], NEW i \in 1 .. n
    PROVE  /\ IsFiniteSet(Before(scores, i))
           /\ Cardinality(Before(scores, i)) \in 0 .. n - 1
<1>1. IsFiniteSet(1 .. n) /\ Cardinality(1 .. n) = n
  BY FS_Interval
<1>2. IsFiniteSet((1 .. n) \ {i}) /\ Cardinality((1 .. n) \ {i}) = n - 1
  BY <1>1, FS_RemoveElement
<1>3. Before(scores, i) \subseteq (1 .. n) \ {i}
  BY PrecedesOrders DEF Before
<1>4. IsFiniteSet(Before(scores, i)) /\ Cardinality(Before(scores, i)) <= n - 1
  BY <1>2, <1>3, FS_Subset
<1> QED BY <1>4, FS_CardinalityType

\* Who comes before has fewer before it.
LEMMA RankGrows ==
    ASSUME NEW n \in Nat, NEW scores \in [1 .. n -> Nat],
           NEW i \in 1 .. n, NEW j \in 1 .. n, Precedes(scores, i, j)
    PROVE  Cardinality(Before(scores, i)) < Cardinality(Before(scores, j))
<1>1. Before(scores, i) \cup {i} \subseteq Before(scores, j)
  BY PrecedesOrders DEF Before
<1>2. i \notin Before(scores, i)
  BY PrecedesOrders DEF Before
<1>3. /\ IsFiniteSet(Before(scores, i) \cup {i})
      /\ Cardinality(Before(scores, i) \cup {i}) = Cardinality(Before(scores, i)) + 1
  BY <1>2, RankBound, FS_AddElement
<1>4. Cardinality(Before(scores, i) \cup {i}) <= Cardinality(Before(scores, j))
  BY <1>1, RankBound, FS_Subset
<1> QED BY <1>3, <1>4, RankBound

\* Every rank is somebody's.
LEMMA RankTaken ==
    ASSUME NEW n \in Nat, NEW scores \in [1 .. n -> Nat], NEW k \in 1 .. n
    PROVE  \E i \in 1 .. n : Cardinality(Before(scores, i)) = k - 1
<1> DEFINE rank == [i \in 1 .. n |-> Cardinality(Before(scores, i))]
<1>1. rank \in [1 .. n -> 0 .. n - 1]
  BY RankBound
<1>2. ASSUME NEW i \in 1 .. n, NEW j \in 1 .. n, rank[i] = rank[j] PROVE i = j
  <2>1. CASE Precedes(scores, i, j)
    BY <2>1, <1>2, RankGrows, RankBound, SMTT(30)
  <2>2. CASE Precedes(scores, j, i)
    BY <2>2, <1>2, RankGrows, RankBound
  <2> QED BY <2>1, <2>2, PrecedesOrders
<1>3. rank \in Injection(1 .. n, 0 .. n - 1)
  BY <1>1, <1>2 DEF Injection, IsInjective
<1>4. /\ IsFiniteSet(0 .. n - 1)
      /\ Cardinality(1 .. n) = Cardinality(0 .. n - 1)
  BY FS_Interval
<1>5. rank \in Surjection(1 .. n, 0 .. n - 1)
  BY <1>3, <1>4, FS_Injection
<1>6. k - 1 \in 0 .. n - 1
  OBVIOUS
<1>7. PICK i \in 1 .. n : rank[i] = k - 1
  BY <1>5, <1>6 DEF Surjection
<1> QED BY <1>7

LEMMA SortedRank ==
    ASSUME NEW n \in Nat, NEW scores \in [1 .. n -> Nat], NEW k \in 1 .. n
    PROVE  /\ Sorted(scores)[k] \in 1 .. n
           /\ Cardinality(Before(scores, Sorted(scores)[k])) = k - 1
<1>1. \E i \in DOMAIN scores : Cardinality(Before(scores, i)) = k - 1
  BY RankTaken
<1>2. Sorted(scores)[k] =
        CHOOSE i \in DOMAIN scores : Cardinality(Before(scores, i)) = k - 1
  BY DEF Sorted
<1> QED BY <1>1, <1>2

\* What the sort of the code does, a stable one by falling score: it permutes the places and
\* puts who comes before in front (rag_service.ts:894, 925).
LEMMA SortedProperties ==
    ASSUME NEW n \in Nat, NEW scores \in [1 .. n -> Nat]
    PROVE  /\ Sorted(scores) \in [1 .. n -> 1 .. n]
           /\ \A k, m \in 1 .. n : Sorted(scores)[k] = Sorted(scores)[m] => k = m
           /\ \A i \in 1 .. n : \E k \in 1 .. n : Sorted(scores)[k] = i
           /\ \A k, m \in 1 .. n :
                k < m <=> Precedes(scores, Sorted(scores)[k], Sorted(scores)[m])
<1> DEFINE order == Sorted(scores)
<1>1. order \in [1 .. n -> 1 .. n]
  <2>1. order = [k \in 1 .. n |-> order[k]]
    BY DEF Sorted
  <2> QED BY <2>1, SortedRank
<1>2. ASSUME NEW k \in 1 .. n, NEW m \in 1 .. n, order[k] = order[m] PROVE k = m
  BY <1>2, SortedRank
<1>3. order \in Surjection(1 .. n, 1 .. n)
  <2>1. order \in Injection(1 .. n, 1 .. n)
    BY <1>1, <1>2 DEF Injection, IsInjective
  <2> QED BY <2>1, FS_Injection, FS_Interval
<1>4. ASSUME NEW i \in 1 .. n PROVE \E k \in 1 .. n : order[k] = i
  BY <1>3 DEF Surjection
<1>5. ASSUME NEW k \in 1 .. n, NEW m \in 1 .. n
      PROVE  k < m <=> Precedes(scores, order[k], order[m])
  <2>1. /\ Cardinality(Before(scores, order[k])) = k - 1
        /\ Cardinality(Before(scores, order[m])) = m - 1
    BY SortedRank
  <2>2. order[k] \in 1 .. n /\ order[m] \in 1 .. n
    BY <1>1
  <2>3. CASE order[k] = order[m]
    BY <2>3, <1>2, <2>2, PrecedesOrders
  <2>4. CASE Precedes(scores, order[k], order[m])
    <3>1. Cardinality(Before(scores, order[k])) < Cardinality(Before(scores, order[m]))
      BY <2>2, <2>4, RankGrows
    <3> QED BY <2>1, <2>4, <3>1
  <2>5. CASE Precedes(scores, order[m], order[k])
    <3>1. m < k
      BY <2>1, <2>2, <2>5, RankGrows, SMTT(30)
    <3> QED BY <3>1, <2>2, <2>5, PrecedesOrders
  <2> QED BY <2>2, <2>3, <2>4, <2>5, PrecedesOrders
<1> HIDE DEF order
<1>6. /\ order \in [1 .. n -> 1 .. n]
      /\ \A k, m \in 1 .. n : order[k] = order[m] => k = m
      /\ \A i \in 1 .. n : \E k \in 1 .. n : order[k] = i
      /\ \A k, m \in 1 .. n : k < m <=> Precedes(scores, order[k], order[m])
  BY <1>1, <1>2, <1>4, <1>5
<1> QED BY <1>6 DEF order
-----------------------------------------------------------------------------
(* The two orders of the hits *)

LEMMA Products ==
    ASSUME NEW a \in Nat, NEW b \in Nat, NEW x \in Nat, NEW y \in Nat, a <= b, x <= y
    PROVE  /\ a * x \in Nat /\ b * y \in Nat /\ a * x <= b * y
           /\ a < b /\ 0 < y => a * x < b * y
<1>1. a * x <= b * x /\ b * x <= b * y /\ a * y <= b * y /\ a * x <= a * y
  BY SMT
<1>2. ASSUME a < b, 0 < y PROVE a * y < b * y
  BY <1>2
<1>3. a * x \in Nat /\ a * y \in Nat /\ b * x \in Nat /\ b * y \in Nat
  OBVIOUS
<1> QED BY <1>1, <1>2, <1>3

LEMMA FinalScoreType ==
    ASSUME NEW h \in Hit
    PROVE  FinalScore(h) \in Nat
<1>1. h.score \in 0 .. 100 /\ h.boost \in 0 .. 17
  BY SearchAssumption
<1>2. h.score * (100 + h.boost) \in Nat
  BY <1>1, SMTT(30)
<1> QED BY <1>1, <1>2 DEF FinalScore

\* Words do not help a hit below the gate, and do not harm the others.
LEMMA FinalScoreGated ==
    ASSUME NEW poor \in Hit, NEW better \in Hit,
           poor.score < Gate, better.score > poor.score
    PROVE  FinalScore(better) > FinalScore(poor)
<1>4. poor.score \in 0 .. 100 /\ better.score \in 0 .. 100 /\ better.boost \in 0 .. 17
  BY SearchAssumption
<1>1. /\ poor.score \in 0 .. 100 /\ better.score \in 0 .. 100
      /\ 100 + better.boost \in Nat /\ 100 <= 100 + better.boost
  BY <1>4
<1>2. FinalScore(poor) = 100 * poor.score
  BY DEF FinalScore
<1>3. /\ better.score * (100 + better.boost) \in Nat
      /\ better.score * 100 <= better.score * (100 + better.boost)
  BY <1>1, Products
<1> QED BY <1>1, <1>2, <1>3 DEF FinalScore, Gate

\* The store has been searched and the hits are in order.
Reranked ==
    /\ hits \in Seq(Hit) /\ Len(hits) <= MaxHits
    /\ ranked = ByFinalScore

LEMMA RankedProperties ==
    ASSUME Reranked
    PROVE  /\ Len(hits) \in Nat
           /\ ranked \in [1 .. Len(hits) -> 1 .. Len(hits)]
           /\ \A p, q \in 1 .. Len(hits) : ranked[p] = ranked[q] => p = q
           /\ \A i \in 1 .. Len(hits) : \E p \in 1 .. Len(hits) : ranked[p] = i
           /\ \A p \in 1 .. Len(hits) : hits[ranked[p]] \in Hit
           /\ \A p, q \in 1 .. Len(hits) :
                p < q => FinalScore(hits[ranked[p]]) >= FinalScore(hits[ranked[q]])
<1> DEFINE n == Len(hits)
<1>1. n \in Nat /\ hits \in [1 .. n -> Hit]
  BY DEF Reranked
<1>2. FinalScores \in [1 .. n -> Nat]
  BY <1>1, FinalScoreType DEF FinalScores
<1>3. ranked = Sorted(FinalScores)
  BY DEF Reranked, ByFinalScore
<1>4. /\ ranked \in [1 .. n -> 1 .. n]
      /\ \A p, q \in 1 .. n : ranked[p] = ranked[q] => p = q
      /\ \A i \in 1 .. n : \E p \in 1 .. n : ranked[p] = i
      /\ \A p, q \in 1 .. n : p < q <=> Precedes(FinalScores, ranked[p], ranked[q])
  <2>1. /\ Sorted(FinalScores) \in [1 .. n -> 1 .. n]
        /\ \A k, m \in 1 .. n : Sorted(FinalScores)[k] = Sorted(FinalScores)[m] => k = m
        /\ \A i \in 1 .. n : \E k \in 1 .. n : Sorted(FinalScores)[k] = i
        /\ \A k, m \in 1 .. n :
             k < m <=> Precedes(FinalScores, Sorted(FinalScores)[k], Sorted(FinalScores)[m])
    <3> HIDE DEF n
    <3> QED BY <1>1, <1>2, SortedProperties, Zenon
  <2> QED BY <1>3, <2>1
<1>5. ASSUME NEW p \in 1 .. n, NEW q \in 1 .. n, p < q
      PROVE  FinalScore(hits[ranked[p]]) >= FinalScore(hits[ranked[q]])
  <2>1. ranked[p] \in 1 .. n /\ ranked[q] \in 1 .. n
    BY <1>4
  <2>2. Precedes(FinalScores, ranked[p], ranked[q])
    BY <1>4, <1>5
  <2>3. FinalScores[ranked[p]] >= FinalScores[ranked[q]]
    BY <1>2, <2>1, <2>2 DEF Precedes
  <2> QED BY <1>1, <2>1, <2>3 DEF FinalScores
<1> QED BY <1>1, <1>4, <1>5

\* The document and the score of the hit at a place of the reranked order.
Document(p) == hits[ranked[p]].source
Score(p) == FinalScore(hits[ranked[p]])
SameBefore(p) == {q \in 1 .. p - 1 : Document(q) = Document(p)}

LEMMA SeenBound ==
    ASSUME NEW p \in Nat \ {0}
    PROVE  /\ IsFiniteSet(SameBefore(p))
           /\ SeenBefore(ranked, p) = Cardinality(SameBefore(p))
           /\ SeenBefore(ranked, p) \in 0 .. p - 1
<1>1. IsFiniteSet(1 .. p - 1) /\ Cardinality(1 .. p - 1) = p - 1
  BY FS_Interval
<1>2. SameBefore(p) \subseteq 1 .. p - 1
  BY DEF SameBefore
<1>3. IsFiniteSet(SameBefore(p)) /\ Cardinality(SameBefore(p)) <= p - 1
  BY <1>1, <1>2, FS_Subset
<1>4. SeenBefore(ranked, p) = Cardinality(SameBefore(p))
  BY DEF SeenBefore, SameBefore, Document
<1> QED BY <1>3, <1>4, FS_CardinalityType

LEMMA SeenGrows ==
    ASSUME NEW p \in Nat \ {0}, NEW q \in Nat, p < q, Document(p) = Document(q)
    PROVE  SeenBefore(ranked, p) < SeenBefore(ranked, q)
<1>1. SameBefore(p) \cup {p} \subseteq SameBefore(q) /\ p \notin SameBefore(p)
  BY DEF SameBefore
<1>2. Cardinality(SameBefore(p) \cup {p}) = SeenBefore(ranked, p) + 1
  BY <1>1, SeenBound, FS_AddElement, ZenonT(40)
<1>3. Cardinality(SameBefore(p) \cup {p}) <= SeenBefore(ranked, q)
  BY <1>1, SeenBound, FS_Subset
<1> QED BY <1>2, <1>3, SeenBound

LEMMA PenaltyOfSeen ==
    ASSUME Reranked, NEW p \in 1 .. Len(hits)
    PROVE  /\ SeenBefore(ranked, p) \in 0 .. MaxHits - 1
           /\ Penalty[SeenBefore(ranked, p)] \in Nat \ {0}
<1>1. p \in Nat \ {0} /\ p <= MaxHits /\ MaxHits \in Nat
  BY RankedProperties, SearchAssumption DEF Reranked
<1>2. SeenBefore(ranked, p) \in 0 .. p - 1
  BY <1>1, SeenBound
<1>3. SeenBefore(ranked, p) \in 0 .. MaxHits - 1
  BY <1>1, <1>2
<1> QED BY <1>3, SearchAssumption

LEMMA PenaltyFalls ==
    ASSUME NEW m \in 0 .. MaxHits - 1, NEW n \in 0 .. MaxHits - 1, m <= n
    PROVE  Penalty[n] <= Penalty[m]
<1>1. CASE m = n
  BY <1>1, SearchAssumption
<1>2. CASE m < n
  BY <1>2, SearchAssumption
<1> QED BY <1>1, <1>2, SearchAssumption

LEMMA DiverseScoreType ==
    ASSUME Reranked
    PROVE  /\ DiverseScores \in [1 .. Len(hits) -> Nat]
           /\ \A p \in 1 .. Len(hits) :
                /\ Score(p) \in Nat
                /\ DiverseScores[p] = Score(p) * Penalty[SeenBefore(ranked, p)]
<1>1. DOMAIN ranked = 1 .. Len(hits)
  BY RankedProperties
<1>2. ASSUME NEW p \in 1 .. Len(hits)
      PROVE  /\ Score(p) \in Nat
             /\ Score(p) * Penalty[SeenBefore(ranked, p)] \in Nat
  <2>1. Score(p) \in Nat
    BY RankedProperties, FinalScoreType DEF Score
  <2>2. Penalty[SeenBefore(ranked, p)] \in Nat
    BY PenaltyOfSeen
  <2> QED BY <2>1, <2>2
<1> QED BY <1>1, <1>2 DEF DiverseScores, Score

\* Within a document the two orders agree.
LEMMA DocumentInOrder ==
    ASSUME Reranked, NEW p \in 1 .. Len(hits), NEW q \in 1 .. Len(hits),
           Document(p) = Document(q), p < q
    PROVE  Precedes(DiverseScores, p, q)
<1>1. Score(q) <= Score(p) /\ Score(p) \in Nat /\ Score(q) \in Nat
  BY RankedProperties, DiverseScoreType DEF Score
<1>2. SeenBefore(ranked, p) <= SeenBefore(ranked, q)
  <2>0. Len(hits) \in Nat
    BY RankedProperties
  <2>1. p \in Nat \ {0} /\ q \in Nat \ {0}
    BY <2>0
  <2>2. SeenBefore(ranked, p) < SeenBefore(ranked, q)
    BY <2>1, SeenGrows
  <2> QED BY <2>1, <2>2, SeenBound
<1>3. /\ Penalty[SeenBefore(ranked, q)] <= Penalty[SeenBefore(ranked, p)]
      /\ Penalty[SeenBefore(ranked, p)] \in Nat
      /\ Penalty[SeenBefore(ranked, q)] \in Nat
  BY <1>2, PenaltyOfSeen, PenaltyFalls
<1>4. Score(q) * Penalty[SeenBefore(ranked, q)] <= Score(p) * Penalty[SeenBefore(ranked, p)]
  BY <1>1, <1>3, Products
<1>5. DiverseScores[q] <= DiverseScores[p]
  BY <1>4, DiverseScoreType
<1>6. DiverseScores[p] \in Nat /\ DiverseScores[q] \in Nat
  BY DiverseScoreType
<1> QED BY <1>5, <1>6 DEF Precedes
-----------------------------------------------------------------------------
(* The results *)

Order == Sorted(DiverseScores)
Wanted == IF Len(hits) < Limit THEN Len(hits) ELSE Limit

LEMMA OrderProperties ==
    ASSUME Reranked
    PROVE  /\ Order \in [1 .. Len(hits) -> 1 .. Len(hits)]
           /\ \A k, m \in 1 .. Len(hits) : Order[k] = Order[m] => k = m
           /\ \A p \in 1 .. Len(hits) : \E k \in 1 .. Len(hits) : Order[k] = p
           /\ \A k, m \in 1 .. Len(hits) :
                k < m <=> Precedes(DiverseScores, Order[k], Order[m])
<1> DEFINE n == Len(hits)
<1>1. n \in Nat /\ DiverseScores \in [1 .. n -> Nat]
  BY RankedProperties, DiverseScoreType
<1> HIDE DEF n
<1>2. /\ Order \in [1 .. n -> 1 .. n]
      /\ \A k, m \in 1 .. n : Order[k] = Order[m] => k = m
      /\ \A p \in 1 .. n : \E k \in 1 .. n : Order[k] = p
      /\ \A k, m \in 1 .. n : k < m <=> Precedes(DiverseScores, Order[k], Order[m])
  BY <1>1, SortedProperties, Zenon DEF Order
<1> QED BY <1>2 DEF n

LEMMA TopResultsProperties ==
    ASSUME Reranked
    PROVE  /\ Wanted \in 0 .. Len(hits) /\ Wanted <= Limit
           /\ TopResults \in [1 .. Wanted -> 1 .. Len(hits)]
           /\ TopResults \in Seq(1 .. Len(hits)) /\ Len(TopResults) = Wanted
           /\ \A k \in 1 .. Wanted : TopResults[k] = ranked[Order[k]]
           /\ \A k, m \in 1 .. Wanted : TopResults[k] = TopResults[m] => k = m
<1> DEFINE n == Len(hits)
<1>1. /\ n \in Nat /\ Limit \in Nat
      /\ Order \in [1 .. n -> 1 .. n] /\ ranked \in [1 .. n -> 1 .. n]
  BY RankedProperties, OrderProperties, SearchAssumption
<1>2. ByDiversity = [k \in 1 .. n |-> ranked[Order[k]]]
  BY <1>1 DEF ByDiversity, Order
<1>3. ByDiversity \in Seq(1 .. n) /\ Len(ByDiversity) = n
  <2>1. ByDiversity \in [1 .. n -> 1 .. n]
    BY <1>1, <1>2
  <2> HIDE DEF n
  <2> QED BY <1>1, <2>1
<1>4. Wanted \in 0 .. n /\ Wanted <= Limit
  BY <1>1 DEF Wanted
<1>5. TopResults = SubSeq(ByDiversity, 1, Wanted)
  BY DEF TopResults, Wanted
<1>6. /\ TopResults \in Seq(1 .. n) /\ Len(TopResults) = Wanted
      /\ \A k \in 1 .. Wanted : TopResults[k] = ByDiversity[k]
  BY <1>3, <1>4, <1>5, SMTT(30)
<1>7. ASSUME NEW k \in 1 .. Wanted PROVE TopResults[k] = ranked[Order[k]]
  <2>1. k \in 1 .. n
    BY <1>1, <1>4
  <2> QED BY <1>2, <1>6, <2>1
<1>8. ASSUME NEW k \in 1 .. Wanted, NEW m \in 1 .. Wanted, TopResults[k] = TopResults[m]
      PROVE  k = m
  <2>1. k \in 1 .. n /\ m \in 1 .. n /\ ranked[Order[k]] = ranked[Order[m]]
    BY <1>4, <1>7, <1>8
  <2>2. Order[k] = Order[m]
    BY <2>1, <1>1, RankedProperties
  <2> QED BY <2>1, <2>2, OrderProperties
<1> QED BY <1>4, <1>6, <1>7, <1>8

\* The first hit of a document is not weighed.
LEMMA FirstOfDocument ==
    ASSUME Reranked, NEW q \in 1 .. Len(hits)
    PROVE  \E first \in 1 .. q :
             /\ Document(first) = Document(q)
             /\ SeenBefore(ranked, first) = 0
<1> DEFINE same == {p \in 1 .. Len(hits) : Document(p) = Document(q)}
<1>1. q \in same /\ same \subseteq Nat
  OBVIOUS
<1>2. PICK first \in same : \A p \in same : first <= p
  BY <1>1, Smallest
<1>3. SameBefore(first) = {}
  BY <1>2, RankedProperties DEF SameBefore
<1>4. SeenBefore(ranked, first) = 0
  <2>1. first \in Nat \ {0}
    BY <1>2
  <2> QED BY <2>1, <1>3, SeenBound, FS_EmptySet
<1> QED BY <1>1, <1>2, <1>4

\* The first hit of the document of a better hit precedes a hit below the gate.
LEMMA FirstOfBetterPrecedes ==
    ASSUME Reranked, NEW p \in 1 .. Len(hits), NEW q \in 1 .. Len(hits),
           hits[ranked[p]].score < Gate,
           hits[ranked[q]].score > hits[ranked[p]].score
    PROVE  \E first \in 1 .. Len(hits) :
             Document(first) = Document(q) /\ Precedes(DiverseScores, first, p)
<1>1. Len(hits) \in Nat /\ hits[ranked[p]] \in Hit /\ hits[ranked[q]] \in Hit
  BY RankedProperties
<1>2. Score(q) > Score(p)
  BY <1>1, FinalScoreGated DEF Score
<1>3. PICK first \in 1 .. q : Document(first) = Document(q) /\ SeenBefore(ranked, first) = 0
  BY FirstOfDocument
<1>4. first \in 1 .. Len(hits)
  BY <1>1
<1>5. Score(first) >= Score(q)
  <2>1. CASE first = q
    BY <2>1, DiverseScoreType
  <2>2. CASE first < q
    BY <2>2, <1>4, RankedProperties DEF Score
  <2> QED BY <2>1, <2>2
<1>6. /\ Score(p) \in Nat /\ Score(q) \in Nat /\ Score(first) \in Nat
      /\ DiverseScores[p] = Score(p) * Penalty[SeenBefore(ranked, p)]
      /\ DiverseScores[first] = Score(first) * Penalty[0]
  BY <1>3, <1>4, DiverseScoreType
<1>7. /\ Penalty[SeenBefore(ranked, p)] <= Penalty[0]
      /\ Penalty[SeenBefore(ranked, p)] \in Nat
      /\ Penalty[0] \in Nat \ {0}
  <2>1. /\ SeenBefore(ranked, p) \in 0 .. MaxHits - 1 /\ 0 \in 0 .. MaxHits - 1
        /\ Penalty[SeenBefore(ranked, p)] \in Nat \ {0} /\ Penalty[0] \in Nat \ {0}
    BY <1>3, <1>4, PenaltyOfSeen
  <2>2. 0 <= SeenBefore(ranked, p)
    BY <2>1
  <2> QED BY <2>1, <2>2, PenaltyFalls
<1>8. Score(p) * Penalty[SeenBefore(ranked, p)] < Score(first) * Penalty[0]
  <2>1. Score(p) < Score(first) /\ Score(p) <= Score(first) /\ 0 < Penalty[0] /\ Penalty[0] \in Nat
    BY <1>2, <1>5, <1>6, <1>7
  <2> QED BY <1>6, <1>7, <2>1, Products
<1>9. Precedes(DiverseScores, first, p)
  <2>1. DiverseScores[p] \in Nat /\ DiverseScores[first] \in Nat
    BY <1>4, DiverseScoreType
  <2> QED BY <1>6, <1>8, <2>1 DEF Precedes
<1> QED BY <1>3, <1>4, <1>9

\* It is a result, then, before both.
LEMMA PoorAfterAnother ==
    ASSUME Reranked, NEW a \in 1 .. Wanted, NEW b \in 1 .. Wanted,
           hits[TopResults[a]].score < Gate,
           hits[TopResults[b]].score > hits[TopResults[a]].score
    PROVE  \E c \in 1 .. a - 1 : hits[TopResults[c]].source = hits[TopResults[b]].source
<1>1. Wanted \in 0 .. Len(hits) /\ Len(hits) \in Nat
  BY TopResultsProperties, RankedProperties
<1>2. a \in 1 .. Len(hits) /\ b \in 1 .. Len(hits)
  BY <1>1
<1>3. /\ Order[a] \in 1 .. Len(hits) /\ Order[b] \in 1 .. Len(hits)
      /\ TopResults[a] = ranked[Order[a]] /\ TopResults[b] = ranked[Order[b]]
  BY <1>2, OrderProperties, TopResultsProperties
<1>4. PICK first \in 1 .. Len(hits) :
        Document(first) = Document(Order[b]) /\ Precedes(DiverseScores, first, Order[a])
  BY <1>3, FirstOfBetterPrecedes
<1>5. PICK c \in 1 .. Len(hits) : Order[c] = first
  BY OrderProperties
<1>6. c < a
  BY <1>2, <1>4, <1>5, OrderProperties
<1>7. c \in 1 .. a - 1 /\ c \in 1 .. Wanted
  BY <1>1, <1>5, <1>6
<1>8. TopResults[c] = ranked[first]
  BY <1>5, <1>7, TopResultsProperties
<1> QED BY <1>3, <1>4, <1>7, <1>8 DEF Document
-----------------------------------------------------------------------------
(* The results are the greedy selection *)

\* The places of the results before the k-th.
Chosen(k) == {Order[m] : m \in 1 .. k - 1}
Picked(k) == SubSeq(TopResults, 1, k - 1)

LEMMA PickedChosen ==
    ASSUME Reranked, NEW k \in 1 .. Wanted
    PROVE  /\ Chosen(k) \subseteq 1 .. Len(hits)
           /\ Order[k] \in (1 .. Len(hits)) \ Chosen(k)
           /\ Range(Picked(k)) = {ranked[p] : p \in Chosen(k)}
<1>1. Wanted \in 0 .. Len(hits) /\ Len(hits) \in Nat
  BY TopResultsProperties, RankedProperties
<1>2. k \in 1 .. Len(hits) /\ \A m \in 1 .. k - 1 : m \in 1 .. Len(hits) /\ m \in 1 .. Wanted /\ m # k
  BY <1>1
<1>3. Chosen(k) \subseteq 1 .. Len(hits)
  <2>1. \A m \in 1 .. k - 1 : Order[m] \in 1 .. Len(hits)
    BY <1>2, OrderProperties
  <2> QED BY <2>1 DEF Chosen
<1>4. Order[k] \in (1 .. Len(hits)) \ Chosen(k)
  BY <1>2, OrderProperties DEF Chosen
<1>5. /\ DOMAIN Picked(k) = 1 .. k - 1
      /\ \A m \in 1 .. k - 1 : Picked(k)[m] = TopResults[m]
  <2>1. TopResults \in Seq(1 .. Len(hits)) /\ Len(TopResults) = Wanted /\ k - 1 \in 0 .. Wanted
    BY <1>1, TopResultsProperties
  <2> QED BY <2>1 DEF Picked
<1>6. \A m \in 1 .. k - 1 : Picked(k)[m] = ranked[Order[m]]
  BY <1>2, <1>5, TopResultsProperties
<1>7. Range(Picked(k)) = {Picked(k)[m] : m \in 1 .. k - 1}
  BY <1>5 DEF Range
<1>8. Range(Picked(k)) = {ranked[p] : p \in Chosen(k)}
  BY <1>6, <1>7 DEF Chosen
<1> QED BY <1>3, <1>4, <1>8

\* Place p is the first of its document that is not chosen: the chosen ones are those before.
FirstLeft(k, p) ==
    \A q \in 1 .. Len(hits) : Document(q) = Document(p) => (q < p <=> q \in Chosen(k))

LEMMA LeftHasFirst ==
    ASSUME Reranked, NEW k \in 1 .. Wanted, NEW q \in (1 .. Len(hits)) \ Chosen(k)
    PROVE  \E p \in (1 .. Len(hits)) \ Chosen(k) :
             p <= q /\ Document(p) = Document(q) /\ FirstLeft(k, p)
<1> DEFINE left == {p \in (1 .. Len(hits)) \ Chosen(k) : Document(p) = Document(q)}
<1>1. q \in left /\ left \subseteq Nat
  OBVIOUS
<1>2. PICK p \in left : \A r \in left : p <= r
  BY <1>1, Smallest
<1>3. ASSUME NEW r \in 1 .. Len(hits), Document(r) = Document(p)
      PROVE  r < p <=> r \in Chosen(k)
  <2>1. ASSUME r < p PROVE r \in Chosen(k)
    BY <1>2, <1>3, <2>1
  <2>2. ASSUME r \in Chosen(k), ~(r < p) PROVE FALSE
    <3>1. p < r
      BY <1>2, <2>2
    <3>2. Precedes(DiverseScores, p, r)
      BY <1>2, <1>3, <3>1, DocumentInOrder
    <3>3. PICK m \in 1 .. k - 1 : Order[m] = r
      BY <2>2 DEF Chosen
    <3>4. PICK l \in 1 .. Len(hits) : Order[l] = p
      BY <1>2, OrderProperties
    <3>5. m \in 1 .. Len(hits)
      BY <3>3, TopResultsProperties, RankedProperties
    <3>6. l < m
      BY <3>2, <3>3, <3>4, <3>5, OrderProperties
    <3>7. l \in 1 .. k - 1
      BY <3>3, <3>4, <3>6
    <3> QED BY <1>2, <3>4, <3>7 DEF Chosen
  <2> QED BY <2>1, <2>2
<1> QED BY <1>1, <1>2, <1>3 DEF FirstLeft

\* The next result is the first left of its document.
LEMMA NextIsFirstLeft ==
    ASSUME Reranked, NEW k \in 1 .. Wanted
    PROVE  FirstLeft(k, Order[k])
<1>1. Order[k] \in (1 .. Len(hits)) \ Chosen(k)
  BY PickedChosen
<1>2. PICK p \in (1 .. Len(hits)) \ Chosen(k) :
        p <= Order[k] /\ Document(p) = Document(Order[k]) /\ FirstLeft(k, p)
  BY <1>1, LeftHasFirst
<1>3. ASSUME p # Order[k] PROVE FALSE
  <2>1. Precedes(DiverseScores, p, Order[k])
    BY <1>1, <1>2, <1>3, DocumentInOrder
  <2>2. PICK l \in 1 .. Len(hits) : Order[l] = p
    BY <1>2, OrderProperties
  <2>3. k \in 1 .. Len(hits)
    BY TopResultsProperties, RankedProperties
  <2>4. l < k
    BY <2>1, <2>2, <2>3, OrderProperties
  <2> QED BY <1>2, <2>2, <2>3, <2>4 DEF Chosen
<1> QED BY <1>2, <1>3

\* What is left of a document is weighed as the first of it was.
LEMMA WorthOfLeft ==
    ASSUME Reranked, NEW k \in 1 .. Wanted,
           NEW p \in 1 .. Len(hits), NEW q \in 1 .. Len(hits),
           Document(p) = Document(q), FirstLeft(k, p)
    PROVE  Worth(Picked(k), ranked[q]) = Score(q) * Penalty[SeenBefore(ranked, p)]
<1> DEFINE same == {j \in Range(Picked(k)) : hits[j].source = hits[ranked[q]].source}
<1> DEFINE f == [r \in SameBefore(p) |-> ranked[r]]
<1>1. \A r \in SameBefore(p) : r \in 1 .. Len(hits) /\ r < p /\ Document(r) = Document(p)
  BY RankedProperties DEF SameBefore
<1>2. f \in [SameBefore(p) -> same]
  <2>1. ASSUME NEW r \in SameBefore(p) PROVE ranked[r] \in same
    <3>1. r \in Chosen(k)
      BY <1>1 DEF FirstLeft
    <3>2. ranked[r] \in Range(Picked(k))
      BY <3>1, PickedChosen
    <3>3. hits[ranked[r]].source = hits[ranked[q]].source
      BY <1>1 DEF Document
    <3> QED BY <3>2, <3>3
  <2> QED BY <2>1
<1>3. ASSUME NEW r \in SameBefore(p), NEW s \in SameBefore(p), f[r] = f[s] PROVE r = s
  BY <1>1, <1>3, RankedProperties
<1>4. ASSUME NEW j \in same PROVE \E r \in SameBefore(p) : f[r] = j
  <2>1. PICK r \in Chosen(k) : j = ranked[r]
    BY PickedChosen
  <2>2. r \in 1 .. Len(hits) /\ Document(r) = Document(p)
    BY <2>1, PickedChosen DEF Document
  <2>3. r < p
    BY <2>1, <2>2 DEF FirstLeft
  <2>4. r \in SameBefore(p)
    BY <2>2, <2>3 DEF SameBefore
  <2> QED BY <2>1, <2>4
<1>5. f \in Bijection(SameBefore(p), same)
  BY <1>2, <1>3, <1>4 DEF Bijection, Injection, Surjection, IsInjective
<1>6. Cardinality(same) = SeenBefore(ranked, p)
  <2>1. p \in Nat \ {0}
    BY RankedProperties
  <2>2. ExistsBijection(SameBefore(p), same)
    BY <1>5 DEF ExistsBijection
  <2> HIDE DEF same
  <2> QED BY <2>1, <2>2, SeenBound, FS_Bijection
<1> QED BY <1>6 DEF Worth, Score

\* The next result is worth the most, and comes first among equals.
LEMMA NextIsBest ==
    ASSUME Reranked, NEW k \in 1 .. Wanted,
           NEW q \in (1 .. Len(hits)) \ Chosen(k), q # Order[k]
    PROVE  LET next == Worth(Picked(k), ranked[Order[k]])
               other == Worth(Picked(k), ranked[q])
           IN  /\ next \in Nat /\ other \in Nat
               /\ next > other \/ (next = other /\ Order[k] < q)
<1> DEFINE next == Order[k]
<1>1. next \in (1 .. Len(hits)) \ Chosen(k) /\ FirstLeft(k, next)
  BY PickedChosen, NextIsFirstLeft
<1>2. PICK p \in (1 .. Len(hits)) \ Chosen(k) :
        p <= q /\ Document(p) = Document(q) /\ FirstLeft(k, p)
  BY LeftHasFirst
<1>3. Worth(Picked(k), ranked[next]) = DiverseScores[next]
  BY <1>1, WorthOfLeft, DiverseScoreType
<1>4. Worth(Picked(k), ranked[q]) = Score(q) * Penalty[SeenBefore(ranked, p)]
  BY <1>2, WorthOfLeft
<1>5. /\ Score(q) * Penalty[SeenBefore(ranked, p)] \in Nat
      /\ Score(q) * Penalty[SeenBefore(ranked, p)] <= DiverseScores[p]
  <2>1. Score(q) <= Score(p)
    <3>1. CASE p = q
      BY <3>1, DiverseScoreType
    <3>2. CASE p < q
      BY <3>2, RankedProperties DEF Score
    <3> QED BY <1>2, <3>1, <3>2
  <2>2. /\ Score(q) \in Nat /\ Score(p) \in Nat
        /\ Penalty[SeenBefore(ranked, p)] \in Nat
        /\ Penalty[SeenBefore(ranked, p)] <= Penalty[SeenBefore(ranked, p)]
        /\ DiverseScores[p] = Score(p) * Penalty[SeenBefore(ranked, p)]
    BY <1>2, DiverseScoreType, PenaltyOfSeen
  <2> QED BY <2>1, <2>2, Products
<1>6. DiverseScores[next] \in Nat /\ DiverseScores[p] \in Nat
  BY <1>1, <1>2, DiverseScoreType
<1>7. CASE p = next
  BY <1>2, <1>3, <1>4, <1>5, <1>6, <1>7
<1>8. CASE p # next
  <2>1. PICK l \in 1 .. Len(hits) : Order[l] = p
    BY <1>2, OrderProperties
  <2>2. k \in 1 .. Len(hits)
    BY TopResultsProperties, RankedProperties
  <2>3. k < l
    BY <1>2, <1>8, <2>1, <2>2 DEF Chosen
  <2>4. Precedes(DiverseScores, next, p)
    BY <2>1, <2>2, <2>3, OrderProperties
  <2> QED BY <1>1, <1>2, <1>3, <1>4, <1>5, <1>6, <2>4 DEF Precedes
<1> QED BY <1>7, <1>8

LEMMA NextPickIsNext ==
    ASSUME Reranked, NEW k \in 1 .. Wanted
    PROVE  TopResults[k] = NextPick(Picked(k))
<1> DEFINE left == DOMAIN hits \ Range(Picked(k))
<1> DEFINE place == [i \in DOMAIN hits |-> CHOOSE p \in DOMAIN ranked : ranked[p] = i]
<1> DEFINE Beats(i, j) ==
             \/ Worth(Picked(k), i) > Worth(Picked(k), j)
             \/ Worth(Picked(k), i) = Worth(Picked(k), j) /\ place[i] < place[j]
<1> DEFINE best == ranked[Order[k]]
<1>1. TopResults[k] = best
  BY TopResultsProperties
<1>2. DOMAIN hits = 1 .. Len(hits) /\ DOMAIN ranked = 1 .. Len(hits)
  BY RankedProperties DEF Reranked
<1>3. ASSUME NEW p \in 1 .. Len(hits) PROVE place[ranked[p]] = p /\ ranked[p] \in DOMAIN hits
  BY <1>2, RankedProperties
<1>4. ASSUME NEW p \in 1 .. Len(hits) PROVE ranked[p] \in left <=> p \notin Chosen(k)
  <2>1. ranked[p] \in Range(Picked(k)) <=> p \in Chosen(k)
    BY PickedChosen, RankedProperties
  <2> QED BY <1>3, <2>1
<1>5. Order[k] \in (1 .. Len(hits)) \ Chosen(k)
  BY PickedChosen
<1>6. best \in left
  BY <1>4, <1>5
<1>7. ASSUME NEW j \in left \ {best}
      PROVE  /\ Beats(best, j)
             /\ ~Beats(j, best)
  <2>1. PICK q \in 1 .. Len(hits) : ranked[q] = j
    BY <1>2, RankedProperties
  <2>2. q \notin Chosen(k) /\ q # Order[k]
    BY <1>4, <2>1
  <2>3. place[best] = Order[k] /\ place[j] = q
    BY <1>3, <1>5, <2>1
  <2> DEFINE worth == Worth(Picked(k), best)
  <2> DEFINE other == Worth(Picked(k), j)
  <2>4. /\ worth \in Nat /\ other \in Nat
        /\ worth > other \/ (worth = other /\ Order[k] < q)
    BY <2>1, <2>2, NextIsBest
  <2>5. q \in Nat /\ Order[k] \in Nat
    BY <1>5
  <2> HIDE DEF worth, other, place, best
  <2>6. /\ worth > other \/ (worth = other /\ place[best] < place[j])
        /\ ~(other > worth \/ (other = worth /\ place[j] < place[best]))
    BY <2>3, <2>4, <2>5
  <2> QED BY <2>6 DEF worth, other
<1>8. NextPick(Picked(k)) = CHOOSE i \in left : \A j \in left \ {i} : Beats(i, j)
  BY DEF NextPick
<1> HIDE DEF left, best, Beats
<1>9. best = CHOOSE i \in left : \A j \in left \ {i} : Beats(i, j)
  <2>1. \A j \in left \ {best} : Beats(best, j)
    BY <1>7
  <2>2. ASSUME NEW i \in left, \A j \in left \ {i} : Beats(i, j) PROVE i = best
    BY <1>6, <1>7, <2>2
  <2> QED BY <1>6, <2>1, <2>2
<1> QED BY <1>1, <1>8, <1>9
-----------------------------------------------------------------------------
(* What the model is told *)

\* The recursion of the running total has a solution, then it has this one.
Adds(f, results, last) ==
    f = [p \in 0 .. last |-> IF p = 0 THEN 0 ELSE f[p - 1] + hits[results[p]].length]

LEMMA TotalExists ==
    ASSUME NEW results \in Seq(Int),
           \A p \in DOMAIN results : hits[results[p]].length \in Nat
    PROVE  \A last \in 0 .. Len(results) :
             \E f \in [0 .. last -> Nat] : Adds(f, results, last)
<1> DEFINE Summed(last) == \E f \in [0 .. last -> Nat] : Adds(f, results, last)
<1> DEFINE bad == {last \in 0 .. Len(results) : ~Summed(last)}
<1> SUFFICES ASSUME bad # {} PROVE FALSE
  OBVIOUS
<1>1. PICK last \in bad : \A l \in bad : last <= l
  <2>1. bad \subseteq Nat
    OBVIOUS
  <2> HIDE DEF bad
  <2> QED BY <2>1, Smallest
<1>2. CASE last = 0
  <2>1. [p \in 0 .. 0 |-> 0] \in [0 .. 0 -> Nat] /\ Adds([p \in 0 .. 0 |-> 0], results, 0)
    BY DEF Adds
  <2> QED BY <1>1, <1>2, <2>1
<1>3. CASE last > 0
  <2>1. last - 1 \in 0 .. Len(results) /\ last \in DOMAIN results /\ Summed(last - 1)
    <3> HIDE DEF Summed
    <3> QED BY <1>1, <1>3
  <2>2. PICK f \in [0 .. last - 1 -> Nat] : Adds(f, results, last - 1)
    BY <2>1
  <2> DEFINE g == [p \in 0 .. last |->
                    IF p = last THEN f[last - 1] + hits[results[last]].length ELSE f[p]]
  <2>3. g \in [0 .. last -> Nat]
    <3>1. f[last - 1] \in Nat /\ hits[results[last]].length \in Nat
      BY <1>3, <2>1, <2>2
    <3>2. \A p \in 0 .. last : p # last => f[p] \in Nat
      <4>1. \A p \in 0 .. last : p # last => p \in 0 .. last - 1
        BY <2>1
      <4> QED BY <2>2, <4>1
    <3> QED BY <3>1, <3>2, SMTT(30)
  <2>4. ASSUME NEW p \in 0 .. last
        PROVE  g[p] = IF p = 0 THEN 0 ELSE g[p - 1] + hits[results[p]].length
    <3>1. CASE p = last
      BY <1>3, <2>1, <3>1
    <3>2. CASE p # last
      <4>1. p \in 0 .. last - 1 /\ g[p] = f[p] /\ (p # 0 => p - 1 \in 0 .. last /\ g[p - 1] = f[p - 1])
        BY <2>1, <3>2, SMTT(30)
      <4>2. f[p] = IF p = 0 THEN 0 ELSE f[p - 1] + hits[results[p]].length
        BY <2>2, <4>1 DEF Adds
      <4> QED BY <4>1, <4>2
    <3> QED BY <3>1, <3>2
  <2>5. Adds(g, results, last)
    <3> DEFINE h == [p \in 0 .. last |-> IF p = 0 THEN 0 ELSE g[p - 1] + hits[results[p]].length]
    <3>1. DOMAIN g = 0 .. last /\ \A p \in 0 .. last : g[p] = h[p]
      BY <2>4
    <3>2. g = h
      BY <2>3, <3>1
    <3> QED BY <3>2 DEF Adds
  <2> HIDE DEF g
  <2> QED BY <1>1, <2>3, <2>5
<1> QED BY <1>1, <1>2, <1>3

LEMMA TotalAdds ==
    ASSUME NEW results \in Seq(Int),
           \A p \in DOMAIN results : hits[results[p]].length \in Nat
    PROVE  Adds(TotalLength(results), results, Len(results))
<1>1. \E f : Adds(f, results, Len(results))
  BY TotalExists
<1>2. TotalLength(results) = CHOOSE f : Adds(f, results, Len(results))
  BY DEF TotalLength, Adds
<1> QED BY <1>1, <1>2

\* The running total is a number, and never falls.
LEMMA TotalProperties ==
    ASSUME NEW results \in Seq(Int),
           \A p \in DOMAIN results : hits[results[p]].length \in Nat
    PROVE  /\ \A p \in 0 .. Len(results) : TotalLength(results)[p] \in Nat
           /\ \A p \in 1 .. Len(results) :
                TotalLength(results)[p - 1] <= TotalLength(results)[p]
<1> DEFINE total == TotalLength(results)
<1>1. ASSUME NEW p \in 0 .. Len(results)
      PROVE  total[p] = IF p = 0 THEN 0 ELSE total[p - 1] + hits[results[p]].length
  BY TotalAdds DEF Adds
<1> HIDE DEF total
<1>2. ASSUME NEW p \in 0 .. Len(results) PROVE total[p] \in Nat
  <2> DEFINE bad == {q \in 0 .. Len(results) : total[q] \notin Nat}
  <2> SUFFICES ASSUME bad # {} PROVE FALSE
    OBVIOUS
  <2>1. PICK q \in bad : \A r \in bad : q <= r
    <3>1. bad \subseteq Nat
      OBVIOUS
    <3> HIDE DEF bad
    <3> QED BY <3>1, Smallest
  <2>2. CASE q = 0
    BY <1>1, <2>1, <2>2
  <2>3. CASE q > 0
    <3>1. q - 1 \in 0 .. Len(results) /\ q - 1 \notin bad /\ q \in DOMAIN results
      BY <2>1, <2>3
    <3>2. total[q - 1] \in Nat /\ hits[results[q]].length \in Nat
      BY <3>1
    <3>3. total[q] = total[q - 1] + hits[results[q]].length
      BY <1>1, <2>1, <2>3
    <3> QED BY <2>1, <3>2, <3>3
  <2> QED BY <2>1, <2>2, <2>3
<1>3. ASSUME NEW p \in 1 .. Len(results) PROVE total[p - 1] <= total[p]
  <2>1. p \in 0 .. Len(results) /\ p - 1 \in 0 .. Len(results) /\ p \in DOMAIN results
    OBVIOUS
  <2>2. total[p - 1] \in Nat /\ hits[results[p]].length \in Nat
    BY <1>2, <2>1
  <2>3. total[p] = total[p - 1] + hits[results[p]].length
    BY <1>1, <2>1
  <2> QED BY <2>2, <2>3
<1> QED BY <1>2, <1>3 DEF total

\* The places up to the m-th are a prefix.
LEMMA AtPrefix ==
    ASSUME NEW S, NEW results \in Seq(S), NEW m \in 0 .. Len(results)
    PROVE  At(results, 1 .. m) = SubSeq(results, 1, m)
<1>1. Len(results) \in Nat /\ Cardinality(1 .. m) = m
  BY FS_Interval
<1>2. ASSUME NEW k \in 1 .. m
      PROVE  (CHOOSE p \in 1 .. m : Cardinality((1 .. m) \cap (1 .. p)) = k) = k
  <2>1. ASSUME NEW p \in 1 .. m PROVE Cardinality((1 .. m) \cap (1 .. p)) = p
    <3>1. (1 .. m) \cap (1 .. p) = 1 .. p
      OBVIOUS
    <3>2. p \in Nat /\ 1 \in Int /\ Cardinality(1 .. p) = p
      BY FS_Interval
    <3> QED BY <3>1, <3>2
  <2> QED BY <2>1
<1> DEFINE Place(k) == CHOOSE p \in 1 .. m : Cardinality((1 .. m) \cap (1 .. p)) = k
<1>3. At(results, 1 .. m) = [k \in 1 .. m |-> results[k]]
  <2>1. At(results, 1 .. m) = [k \in 1 .. Cardinality(1 .. m) |-> results[Place(k)]]
    BY DEF At
  <2>2. \A k \in 1 .. m : Place(k) = k
    BY <1>2
  <2> HIDE DEF Place
  <2> QED BY <1>1, <2>1, <2>2
<1> QED BY <1>3

\* What is within the tokens are the first results, at least one if there are any.
LEMMA WithinTokensPrefix ==
    ASSUME NEW results \in Seq(Int), NEW maxTokens \in Nat,
           \A p \in DOMAIN results : hits[results[p]].length \in Nat
    PROVE  \E m \in 0 .. Len(results) :
             /\ WithinTokens(results, maxTokens) = SubSeq(results, 1, m)
             /\ Len(results) > 0 => m > 0
<1> DEFINE n == Len(results)
<1> DEFINE kept == {p \in DOMAIN results :
                      p = 1 \/ TotalLength(results)[p] <= 4 * maxTokens}
<1>1. CASE maxTokens = 0
  <2>1. WithinTokens(results, maxTokens) = results
    BY <1>1 DEF WithinTokens
  <2>2. results = SubSeq(results, 1, n) /\ n \in 0 .. n
    OBVIOUS
  <2> QED BY <2>1, <2>2
<1>2. CASE maxTokens # 0
  <2>1. WithinTokens(results, maxTokens) = At(results, kept)
    BY <1>2 DEF WithinTokens
  <2>2. ASSUME NEW p \in kept, p # 1 PROVE p - 1 \in kept
    <3>1. p \in 1 .. n /\ p - 1 \in 1 .. n /\ p - 1 \in DOMAIN results
      BY <2>2
    <3>2. TotalLength(results)[p] <= 4 * maxTokens
      BY <2>2
    <3>3. /\ TotalLength(results)[p - 1] \in Nat /\ TotalLength(results)[p] \in Nat
          /\ TotalLength(results)[p - 1] <= TotalLength(results)[p]
      BY <3>1, TotalProperties
    <3> QED BY <3>1, <3>2, <3>3, SMTT(30)
  <2>3. n > 0 => 1 \in kept
    OBVIOUS
  <2>4. kept \subseteq 1 .. n /\ n \in Nat
    OBVIOUS
  <2> DEFINE out == (1 .. n + 1) \ kept
  <2>5. PICK next \in out : \A p \in out : next <= p
    <3>1. out \subseteq Nat /\ n + 1 \in out
      BY <2>4
    <3> HIDE DEF out
    <3> QED BY <3>1, Smallest
  <2> HIDE DEF kept
  <2>6. kept = 1 .. next - 1
    <3>1. \A p \in 1 .. next - 1 : p \in kept
      BY <2>4, <2>5
    <3>2. ASSUME NEW p \in kept, next < p PROVE FALSE
      <4> DEFINE above == {q \in kept : next < q}
      <4>1. PICK q \in above : \A r \in above : q <= r
        <5>1. p \in above
          BY <3>2
        <5>2. above \subseteq Nat
          <6>1. kept \subseteq Nat
            BY <2>4
          <6>2. above \subseteq kept
            OBVIOUS
          <6> QED BY <6>1, <6>2
        <5> HIDE DEF above
        <5> QED BY <5>1, <5>2, Smallest
      <4>2. q # 1 /\ q \in kept /\ next \in Nat /\ q \in Nat
        BY <2>4, <2>5, <4>1
      <4>3. q - 1 \in kept
        BY <2>2, <4>2
      <4>4. q - 1 # next
        BY <2>5, <4>3
      <4>5. next < q - 1
        BY <4>1, <4>2, <4>4
      <4> QED BY <4>1, <4>2, <4>3, <4>5
    <3>3. \A p \in kept : p \in 1 .. next - 1
      BY <2>4, <2>5, <3>2
    <3> QED BY <3>1, <3>3
  <2>7. next - 1 \in 0 .. n /\ (n > 0 => next - 1 > 0)
    BY <2>3, <2>4, <2>5
  <2>8. WithinTokens(results, maxTokens) = SubSeq(results, 1, next - 1)
    BY <2>1, <2>6, <2>7, AtPrefix
  <2> QED BY <2>7, <2>8
<1> QED BY <1>1, <1>2

\* Every model takes at least one result.
LEMMA LimitsOfProperties ==
    ASSUME NEW params \in Nat
    PROVE  LimitsOf(params).maxResults \in Nat \ {0} /\ LimitsOf(params).maxTokens \in Nat
<1> DEFINE fits == {i \in DOMAIN ContextLimits : params <= ContextLimits[i].maxParams}
<1> DEFINE Limits == [maxParams : Nat, maxResults : Nat \ {0}, maxTokens : Nat]
<1>1. ContextLimits \in Seq(Limits)
  BY SearchAssumption
<1>2. CASE fits = {}
  <2>1. LimitsOf(params) = [maxResults |-> 5, maxTokens |-> 0]
    BY <1>2 DEF LimitsOf
  <2> QED BY <2>1
<1>3. CASE fits # {}
  <2>1. \E i \in fits : \A j \in fits : i <= j
    <3>1. fits \subseteq Nat
      BY <1>1
    <3> HIDE DEF fits
    <3> QED BY <1>3, <3>1, Smallest
  <2>2. PICK i \in fits : LimitsOf(params) = ContextLimits[i]
    <3>1. LimitsOf(params) = ContextLimits[CHOOSE i \in fits : \A j \in fits : i <= j]
      BY <1>3 DEF LimitsOf
    <3> HIDE DEF fits
    <3> QED BY <2>1, <3>1
  <2>3. ContextLimits[i] \in Limits
    <3>1. i \in DOMAIN ContextLimits
      OBVIOUS
    <3> HIDE DEF fits, Limits
    <3> QED BY <1>1, <3>1
  <2> QED BY <2>2, <2>3
<1> QED BY <1>2, <1>3
-----------------------------------------------------------------------------
(* The invariant: the orders are those of the hits, the results those of the orders *)

SearchInv ==
    /\ query \in MessageLength \cup {NoText}
    /\ stage \in Stages \ {"too long"}
    /\ hits \in Seq(Hit) /\ Len(hits) <= MaxHits
    /\ stage \in {"rewrite", "embed", "search", "rerank"} => ranked = <<>>
    /\ ranked # <<>> => ranked = ByFinalScore
    /\ stage \in {"diversify", "limit"} => ranked = ByFinalScore
    /\ stage \notin {"limit", "done"} => found = <<>>
    /\ found # <<>> => ranked = ByFinalScore /\ found = TopResults
    /\ stage = "limit" => found = TopResults
    /\ context \in Seq(1 .. Len(hits)) /\ ContextIsBest

LEMMA FoundProperties ==
    ASSUME SearchInv, found # <<>>
    PROVE  /\ Reranked /\ found = TopResults
           /\ DOMAIN found = 1 .. Wanted /\ Len(found) = Wanted /\ Wanted \in Nat
           /\ found \in Seq(1 .. Len(hits)) /\ found \in Seq(Int)
           /\ \A k \in 1 .. Wanted : hits[found[k]] \in Hit /\ hits[found[k]].length \in Nat
<1>1. Reranked /\ found = TopResults
  BY DEF SearchInv, Reranked
<1>2. /\ DOMAIN found = 1 .. Wanted /\ Len(found) = Wanted /\ Wanted \in Nat
      /\ found \in Seq(1 .. Len(hits)) /\ Len(hits) \in Nat
  BY <1>1, TopResultsProperties, RankedProperties
<1>3. ASSUME NEW k \in 1 .. Wanted
      PROVE  hits[found[k]] \in Hit /\ hits[found[k]].length \in Nat
  <2>1. found[k] \in 1 .. Len(hits)
    BY <1>2, <1>3
  <2>2. hits[found[k]] \in Hit
    BY <1>1, <2>1 DEF Reranked
  <2> QED BY <2>2, SearchAssumption
<1>4. found \in Seq(Int)
  BY <1>2
<1> QED BY <1>1, <1>2, <1>3, <1>4

LEMMA TypeCorrectState == SearchInv => TypeOK
<1> SUFFICES ASSUME SearchInv PROVE TypeOK
  OBVIOUS
<1>1. hits \in Seq(Hit) /\ DOMAIN hits = 1 .. Len(hits) /\ Len(hits) \in Nat /\ Limit \in Nat
  <2>1. hits \in Seq(Hit)
    BY DEF SearchInv
  <2> QED BY <2>1, SearchAssumption
<1>2. ranked \in Seq(DOMAIN hits) /\ IsInjective(ranked)
  <2>1. CASE ranked = <<>>
    BY <2>1 DEF IsInjective
  <2>2. CASE ranked # <<>>
    <3>1. Reranked
      BY <2>2 DEF SearchInv, Reranked
    <3>2. ranked \in [1 .. Len(hits) -> 1 .. Len(hits)] /\ IsInjective(ranked)
      BY <3>1, RankedProperties DEF IsInjective
    <3> QED BY <1>1, <3>2
  <2> QED BY <2>1, <2>2
<1>3. found \in Seq(DOMAIN hits) /\ IsInjective(found) /\ Len(found) <= Limit /\ Len(found) \in Nat
  <2>1. CASE found = <<>>
    BY <2>1, <1>1 DEF IsInjective
  <2>2. CASE found # <<>>
    BY <2>2, <1>1, FoundProperties, TopResultsProperties DEF IsInjective
  <2> QED BY <2>1, <2>2
<1>4. context \in Seq(DOMAIN hits) /\ Len(context) <= Len(found)
  BY <1>1, <1>3 DEF SearchInv, ContextIsBest, IsPrefix
<1> QED BY <1>2, <1>3, <1>4 DEF SearchInv, TypeOK

LEMMA GreedyState == SearchInv => DiversityIsGreedy
<1> SUFFICES ASSUME SearchInv, stage = "limit", NEW k \in DOMAIN found
             PROVE  found[k] = NextPick(SubSeq(found, 1, k - 1))
  BY DEF DiversityIsGreedy
<1>1. found # <<>>
  OBVIOUS
<1>2. Reranked /\ found = TopResults /\ k \in 1 .. Wanted
  BY <1>1, FoundProperties
<1> QED BY <1>2, NextPickIsNext DEF Picked

LEMMA PoorState == SearchInv => PoorNotPromoted
<1> SUFFICES ASSUME SearchInv, NEW a \in DOMAIN found, NEW b \in DOMAIN found,
                    hits[found[a]].score < Gate,
                    hits[found[b]].score > hits[found[a]].score
             PROVE  \E c \in 1 .. a - 1 : hits[found[c]].source = hits[found[b]].source
  BY DEF PoorNotPromoted
<1>1. found # <<>>
  OBVIOUS
<1>2. Reranked /\ found = TopResults /\ a \in 1 .. Wanted /\ b \in 1 .. Wanted
  BY <1>1, FoundProperties
<1> QED BY <1>2, PoorAfterAnother

LEMMA SearchInvInit == Init => SearchInv
<1> SUFFICES ASSUME Init PROVE SearchInv
  OBVIOUS
<1>1. hits \in Seq(Hit) /\ Len(hits) <= MaxHits
  BY SearchAssumption DEF Init
<1>2. context \in Seq(1 .. Len(hits)) /\ ContextIsBest
  BY DEF Init, ContextIsBest, IsPrefix
<1> QED BY <1>1, <1>2 DEF Init, SearchInv, Stages

\* The orders depend on the hits, the results on the orders, and the context on the results.
LEMMA SearchInvKept ==
    ASSUME SearchInv, UNCHANGED <<hits, ranked, found, context>>,
           query' \in MessageLength \cup {NoText},
           stage' \in Stages \ {"too long"},
           stage' = stage \/ (found = <<>> /\ stage' \notin {"diversify", "limit"}),
           ranked = <<>> \/ stage' = stage
    PROVE  SearchInv'
<1>1. ByFinalScore' = ByFinalScore
  <2>1. FinalScores' = FinalScores
    BY DEF FinalScores
  <2> QED BY <2>1 DEF ByFinalScore
<1>2. TopResults' = TopResults
  <2>1. DiverseScores' = DiverseScores
    BY DEF DiverseScores, SeenBefore
  <2>2. ByDiversity' = ByDiversity
    BY <2>1 DEF ByDiversity
  <2> QED BY <2>2 DEF TopResults
<1>3. ContextIsBest'
  BY DEF SearchInv, ContextIsBest, IsPrefix
<1> QED BY <1>1, <1>2, <1>3 DEF SearchInv
LEMMA SearchInvRerank ==
    ASSUME SearchInv, Rerank
    PROVE  SearchInv'
<1>1. stage = "rerank" /\ stage' = "diversify" /\ ranked' = ByFinalScore
  BY DEF Rerank, GoTo
<1>2. UNCHANGED <<query, hits, found, context>> /\ found = <<>>
  BY <1>1 DEF Rerank, SearchInv
<1>3. ByFinalScore' = ByFinalScore
  <2>1. FinalScores' = FinalScores
    BY <1>2 DEF FinalScores
  <2> QED BY <2>1 DEF ByFinalScore
<1>4. context' \in Seq(1 .. Len(hits')) /\ ContextIsBest'
  BY <1>1, <1>2 DEF SearchInv, ContextIsBest, IsPrefix
<1> QED BY <1>1, <1>2, <1>3, <1>4 DEF SearchInv, Stages

LEMMA SearchInvDiversify ==
    ASSUME SearchInv, Diversify
    PROVE  SearchInv'
<1>1. /\ stage = "diversify" /\ found' = TopResults /\ found = <<>> /\ ranked = ByFinalScore
      /\ stage' = IF hits = <<>> THEN "done" ELSE "limit"
      /\ UNCHANGED <<query, hits, ranked, context>>
  BY DEF Diversify, GoTo, SearchInv
<1>2. ByFinalScore' = ByFinalScore
  <2>1. FinalScores' = FinalScores
    BY <1>1 DEF FinalScores
  <2> QED BY <2>1 DEF ByFinalScore
<1>3. TopResults' = TopResults
  <2>1. DiverseScores' = DiverseScores
    BY <1>1 DEF DiverseScores, SeenBefore
  <2>2. ByDiversity' = ByDiversity
    BY <1>1, <2>1 DEF ByDiversity
  <2> QED BY <1>1, <2>2 DEF TopResults
<1>4. Reranked
  BY <1>1 DEF SearchInv, Reranked
<1>5. found' \in Seq(1 .. Len(hits)) /\ (hits = <<>> => found' = <<>>)
  <2>1. found' \in Seq(1 .. Len(hits)) /\ Len(found') = Wanted /\ Wanted \in 0 .. Len(hits)
    BY <1>1, <1>4, TopResultsProperties
  <2> QED BY <2>1
<1>6. context = <<>>
  BY <1>1 DEF SearchInv, ContextIsBest, IsPrefix
<1>7. context' \in Seq(1 .. Len(hits')) /\ ContextIsBest'
  BY <1>1, <1>5, <1>6 DEF ContextIsBest, IsPrefix
<1> QED BY <1>1, <1>2, <1>3, <1>7 DEF SearchInv, Stages

LEMMA SearchInvLimit ==
    ASSUME SearchInv, LimitContext
    PROVE  SearchInv'
<1>1. /\ stage = "limit" /\ stage' = "done" /\ found = TopResults /\ ranked = ByFinalScore
      /\ UNCHANGED <<query, hits, ranked, found>>
  BY DEF LimitContext, GoTo, SearchInv
<1>2. ByFinalScore' = ByFinalScore
  <2>1. FinalScores' = FinalScores
    BY <1>1 DEF FinalScores
  <2> QED BY <2>1 DEF ByFinalScore
<1>3. TopResults' = TopResults
  <2>1. DiverseScores' = DiverseScores
    BY <1>1 DEF DiverseScores, SeenBefore
  <2>2. ByDiversity' = ByDiversity
    BY <1>1, <2>1 DEF ByDiversity
  <2> QED BY <1>1, <2>2 DEF TopResults
<1>4. context' \in Seq(1 .. Len(hits')) /\ ContextIsBest'
  <2>1. PICK params \in ModelParams \cup {Unknown} :
          LET limits == LimitsOf(params)
              n == IF Len(found) < limits.maxResults THEN Len(found) ELSE limits.maxResults
          IN  context' = WithinTokens(SubSeq(found, 1, n), limits.maxTokens)
    BY DEF LimitContext
  <2> DEFINE limits == LimitsOf(params)
  <2> DEFINE n == IF Len(found) < limits.maxResults THEN Len(found) ELSE limits.maxResults
  <2> DEFINE results == SubSeq(found, 1, n)
  <2>2. limits.maxResults \in Nat \ {0} /\ limits.maxTokens \in Nat
    <3>1. params \in Nat
      BY SearchAssumption DEF Unknown
    <3> QED BY <3>1, LimitsOfProperties
  <2>3. /\ found \in Seq(1 .. Len(hits)) /\ found \in Seq(Int) /\ Len(found) \in Nat
        /\ \A k \in 1 .. Len(found) : hits[found[k]].length \in Nat
    <3>1. CASE found = <<>>
      BY <3>1
    <3>2. CASE found # <<>>
      BY <3>2, FoundProperties
    <3> QED BY <3>1, <3>2
  <2>4. n \in 0 .. Len(found) /\ (Len(found) > 0 => n > 0)
    BY <2>2, <2>3
  <2> HIDE DEF n, limits
  <2>5. /\ results \in Seq(Int) /\ Len(results) = n
        /\ \A k \in 1 .. n : results[k] = found[k]
    BY <2>3, <2>4
  <2>6. \A k \in DOMAIN results : hits[results[k]].length \in Nat
    BY <2>3, <2>4, <2>5
  <2>7. PICK m \in 0 .. Len(results) :
          /\ WithinTokens(results, limits.maxTokens) = SubSeq(results, 1, m)
          /\ Len(results) > 0 => m > 0
    BY <2>2, <2>5, <2>6, WithinTokensPrefix
  <2>8. context' = SubSeq(results, 1, m)
    BY <2>1, <2>7 DEF n, limits
  <2>9. SubSeq(results, 1, m) = SubSeq(found, 1, m)
    BY <2>3, <2>4, <2>5
  <2>10. /\ context' \in Seq(1 .. Len(hits)) /\ Len(context') = m /\ m \in 0 .. Len(found)
         /\ Len(found) > 0 => m > 0
    BY <2>3, <2>4, <2>5, <2>7, <2>8, <2>9
  <2>11. SubSeq(context', 1, m) = SubSeq(found, 1, m)
    <3>1. SubSeq(context', 1, Len(context')) = context'
      BY <2>10
    <3> QED BY <2>8, <2>9, <2>10, <3>1
  <2>12. IsPrefix(context', found)
    BY <2>3, <2>10, <2>11 DEF IsPrefix
  <2>13. found # <<>> => context' # <<>>
    BY <2>3, <2>10
  <2> QED BY <1>1, <2>10, <2>12, <2>13 DEF ContextIsBest, IsPrefix
<1> QED BY <1>1, <1>2, <1>3, <1>4 DEF SearchInv, Stages

LEMMA SearchInvNext == SearchInv /\ QueryInv /\ [Next]_vars => SearchInv'
<1> SUFFICES ASSUME SearchInv, QueryInv, [Next]_vars PROVE SearchInv'
  OBVIOUS
<1>0. QueryInv'
  BY QueryInvNext
<1>1. CASE RewriteQuery
  <2>1. /\ stage = "rewrite" /\ stage' \in {"done", "embed"} /\ ranked = <<>> /\ found = <<>>
        /\ query' \in MessageLength \cup {NoText} /\ UNCHANGED <<hits, ranked, found, context>>
    BY <1>1 DEF RewriteQuery, GoTo, SearchInv
  <2> QED BY <2>1, SearchInvKept DEF Stages
<1>2. CASE EmbedQuery
  <2>1. /\ stage = "embed" /\ stage' \in {"search", "too long"} /\ ranked = <<>> /\ found = <<>>
        /\ query' = NoText /\ UNCHANGED <<hits, ranked, found, context>>
    BY <1>2 DEF EmbedQuery, GoTo, SearchInv
  <2> QED BY <1>0, <2>1, SearchInvKept DEF Stages, QueryInv
<1>3. CASE SearchFails
  <2>1. /\ stage' = "done" /\ ranked = <<>> /\ found = <<>>
        /\ query' = NoText /\ UNCHANGED <<hits, ranked, found, context>>
    BY <1>3 DEF SearchFails, SearchInv
  <2> QED BY <2>1, SearchInvKept DEF Stages
<1>4. CASE Search
  <2>1. /\ stage = "search" /\ stage' = "rerank" /\ ranked = <<>> /\ found = <<>>
        /\ UNCHANGED <<query, ranked, found, context>>
    BY <1>4 DEF Search, GoTo, SearchInv
  <2>2. hits' \in Seq(Hit) /\ Len(hits') <= MaxHits
    <3>1. PICK n \in 0 .. MaxHits : hits' \in [1 .. n -> Hit]
      BY <1>4 DEF Search
    <3> QED BY <3>1, SearchAssumption
  <2>3. context = <<>>
    BY <2>1 DEF SearchInv, ContextIsBest, IsPrefix
  <2>4. context' \in Seq(1 .. Len(hits')) /\ ContextIsBest'
    BY <2>1, <2>3 DEF ContextIsBest, IsPrefix
  <2> QED BY <2>1, <2>2, <2>4 DEF SearchInv, Stages
<1>5. CASE Rerank
  BY <1>5, SearchInvRerank
<1>6. CASE Diversify
  BY <1>6, SearchInvDiversify
<1>7. CASE LimitContext
  BY <1>7, SearchInvLimit
<1>8. CASE UNCHANGED vars
  <2>1. UNCHANGED <<stage, query, hits, ranked, found, context>>
    BY <1>8 DEF vars
  <2> QED BY <2>1, SearchInvKept DEF SearchInv
<1> QED BY <1>1, <1>2, <1>3, <1>4, <1>5, <1>6, <1>7, <1>8 DEF Next

LEMMA SearchInvInvariant == Spec => []SearchInv
<1> QED BY QueryInvInit, QueryInvNext, SearchInvInit, SearchInvNext, PTL DEF Spec

\* The reranked order is one of the hits without repetition, the results are at most as
\* many as were asked for, none twice, and what the model is told are hits
\* (rag_service.ts:767-798).
THEOREM TypeCorrect == Spec => []TypeOK
BY SearchInvInvariant, TypeCorrectState, PTL

\* Counting the hits of a document in the reranked order and sorting once gives what
\* picking the best remaining hit again and again would give, for every penalty that falls
\* (rag_service.ts:897-927).
THEOREM SortIsGreedy == Spec => []DiversityIsGreedy
BY SearchInvInvariant, GreedyState, PTL

\* A hit below the gate precedes a better one only after another hit of the better one's
\* document (rag_service.ts:826-841).
THEOREM GateHolds == Spec => []PoorNotPromoted
BY SearchInvInvariant, PoorState, PTL

\* The cap on the tokens takes a prefix of the results, never all of them away
\* (ollama_controller.ts:70-84).
THEOREM ContextWithoutGap == Spec => []ContextIsBest
<1>1. SearchInv => ContextIsBest
  BY DEF SearchInv
<1> QED BY <1>1, SearchInvInvariant, PTL
=============================================================================
