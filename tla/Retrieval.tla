------------------------------ MODULE Retrieval ------------------------------
(***************************************************************************)
(* How a search ranks videos: search_semantic over the chunks' similarity, *)
(* rrf_fuse over the two lists of hits, search_hybrid over both searches,  *)
(* rerank over what an LLM thinks of the candidates.  Texts and vectors    *)
(* are left out: a chunk is its video and its similarity to the query.     *)
(***************************************************************************)
EXTENDS Naturals, SequencesExt

CONSTANTS
    Videos,          \* what a search may find
    Pool, K,         \* DEFAULT_POOL and DEFAULT_RRF_K
    MaxCandidates    \* MAX_CANDIDATES of a reranking

\* The videos are rows of a table; rrf_fuse's k is 60 and the pool 30.
ASSUME RetrievalAssumption ==
    /\ IsFiniteSet(Videos)
    /\ Pool \in Nat \ {0} /\ K \in Nat \ {0} /\ K > Pool - 2
    /\ MaxCandidates \in Nat \ {0}

\* list[:n]
FirstOf(list, n) == SubSeq(list, 1, IF n < Len(list) THEN n ELSE Len(list))

\* Places from first to last, as a strict order puts them.
Ordered(places, before) ==
    [n \in 1..Cardinality(places) |->
        CHOOSE p \in places : Cardinality({q \in places : <<q, p>> \in before}) = n - 1]

\* Places as they are in the list, and what stands there.
InPlace(places) == Ordered(places, {pair \in places \X places : pair[1] < pair[2]})

At(list, places) ==
    LET order == InPlace(places)
    IN  [n \in DOMAIN order |-> list[order[n]]]

\* sorted(list, key, reverse=True), given which places have a higher key than which
\* others: equals stay in their order.
Before(places, higher) ==
    {pair \in places \X places :
        \/ pair \in higher
        \/ <<pair[2], pair[1]>> \notin higher /\ pair[1] < pair[2]}

SortedDown(list, higher) ==
    LET order == Ordered(DOMAIN list, Before(DOMAIN list, higher))
    IN  [n \in DOMAIN order |-> list[order[n]]]

\* The places with higher keys, for keys that are numbers.
Above(key) == {pair \in (DOMAIN key) \X (DOMAIN key) : key[pair[1]] > key[pair[2]]}

-----------------------------------------------------------------------------
(***************************************************************************)
(* search_semantic: rows are the chunks as SQLite returns them, stored the *)
(* videos that still exist when their cards are read.                      *)
(***************************************************************************)

\* Mutant: of equals and better ones the last chunk wins.
BestLast(rows, v) == Max({n \in DOMAIN rows : rows[n].video = v})

\* The row of a video's best chunk; of equals the first.
Best(rows, v) ==
    LET own == {n \in DOMAIN rows : rows[n].video = v}
    IN  Min({n \in own : \A m \in own : rows[m].score <= rows[n].score})

\* The videos in the order of the dict: by their first chunk.
Seen(rows) ==
    At([n \in DOMAIN rows |-> rows[n].video],
       {n \in DOMAIN rows : \A m \in 1..n - 1 : rows[m].video # rows[n].video})

\* The videos by their best chunks, best video first.
Likeliest(rows) ==
    LET seen == Seen(rows)
    IN  SortedDown(seen, Above([n \in DOMAIN seen |-> rows[Best(rows, seen[n])].score]))

\* The limit is applied before the videos that have been deleted are left out.
Semantic(rows, stored, limit) ==
    LET top == FirstOf(Likeliest(rows), limit)
        there == At(top, {n \in DOMAIN top : top[n] \in stored})
    IN  [n \in DOMAIN there |-> [video |-> there[n], chunk |-> Best(rows, there[n])]]

-----------------------------------------------------------------------------
(***************************************************************************)
(* rrf_fuse: scores are sums of 1 / (k + rank), kept as fractions; the     *)
(* sort is stable over the dict's insertion order.                         *)
(***************************************************************************)

\* The place of a hit in its list, counted from 1; 0 if it is not there.
Rank(hits, v) == IF Contains(hits, v) THEN CHOOSE n \in DOMAIN hits : hits[n] = v ELSE 0

\* 1 / (k + i), 1 / (k + j) or their sum, where 0 is no rank.
Fraction(i, j) ==
    CASE i = 0 -> [over |-> 1, under |-> K + j]
      [] j = 0 -> [over |-> 1, under |-> K + i]
      [] OTHER -> [over |-> (K + i) + (K + j), under |-> (K + i) * (K + j)]

Exceeds(a, b) == a.over * b.under > b.over * a.under

\* Mutant: enumerate goes on counting in the second list.
ScoreRunningOn(keyword, semantic, v) ==
    Fraction(Rank(keyword, v),
             IF Contains(semantic, v) THEN Len(keyword) + Rank(semantic, v) ELSE 0)

Score(keyword, semantic, v) == Fraction(Rank(keyword, v), Rank(semantic, v))

\* The dict's keys: the keyword hits, then what only the semantic search has.
Found(keyword, semantic) ==
    keyword \o At(semantic, {n \in DOMAIN semantic : ~Contains(keyword, semantic[n])})

Fused(keyword, semantic) ==
    LET found == Found(keyword, semantic)
        score == [n \in DOMAIN found |-> Score(keyword, semantic, found[n])]
    IN  SortedDown(found, {pair \in (DOMAIN found) \X (DOMAIN found) :
                              Exceeds(score[pair[1]], score[pair[2]])})

Matched(keyword, semantic, v) ==
    CASE ~Contains(semantic, v) -> "keyword"
      [] ~Contains(keyword, v) -> "semantic"
      [] OTHER -> "hybrid"

\* Mutant: the n-th item is given the n-th semantic hit's excerpt.
HybridByPlace(keyword, items, limit) ==
    LET semantic == [n \in DOMAIN items |-> items[n].video]
        top == FirstOf(Fused(keyword, semantic), limit)
    IN  [n \in DOMAIN top |-> [video |-> top[n], matched |-> Matched(keyword, semantic, top[n]),
                               chunk |-> IF n \in DOMAIN items THEN items[n].chunk ELSE 0]]

\* search_hybrid over the keyword hits and the semantic items: an item carries
\* the chunk (its excerpt, start and link) the semantic search has found, or 0.
Hybrid(keyword, items, limit) ==
    LET semantic == [n \in DOMAIN items |-> items[n].video]
        top == FirstOf(Fused(keyword, semantic), limit)
        chunk(v) == IF Contains(semantic, v) THEN items[Rank(semantic, v)].chunk ELSE 0
    IN  [n \in DOMAIN top |-> [video |-> top[n], matched |-> Matched(keyword, semantic, top[n]),
                               chunk |-> chunk(top[n])]]

-----------------------------------------------------------------------------
(***************************************************************************)
(* rerank: scores is what the LLM gave, by index from 0, possibly for some *)
(* candidates only or for indices there are none of; it is empty when the  *)
(* call failed or answered nothing, and the order of the fusion stays.     *)
(***************************************************************************)

\* Mutant: an unscored candidate counts as irrelevant but no worse.
RerankedMissingZero(candidates, scores, topK) ==
    LET pool == FirstOf(candidates, MaxCandidates)
        key == [n \in DOMAIN pool |-> IF n - 1 \in DOMAIN scores THEN scores[n - 1] ELSE 0]
    IN  FirstOf(SortedDown(pool, Above(key)), topK)

\* A candidate without a score comes after all that have one.
Reranked(candidates, scores, topK) ==
    LET pool == FirstOf(candidates, MaxCandidates)
        key == [n \in DOMAIN pool |-> IF n - 1 \in DOMAIN scores THEN 1 + scores[n - 1] ELSE 0]
    IN  FirstOf(SortedDown(pool, Above(key)), topK)
=============================================================================
