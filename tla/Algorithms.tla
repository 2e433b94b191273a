----------------------------- MODULE Algorithms -----------------------------
(***************************************************************************)
(* The pure functions of the server, each tried on every small input:      *)
(* chunk_transcript, get_transcript_excerpt, compact_node, the rankings of *)
(* Retrieval and their evaluation, the queries of Feed and the bill of an  *)
(* LLM call (stream_chat's token split and compute_cost_usd).  A behaviour *)
(* calls one of them once; chunk_transcript, whose turns depend on each    *)
(* other, takes a step for each chunk.  The properties speak of what the   *)
(* function was given and what it gave.                                    *)
(***************************************************************************)
EXTENDS Retrieval, Feed

CONSTANTS
    MaxSegments, MaxTokens,   \* bounds: a transcript and its segments' tokens
    MaxTime,                  \* bound: seconds of a transcript
    MaxMessages,              \* bound: messages of a conversation
    KeepRecent,               \* COMPACT_KEEP_RECENT
    MaxChunks, MaxScore,      \* bounds: chunks in the index, similarities and scores
    MaxLimit,                 \* bound: results that are asked for
    EvaluatedChunks,          \* chunks of an index whose searches are evaluated
    MaxRelevant,              \* bound: videos that are right for a question
    MaxUsage                  \* bound: tokens of one kind in an LLM call

ASSUME AlgorithmsAssumption ==
    /\ {MaxSegments, MaxTokens, MaxTime, MaxMessages, MaxUsage,
        MaxChunks, MaxScore, MaxLimit, EvaluatedChunks, MaxRelevant} \subseteq Nat
    /\ KeepRecent \in Nat \ {0}

VARIABLES call, given, result
vars == <<call, given, result>>

Init == call = "none" /\ given = <<>> /\ result = <<>>

Returns(name, input, output) ==
    call' = name /\ given' = input /\ result' = output

-----------------------------------------------------------------------------
(***************************************************************************)
(* chunk_transcript: tokens[n] is what _approx_tokens gives for segment n; *)
(* a chunk is the range of its segments.                                   *)
(***************************************************************************)

TokensOf(tokens, range) == SumFunctionOnSet(tokens, range)

\* A chunk takes segments, one at least, until it has target tokens.
ChunkEnd(tokens, first, target) ==
    Min({n \in first..Len(tokens) :
            n = Len(tokens) \/ TokensOf(tokens, first..n) >= target})

\* Mutant: the segment that completes the overlap is not part of it.
NextStartLate(tokens, first, last, overlap) ==
    Min({last + 1,
         1 + Max({n \in first + 1..last + 1 :
                    n = first + 1 \/ TokensOf(tokens, n..last) >= overlap})})

\* The next chunk goes back until it repeats overlap tokens, but never to the
\* chunk's own first segment.
NextStart(tokens, first, last, overlap) ==
    Max({n \in first + 1..last + 1 :
            n = first + 1 \/ TokensOf(tokens, n..last) >= overlap})

\* The call: without segments the loop is not entered.
ChunkTranscript ==
    \E n \in 0..MaxSegments : \E tokens \in [1..n -> 1..MaxTokens],
       target \in 1..(2 * MaxTokens), overlap \in 0..MaxTokens :
          Returns(IF n = 0 THEN "chunk" ELSE "chunking",
                  [tokens |-> tokens, target |-> target, overlap |-> overlap], <<>>)

\* A turn of the loop: it ends with the chunk that takes the last segment.
NextChunk ==
    LET first == IF result = <<>> THEN 1
                 ELSE NextStart(given.tokens, result[Len(result)].first,
                                result[Len(result)].last, given.overlap)
        last == ChunkEnd(given.tokens, first, given.target)
    IN  /\ call = "chunking"
        /\ result' = Append(result, [first |-> first, last |-> last])
        /\ call' = IF last = Len(given.tokens) THEN "chunk" ELSE "chunking"
        /\ UNCHANGED given

\* Mutant: the window is closed at both ends.
ExcerptClosed(starts, from, window) ==
    InPlace({n \in DOMAIN starts : from <= starts[n] /\ starts[n] <= from + window})

\* get_transcript_excerpt: the segments that start in the window.
Excerpt(starts, from, window) ==
    InPlace({n \in DOMAIN starts : from <= starts[n] /\ starts[n] < from + window})

\* A search has found a chunk; what it links to is read, window by window, from
\* the start of the chunk's first segment to the end of the transcript.
ReadOn ==
    \E n \in 1..MaxSegments : \E starts \in {s \in [1..n -> 0..MaxTime] : \A l, m \in 1..n : l < m => s[l] <= s[m]},
       first \in 1..n, window \in 1..MaxTime :
          LET pages == 1 + (starts[n] - starts[first]) \div window
          IN  Returns("excerpt", [starts |-> starts, first |-> first],
                      [page \in 1..pages |-> Excerpt(starts, starts[first] + (page - 1) * window, window)])

-----------------------------------------------------------------------------
(***************************************************************************)
(* compact_node: a message is "other", a "tool" result, a result that has   *)
(* been "cut" to a summary, or one that has been "recut", the summary of a *)
(* summary, which says nothing of the result any more.                     *)
(***************************************************************************)

IsTool(message) == message # "other"

\* It begins with COMPACT_MARKER.
Marked(message) == message \in {"cut", "recut"}

\* _compact_summary takes whatever content it is given.
Summary(message) == IF message = "tool" THEN "cut" ELSE "recut"

\* Mutant: the marker is not looked for.
ShortenAlways(message) == Summary(message)

\* What becomes of an old result.
Shorten(message) == IF Marked(message) THEN message ELSE Summary(message)

\* All tool results but the last KeepRecent are shortened, in place.
Compacted(messages) ==
    LET tools == {n \in DOMAIN messages : IsTool(messages[n])}
        old == {n \in tools : Cardinality({m \in tools : m > n}) >= KeepRecent}
    IN  [n \in DOMAIN messages |->
            IF n \in old THEN Shorten(messages[n]) ELSE messages[n]]

\* Messages follow those that the last round has compacted.
Compact ==
    \E n \in 0..MaxMessages : \E messages \in [1..n -> {"other", "tool"}], m \in 0..n :
       LET conversation == Compacted(SubSeq(messages, 1, m)) \o SubSeq(messages, m + 1, n)
       IN  Returns("compact", conversation, Compacted(conversation))

-----------------------------------------------------------------------------
(***************************************************************************)
(* Searches: lists of hits, chunks with their similarities, and scores of  *)
(* an LLM, all as small as shows every case.                               *)
(***************************************************************************)

\* Lists of different videos: up to Pool hits, as search_keyword and
\* search_semantic return them.
Lists(longest) == {list \in UNION {[1..n -> Videos] : n \in 0..longest} : IsInjective(list)}

Hits == Lists(Pool)

\* The chunks that are compared with the query.
Rows == UNION {[1..n -> [video : Videos, score : 0..MaxScore]] : n \in 0..MaxChunks}

RrfFuse ==
    \E keyword, semantic \in Hits :
       Returns("fuse", [keyword |-> keyword, semantic |-> semantic], Fused(keyword, semantic))

SearchSemantic ==
    \E rows \in Rows, stored \in SUBSET Videos, limit \in 1..MaxLimit :
       Returns("semantic", [rows |-> rows, stored |-> stored, limit |-> limit],
               Semantic(rows, stored, limit))

SearchHybrid ==
    \E rows \in Rows :
       \E items \in {Semantic(rows, Videos, Pool)}, keyword \in Hits, limit \in 1..MaxLimit :
          Returns("hybrid", [keyword |-> keyword, rows |-> rows], Hybrid(keyword, items, limit))

Rerank ==
    \E candidates \in Lists(MaxCandidates + 1), of \in SUBSET (0..MaxCandidates) :
       \E scores \in [of -> 0..MaxScore], topK \in 1..MaxCandidates :
          Returns("rerank", [candidates |-> candidates, scores |-> scores, topK |-> topK],
                  Reranked(candidates, scores, topK))

\* Mutant: ranks are counted from 0, and 0 is no rank.
EvaluateFromZero(relevant, retrieved) ==
    LET right == {n \in DOMAIN retrieved : retrieved[n] \in relevant}
    IN  [hits |-> Cardinality(right), rank |-> IF right = {} THEN 0 ELSE Min(right) - 1]

\* evaluate_retrieval for one question: recall is hits / |relevant|, the reciprocal
\* rank 1 / rank; rank 0 is None.
Evaluate(relevant, retrieved) ==
    LET right == {n \in DOMAIN retrieved : retrieved[n] \in relevant}
    IN  [hits |-> Cardinality(right), rank |-> IF right = {} THEN 0 ELSE Min(right)]

VideosIn(items) == [n \in DOMAIN items |-> items[n].video]

\* The four searches that are evaluated, cut at k.
Searches(keyword, rows, scores, k) ==
    [L0 |-> FirstOf(keyword, k),
     L1 |-> VideosIn(Semantic(rows, Videos, k)),
     hybrid |-> VideosIn(Hybrid(keyword, Semantic(rows, Videos, Pool), k)),
     rerank |-> Reranked(VideosIn(Hybrid(keyword, Semantic(rows, Videos, Pool), MaxCandidates)), scores, k)]

\* One question: its keyword hits, the chunks, and the videos that are right.
EvaluateRetrieval ==
    \E keyword \in Hits, rows \in {r \in Rows : Len(r) = EvaluatedChunks}, k \in 1..MaxLimit :
       LET results(cut) == Searches(keyword, rows, [i \in {1} |-> 1], cut)
           judged(found, relevant) == [mode \in DOMAIN found |-> Evaluate(relevant, found[mode])]
       IN  \E found \in {results(k)}, more \in {results(k + 1)},
              relevant \in {of \in SUBSET Videos : Cardinality(of) \in 1..MaxRelevant} :
              Returns("evaluate", [relevant |-> relevant, k |-> k],
                      [at |-> judged(found, relevant), after |-> judged(more, relevant)])

CountVideos ==
    \E lib \in Libraries :
       Returns("count", lib, [badges |-> FeedCounts(lib, "new"), watched |-> FeedCounts(lib, "watched"),
                              tabs |-> ListCategories(lib), stats |-> WatchStats(lib)])

-----------------------------------------------------------------------------
(***************************************************************************)
(* The bill of an LLM call, in twentieths of the price of an input token:  *)
(* an input token is 20, a cached one 2, one written to the cache 25, an   *)
(* output token 100.  LangChain's input_tokens counts all input.           *)
(***************************************************************************)

\* Mutant: LangChain's total is taken for the fresh tokens.
BillTotal(input, read, written, output) ==
    20 * input + 2 * read + 25 * written + 100 * output

Bill(input, read, written, output) ==
    LET fresh == IF input > read + written THEN input - read - written ELSE 0
    IN  20 * fresh + 2 * read + 25 * written + 100 * output

BillCall ==
    \E fresh, read, written, output \in 0..MaxUsage :
       Returns("bill", [fresh |-> fresh, read |-> read, written |-> written, output |-> output],
               Bill(fresh + read + written, read, written, output))

Next ==
    \/ /\ call = "none"
       /\ \/ ChunkTranscript \/ ReadOn \/ Compact \/ BillCall
          \/ RrfFuse \/ SearchSemantic \/ SearchHybrid \/ Rerank
          \/ EvaluateRetrieval \/ CountVideos
    \/ NextChunk

Spec == Init /\ [][Next]_vars

-----------------------------------------------------------------------------
\* While chunk_transcript runs its chunks leave no gap and each starts later than the
\* one before, so that it ends; at its end they cover the transcript. Neighbours share
\* overlap tokens, or all but the first segment if there are fewer, and no segment more
\* than that takes; a chunk has target tokens, unless it is the last one.
ChunksCover ==
    call \in {"chunking", "chunk"} =>
       LET n == Len(given.tokens)
           tokens(first, last) == TokensOf(given.tokens, first..last)
       IN  /\ result # <<>> => result[1].first = 1
           /\ call = "chunk" <=> n = 0 \/ (result # <<>> /\ result[Len(result)].last = n)
           /\ \A c \in DOMAIN result :
                 LET this == result[c]
                 IN  /\ 1 <= this.first /\ this.first <= this.last /\ this.last <= n
                     /\ tokens(this.first, this.last) >= given.target \/ this.last = n
           /\ \A c \in 1..Len(result) - 1 :
                 LET this == result[c]
                     next == result[c + 1].first
                 IN  /\ this.last < n
                     /\ this.first < next /\ next <= this.last + 1
                     /\ tokens(next, this.last) >= given.overlap \/ next = this.first + 1
                     /\ next <= this.last => ~(tokens(next + 1, this.last) >= given.overlap)

\* Who reads on from where a search points to reads the found chunk's first segment,
\* or those that start at the same moment, on the first page, and from there on every
\* segment once and in order, whatever the window.
ExcerptsTile ==
    call = "excerpt" =>
       LET from == {n \in DOMAIN given.starts : given.starts[n] >= given.starts[given.first]}
       IN  /\ UNION {Range(result[page]) : page \in DOMAIN result} = from
           /\ given.first \in Range(result[1])
           /\ \A page \in DOMAIN result : \A m, n \in DOMAIN result[page] :
                 m < n => result[page][m] < result[page][n]
           /\ \A one, two \in DOMAIN result :
                 one < two => \A m \in Range(result[one]), n \in Range(result[two]) : m < n

\* The last KeepRecent tool results are as they were; all older ones have been
\* summarized, once, however often compact_node has run on them; and everything
\* else is in its place (an AIMessage needs its ToolMessages).
CompactKeepsRecent ==
    call = "compact" =>
       LET places(messages) == {m \in DOMAIN messages : IsTool(messages[m])}
           tools == At(result, places(result))
           before == At(given, places(given))
           n == Len(tools)
       IN  /\ Len(result) = Len(given)
           /\ \A m \in DOMAIN given : ~IsTool(given[m]) <=> ~IsTool(result[m])
           /\ \A m \in 1..n : IF m + KeepRecent <= n THEN tools[m] = "cut"
                                                     ELSE tools[m] = before[m]

\* A video that both searches find comes before every video that only one of
\* them finds, whatever their ranks (k is large enough for the pool).
BothBeatOne ==
    call = "fuse" =>
       \A a, b \in DOMAIN result :
          LET both(n) == Contains(given.keyword, result[n]) /\ Contains(given.semantic, result[n])
          IN  both(a) /\ ~both(b) => a < b

\* A hit of the semantic search stands with the chunk that is most like the
\* query; hits come in the order of those chunks, none twice; and a stored video
\* that is missing was beaten, or equalled, by as many as the limit allows.
SemanticBestChunk ==
    call = "semantic" =>
       LET rows == given.rows
           score(h) == rows[h.chunk].score
           hits == [n \in DOMAIN result |-> result[n].video]
       IN  /\ IsInjective(hits) /\ Range(hits) \subseteq given.stored
           /\ \A n \in DOMAIN result :
                 /\ rows[result[n].chunk].video = result[n].video
                 /\ \A r \in DOMAIN rows : rows[r].video = result[n].video => rows[r].score <= score(result[n])
           /\ \A m, n \in DOMAIN result : m < n => score(result[m]) >= score(result[n])
           /\ \A r \in DOMAIN rows :
                 rows[r].video \in given.stored \ Range(hits) =>
                    Cardinality({rows[q].video : q \in {p \in DOMAIN rows : rows[p].score >= rows[r].score}})
                       > given.limit

\* An item of the hybrid search says truly which searches have found it, and its
\* excerpt and time stamp are of a chunk of its own video.
HybridTellsTruth ==
    call = "hybrid" =>
       \A n \in DOMAIN result :
          LET item == result[n]
              likened == item.video \in {given.rows[r].video : r \in DOMAIN given.rows}
          IN  /\ item.chunk = 0 \/ given.rows[item.chunk].video = item.video
              /\ item.matched = "hybrid" <=> Contains(given.keyword, item.video) /\ item.chunk # 0
              /\ item.matched = "keyword" => ~likened \/ Cardinality(Range(Seen(given.rows))) > Pool
              /\ item.matched = "semantic" => ~Contains(given.keyword, item.video)

\* Whether the candidate of index i is to come before that of index j.
Beats(scores, i, j) ==
    LET scored(n) == n \in DOMAIN scores
    IN  CASE scored(i) /\ scored(j) /\ scores[i] # scores[j] -> scores[i] > scores[j]
          [] scored(i) # scored(j) -> scored(i)
          [] OTHER -> i < j

\* Reranking changes the order and nothing else: it returns candidates only, none
\* twice and as many as were asked for; it follows the scores, puts what the LLM
\* has left out last, and keeps the fusion's order where they do not decide - so
\* that of a failed call entirely.
RerankKeepsCandidates ==
    call = "rerank" =>
       LET pool == FirstOf(given.candidates, MaxCandidates)
           index(v) == Rank(pool, v) - 1
       IN  /\ IsInjective(result) /\ Range(result) \subseteq Range(pool)
           /\ Len(result) = Min({given.topK, Len(pool)})
           /\ \A m \in DOMAIN result :
                 \A w \in Range(pool) \ {result[n] : n \in 1..m} :
                    Beats(given.scores, index(result[m]), index(w))

\* What the levels of the search are judged by is what it claims to be, for each of
\* the four searches: no more hits than relevant videos, a rank exactly if there is
\* a hit, and with a larger k no hit is lost and no first hit moves.
RecallHonest ==
    call = "evaluate" =>
       \A mode \in DOMAIN result.at :
          LET at == result.at[mode]
              after == result.after[mode]
          IN  /\ at.hits <= Cardinality(given.relevant) /\ at.rank <= given.k
              /\ at.rank > 0 <=> at.hits > 0
              /\ after.hits >= at.hits
              /\ at.rank > 0 => after.rank = at.rank

\* The badge of a tab, the number in the list of categories and the feed of the
\* category (shorts included) agree on how many videos are new, and the statistics
\* agree with the badges on those watched, whatever the videos have rows of.
CountsAgree ==
    call = "count" =>
       LET counted(by, category) == IF category \in DOMAIN by THEN by[category] ELSE 0
           feed(category, state) == Cardinality(ListFeed(given, category, {state}, TRUE))
       IN  /\ result.badges.total = feed(Null, "new")
           /\ result.stats.watched = result.watched.total
           /\ \A category \in FeedCategories :
                 /\ counted(result.badges.by_category, category) = feed(category, "new")
                 /\ result.tabs[category].new = feed(category, "new")
                 /\ counted(result.watched.by_category, category) = feed(category, "watched")
                 /\ counted(result.stats.by_category, category) = feed(category, "watched")

\* Every token is paid once, at the rate of its class.
BilledOnce ==
    call = "bill" =>
       result = 20 * given.fresh + 2 * given.read + 25 * given.written + 100 * given.output
=============================================================================
