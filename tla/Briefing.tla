------------------------------ MODULE Briefing ------------------------------
(***************************************************************************)
(* Today's briefing: requests (GET /briefing/today, POST /briefing/        *)
(* generate, the CLI's brief) that rank the fresh videos without an LLM,   *)
(* fetch the candidates' transcripts, have each candidate summarized once  *)
(* and keep the result for the day.  Requests run in threads or processes  *)
(* of their own and share the tables videos, transcripts and runs; each    *)
(* statement commits before the next network call.                         *)
(***************************************************************************)
EXTENDS Naturals, Sequences, FiniteSets, SequencesExt

CONSTANTS
    Requests,        \* what may be under way at the same time
    Videos,
    CandidateLimit,  \* candidate_limit
    BriefingLimit,   \* briefing_limit
    MaxRequests,     \* bound: requests
    MaxFailures,     \* bound: requests that die
    MaxDays          \* bound: midnights

ASSUME BriefingAssumption ==
    /\ IsFiniteSet(Videos) /\ IsFiniteSet(Requests)
    /\ CandidateLimit \in Nat /\ BriefingLimit \in Nat
    /\ MaxRequests \in Nat /\ MaxFailures \in Nat /\ MaxDays \in Nat

VARIABLES
    fresh,       \* videos that are recent enough and still 'new' (or have no state)
    status,      \* transcript_status of the videos
    texts,       \* videos whose row of transcripts has text
    summarized,  \* videos with summarized_at
    brief,       \* {picks} of the latest briefing cached today, {} if there is none
    pc,          \* where a request is
    kind,        \* today (GET), force (POST with force), cli
    cand,        \* the request's candidates, best first
    i,           \* the loop's position in cand
    calls,       \* history: LLM calls that summarized a video
    fetches,     \* history: outcomes stored as a video's transcript_status
    blind,       \* history: videos that were to be summarized without a transcript
    peak,        \* history: the most requests that have been under way together
    requests, failures, days

transcripts == <<status, texts>>
db == <<fresh, transcripts, summarized, brief>>
locals == <<kind, cand, i>>
history == <<calls, fetches, blind, peak>>
vars == <<db, pc, locals, history, requests, failures, days>>

Init ==
    /\ fresh = {} /\ texts = {} /\ summarized = {} /\ brief = {}
    /\ status = [v \in Videos |-> "pending"]
    /\ pc = [r \in Requests |-> "idle"]
    /\ kind = [r \in Requests |-> "today"]
    /\ cand = [r \in Requests |-> <<>>]
    /\ i = [r \in Requests |-> 1]
    /\ calls = [v \in Videos |-> 0] /\ fetches = [v \in Videos |-> 0] /\ blind = {}
    /\ peak = 0 /\ requests = 0 /\ failures = 0 /\ days = 0

Goto(r, step) == pc' = [pc EXCEPT ![r] = step]

\* The request returns or raises.
Leave(r) ==
    /\ Goto(r, "idle")
    /\ kind' = [kind EXCEPT ![r] = "today"]
    /\ cand' = [cand EXCEPT ![r] = <<>>]
    /\ i' = [i EXCEPT ![r] = 1]

\* The loop goes on with the next candidate.
Advance(r) == i' = [i EXCEPT ![r] = @ + 1]
AtEnd(r) == i[r] > Len(cand[r])
Current(r) == cand[r][i[r]]

\* order[:n]
First(order, n) == SubSeq(order, 1, Min({Len(order), n}))

-----------------------------------------------------------------------------
\* Only get_today_briefing without force looks at the cache.
Request(r) ==
    /\ pc[r] = "idle"
    /\ requests < MaxRequests
    /\ requests' = requests + 1
    /\ LET busy == Cardinality({q \in Requests : pc[q] # "idle"}) + 1
       IN  peak' = IF busy > peak THEN busy ELSE peak
    /\ \E k \in {"today", "force", "cli"} :
          /\ kind' = [kind EXCEPT ![r] = k]
          /\ Goto(r, IF k = "today" THEN "check" ELSE "rank")
    /\ UNCHANGED <<db, cand, i, calls, fetches, blind, failures, days>>

ServeCached(r) ==
    /\ pc[r] = "check"
    /\ brief # {}
    /\ Leave(r)
    /\ UNCHANGED <<db, history, requests, failures, days>>

Generate(r) ==
    /\ pc[r] = "check"
    /\ brief = {}
    /\ Goto(r, "rank")
    /\ UNCHANGED <<db, locals, history, requests, failures, days>>

\* rank_candidates; the scores decide the order, so any order may come.
Rank(r) ==
    /\ pc[r] = "rank"
    /\ \E order \in SetToSeqs(fresh) :
          cand' = [cand EXCEPT ![r] = First(order, CandidateLimit)]
    /\ Goto(r, "fetch")
    /\ UNCHANGED <<db, kind, i, history, requests, failures, days>>

\* First loop of build_briefing: transcript_status of the next candidate.
CheckTranscript(r) ==
    /\ pc[r] = "fetch" /\ ~AtEnd(r)
    /\ IF status[Current(r)] = "pending"
       THEN Goto(r, "fetching") /\ UNCHANGED i
       ELSE Advance(r) /\ UNCHANGED pc
    /\ UNCHANGED <<db, kind, cand, history, requests, failures, days>>

\* fetch_and_store_transcript never raises: its outcome becomes the status, over
\* that of a request which fetched the same transcript.  An 'ok' replaces the
\* stored transcript (of a video without captioned text, by one without text); the
\* other outcomes leave it in its table.
StoreTranscript(r) ==
    /\ pc[r] = "fetching"
    /\ \E outcome \in {"ok", "none", "failed"} :
          /\ status' = [status EXCEPT ![Current(r)] = outcome]
          /\ IF outcome = "ok"
             THEN texts' = texts \cup {Current(r)} \/ texts' = texts \ {Current(r)}
             ELSE texts' = texts
    /\ fetches' = [fetches EXCEPT ![Current(r)] = @ + 1]
    /\ Advance(r)
    /\ Goto(r, "fetch")
    /\ UNCHANGED <<fresh, summarized, brief, kind, cand, calls, blind, peak, requests, failures, days>>

\* Mutant: transcripts are only fetched for the videos that will be shown.
FetchPicksOnly(r) ==
    /\ pc[r] = "fetch" /\ (AtEnd(r) \/ i[r] > BriefingLimit)
    /\ i' = [i EXCEPT ![r] = 1]
    /\ Goto(r, "summarize")
    /\ UNCHANGED <<db, kind, cand, history, requests, failures, days>>

FetchDone(r) ==
    /\ pc[r] = "fetch" /\ AtEnd(r)
    /\ i' = [i EXCEPT ![r] = 1]
    /\ Goto(r, "summarize")
    /\ UNCHANGED <<db, kind, cand, history, requests, failures, days>>

\* The request to the LLM is put together: with the transcript if its status is
\* 'ok' and it has text, with title and description otherwise.
Prompt(r) ==
    /\ Goto(r, "calling")
    /\ blind' = IF status[Current(r)] = "ok" /\ Current(r) \in texts
                THEN blind ELSE blind \cup {Current(r)}

\* Mutant: summarized_at is not looked at.
SummarizeAlways(r) ==
    /\ pc[r] = "summarize" /\ ~AtEnd(r)
    /\ Prompt(r)
    /\ UNCHANGED <<db, locals, calls, fetches, peak, requests, failures, days>>

\* summarize_video reads the video's row, then sends the request.
CheckSummary(r) ==
    /\ pc[r] = "summarize" /\ ~AtEnd(r)
    /\ IF Current(r) \in summarized
       THEN Advance(r) /\ UNCHANGED <<pc, blind>>
       ELSE Prompt(r) /\ UNCHANGED i
    /\ UNCHANGED <<db, kind, cand, calls, fetches, peak, requests, failures, days>>

\* The answer is there (LLMClient.parse returns; module CostLedger has its cost).
LLMReturns(r) ==
    /\ pc[r] = "calling"
    /\ calls' = [calls EXCEPT ![Current(r)] = @ + 1]
    /\ Goto(r, "answered")
    /\ UNCHANGED <<db, locals, fetches, blind, peak, requests, failures, days>>

StoreSummary(r) ==
    /\ pc[r] = "answered"
    /\ summarized' = summarized \cup {Current(r)}
    /\ Advance(r)
    /\ Goto(r, "summarize")
    /\ UNCHANGED <<fresh, transcripts, brief, kind, cand, history, requests, failures, days>>

\* The picks are the first candidates; get_today_briefing caches them.
Finish(r) ==
    /\ pc[r] = "summarize" /\ AtEnd(r)
    /\ brief' = IF kind[r] = "cli" THEN brief ELSE {ToSet(First(cand[r], BriefingLimit))}
    /\ Leave(r)
    /\ UNCHANGED <<fresh, transcripts, summarized, history, requests, failures, days>>

\* Mutant: a video that cannot be summarized is passed over.
SkipFailed(r) ==
    /\ pc[r] = "calling"
    /\ failures < MaxFailures
    /\ failures' = failures + 1
    /\ Advance(r)
    /\ Goto(r, "summarize")
    /\ UNCHANGED <<db, kind, cand, history, requests, days>>

\* The cost limit, the API, the parser or the database raises, or the process
\* dies: the request ends, what it has stored stays, nothing is cached.
Fail(r) ==
    /\ pc[r] # "idle"
    /\ failures < MaxFailures
    /\ failures' = failures + 1
    /\ Leave(r)
    /\ UNCHANGED <<db, history, requests, days>>

-----------------------------------------------------------------------------
\* A video is discovered, grows old, is seen or becomes 'new' again.
Freshen(v) ==
    /\ fresh' = IF v \in fresh THEN fresh \ {v} ELSE fresh \cup {v}
    /\ UNCHANGED <<transcripts, summarized, brief, pc, locals, history, requests, failures, days>>

\* date('now') changes: no briefing was started today.
Midnight ==
    /\ days < MaxDays
    /\ days' = days + 1
    /\ brief' = {}
    /\ UNCHANGED <<fresh, transcripts, summarized, pc, locals, history, requests, failures>>

Serve(r) ==
    \/ ServeCached(r) \/ Generate(r) \/ Rank(r)
    \/ CheckTranscript(r) \/ StoreTranscript(r) \/ FetchDone(r)
    \/ CheckSummary(r) \/ LLMReturns(r) \/ StoreSummary(r) \/ Finish(r)

Next ==
    \/ \E r \in Requests : Request(r) \/ Serve(r) \/ Fail(r)
    \/ \E v \in Videos : Freshen(v)
    \/ Midnight

Spec == Init /\ [][Next]_vars

-----------------------------------------------------------------------------
Steps == {"idle", "check", "rank", "fetch", "fetching", "summarize", "calling", "answered"}

\* Types; a request that fetches or calls works on one of its candidates, and it
\* never has more than candidate_limit of them.
TypeOK ==
    /\ fresh \subseteq Videos /\ texts \subseteq Videos /\ summarized \subseteq Videos
    /\ status \in [Videos -> {"pending", "ok", "none", "failed"}]
    /\ brief \subseteq SUBSET Videos
    /\ pc \in [Requests -> Steps]
    /\ kind \in [Requests -> {"today", "force", "cli"}]
    /\ cand \in [Requests -> Seq(Videos)]
    /\ i \in [Requests -> Nat \ {0}]
    /\ \A r \in Requests : Len(cand[r]) <= CandidateLimit
    /\ \A r \in Requests : pc[r] \in {"fetching", "calling", "answered"} => ~AtEnd(r)
    /\ calls \in [Videos -> Nat] /\ fetches \in [Videos -> Nat] /\ blind \subseteq Videos
    /\ peak \in Nat /\ requests \in Nat /\ failures \in Nat /\ days \in Nat

\* The cached briefing shows summarized videos only: the rest of the day serves
\* it as it is (a failing candidate must keep a briefing out of the cache).
CachedIsSummarized == \A picks \in brief : picks \subseteq summarized

\* A video is summarized again only by requests that were under way together or
\* after a failure: never by a later request, on whatever day (summarized_at).
CallsBounded == \A v \in Videos : calls[v] <= peak + failures

\* No video is paid for before its transcript has been asked for (the two loops of
\* build_briefing).  Only requests under way together fetch it twice; and only if
\* it was fetched twice is a video summarized without its transcript while one
\* with text is stored.
TranscriptFirst ==
    \A v \in Videos :
       /\ calls[v] > 0 => status[v] # "pending"
       /\ fetches[v] <= peak
       /\ v \in blind \cap texts => fetches[v] > 1
=============================================================================
