--------------------------- MODULE Briefing_proofs ---------------------------
(***************************************************************************)
(* Whatever requests overlap and whichever of them die: a briefing that is *)
(* kept shows summarized videos; no video is paid for before its           *)
(* transcript was asked for, and none does without a stored transcript     *)
(* unless several requests fetched it; and each video is paid for once,    *)
(* but for requests that were under way together and failures.             *)
(***************************************************************************)
EXTENDS Briefing, FiniteSetTheorems, TLAPS

\* The loops' work so far: transcripts asked for, then summaries stored.
Worked(r) ==
    /\ pc[r] \in {"idle", "check", "rank"} => i[r] = 1
    /\ pc[r] \in {"fetch", "fetching"} => \A n \in 1..i[r] - 1 : n \in DOMAIN cand[r] => status[cand[r][n]] # "pending"
    /\ pc[r] \in {"summarize", "calling", "answered"} =>
          /\ \A n \in DOMAIN cand[r] : status[cand[r][n]] # "pending"
          /\ \A n \in 1..i[r] - 1 : n \in DOMAIN cand[r] => cand[r][n] \in summarized

PaidAsked == \A v \in Videos : calls[v] > 0 => status[v] # "pending"

\* A video that was fetched once has the outcome of that one fetch: a transcript
\* with text is 'ok' and has not been done without.
Fetched ==
    \A v \in Videos :
       IF status[v] = "pending"
       THEN fetches[v] = 0 /\ v \notin texts \cup blind
       ELSE /\ fetches[v] > 0
            /\ fetches[v] = 1 /\ v \in texts => status[v] = "ok" /\ v \notin blind

ShownInv ==
    TypeOK /\ CachedIsSummarized /\ PaidAsked /\ Fetched /\ \A r \in Requests : Worked(r)

-----------------------------------------------------------------------------
\* The smaller of two numbers.
LEMMA MinOfTwo ==
    ASSUME NEW a \in Nat, NEW b \in Nat
    PROVE  Min({a, b}) \in {a, b} /\ Min({a, b}) <= a /\ Min({a, b}) <= b
  <1>1. \E x \in {a, b} : \A y \in {a, b} : x <= y
    <2>1. CASE a <= b
      BY <2>1
    <2>2. CASE ~(a <= b)
      BY <2>2
    <2> QED  BY <2>1, <2>2
  <1>2. Min({a, b}) \in {a, b} /\ \A y \in {a, b} : Min({a, b}) <= y
    BY <1>1, Zenon DEF Min
  <1> QED  BY <1>2

\* order[:n] is a sequence of the same videos, at most n of them.
LEMMA FirstIsPart ==
    ASSUME NEW order \in Seq(Videos), NEW n \in Nat
    PROVE  /\ First(order, n) \in Seq(Videos) /\ Len(First(order, n)) <= n
           /\ ToSet(First(order, n)) \subseteq ToSet(order)
  <1>1. PICK m \in 0..Len(order) : m <= n /\ First(order, n) = SubSeq(order, 1, m)
    <2>1. Len(order) \in Nat
      OBVIOUS
    <2>2. Min({Len(order), n}) \in 0..Len(order) /\ Min({Len(order), n}) <= n
      BY <2>1, MinOfTwo
    <2> QED  BY <2>2 DEF First
  <1>2. /\ First(order, n) \in Seq(Videos) /\ Len(First(order, n)) = m
        /\ \A k \in 1..m : First(order, n)[k] = order[k]
    BY <1>1
  <1>3. DOMAIN First(order, n) = 1..m /\ 1..m \subseteq DOMAIN order
    BY <1>1, <1>2
  <1> QED  BY <1>1, <1>2, <1>3 DEF ToSet

\* Every order of the fresh videos is a sequence of videos.
LEMMA OrdersAreSequences ==
    ASSUME fresh \subseteq Videos, NEW order \in SetToSeqs(fresh)
    PROVE  order \in Seq(Videos)
  <1>1. IsFiniteSet(fresh) /\ Cardinality(fresh) \in Nat
    BY BriefingAssumption, FS_Subset, FS_CardinalityType
  <1>2. order \in [1..Cardinality(fresh) -> fresh]
    BY DEF SetToSeqs
  <1> QED  BY <1>1, <1>2

LEMMA InitShown == Init => ShownInv
  BY BriefingAssumption DEF Init, ShownInv, TypeOK, CachedIsSummarized, PaidAsked, Fetched, Worked, Steps, AtEnd

\* A request that comes to an end leaves nothing that must be kept.
LEMMA LeavingKeeps ==
    ASSUME ShownInv, NEW r \in Requests, Leave(r),
           UNCHANGED <<fresh, status, texts, summarized, calls, fetches, blind, peak, requests, days>>,
           failures' \in Nat, brief' \subseteq SUBSET Videos,
           CachedIsSummarized'
    PROVE  ShownInv'
  <1>1. TypeOK'
    <2> USE BriefingAssumption DEF ShownInv, TypeOK, Leave, Goto, Steps
    <2>1. pc' \in [Requests -> Steps] /\ kind' \in [Requests -> {"today", "force", "cli"}]
      OBVIOUS
    <2>2. <<>> \in Seq(Videos) /\ Len(<<>>) = 0
      OBVIOUS
    <2>3. cand' \in [Requests -> Seq(Videos)] /\ i' \in [Requests -> Nat \ {0}]
      BY <2>2
    <2>4. \A q \in Requests : Len(cand'[q]) <= CandidateLimit
      BY <2>2
    <2>5. \A q \in Requests : pc'[q] \in {"fetching", "calling", "answered"} => ~AtEnd(q)'
      BY DEF AtEnd
    <2> QED  BY <2>1, <2>3, <2>4, <2>5
  <1>2. \A q \in Requests : Worked(q)'
    BY DEF ShownInv, TypeOK, Leave, Goto, Worked
  <1>3. PaidAsked' /\ Fetched'
    BY DEF ShownInv, PaidAsked, Fetched
  <1> QED  BY <1>1, <1>2, <1>3 DEF ShownInv

LEMMA BeginKeeps ==
    ASSUME ShownInv, NEW r \in Requests, Request(r) \/ ServeCached(r) \/ Generate(r) \/ Rank(r)
    PROVE  ShownInv'
  <1> USE DEF ShownInv, transcripts
  <1>1. CASE Request(r)
    <2>0. Cardinality({q \in Requests : pc[q] # "idle"}) \in Nat
      BY BriefingAssumption, FS_Subset, FS_CardinalityType
    <2>1. peak' \in Nat
      BY <1>1, <2>0 DEF Request, TypeOK
    <2>2. PICK k \in {"today", "force", "cli"}, step \in {"check", "rank"} :
             kind' = [kind EXCEPT ![r] = k] /\ pc' = [pc EXCEPT ![r] = step]
      BY <1>1 DEF Request, Goto
    <2>3. pc[r] = "idle" /\ requests' = requests + 1
          /\ UNCHANGED <<fresh, status, texts, summarized, brief, cand, i, calls, fetches, blind, failures, days>>
      BY <1>1 DEF Request, db
    <2>4. TypeOK'
      BY <2>1, <2>2, <2>3 DEF TypeOK, Steps, AtEnd
    <2>5. \A q \in Requests : Worked(q)'
      BY <2>2, <2>3 DEF TypeOK, Worked
    <2> QED  BY <2>3, <2>4, <2>5 DEF CachedIsSummarized, PaidAsked, Fetched
  <1>2. CASE ServeCached(r)
    BY <1>2, LeavingKeeps DEF ServeCached, db, history, TypeOK, CachedIsSummarized
  <1>3. CASE Generate(r)
    BY <1>3 DEF Generate, Goto, db, locals, history, TypeOK, Steps, AtEnd, Worked, CachedIsSummarized, PaidAsked, Fetched
  <1>4. CASE Rank(r)
    <2>1. PICK order \in SetToSeqs(fresh) : cand' = [cand EXCEPT ![r] = First(order, CandidateLimit)]
      BY <1>4 DEF Rank
    <2>2. First(order, CandidateLimit) \in Seq(Videos) /\ Len(First(order, CandidateLimit)) <= CandidateLimit
      BY OrdersAreSequences, FirstIsPart, BriefingAssumption DEF TypeOK
    <2>3. pc[r] = "rank" /\ pc' = [pc EXCEPT ![r] = "fetch"]
          /\ UNCHANGED <<fresh, status, texts, summarized, brief, kind, i, calls, fetches, blind, peak, requests, failures, days>>
      BY <1>4 DEF Rank, Goto, db, history
    <2>4. TypeOK'
      BY <2>1, <2>2, <2>3 DEF TypeOK, Steps, AtEnd
    <2>5. \A q \in Requests : Worked(q)'
      BY <2>1, <2>2, <2>3 DEF TypeOK, Worked
    <2> QED  BY <2>3, <2>4, <2>5 DEF CachedIsSummarized, PaidAsked, Fetched
  <1> QED  BY <1>1, <1>2, <1>3, <1>4

\* The first loop: one candidate after the other, then back to the first.
LEMMA FetchKeeps ==
    ASSUME ShownInv, NEW r \in Requests, CheckTranscript(r) \/ StoreTranscript(r) \/ FetchDone(r)
    PROVE  ShownInv'
  <1> USE DEF ShownInv, transcripts
  <1>1. CASE CheckTranscript(r)
    <2>1. pc[r] = "fetch" /\ ~AtEnd(r)
          /\ UNCHANGED <<fresh, status, texts, summarized, brief, kind, cand, calls, fetches, blind, peak, requests, failures, days>>
      BY <1>1 DEF CheckTranscript, db, history
    <2>2. CASE status[Current(r)] = "pending"
      <3>1. pc' = [pc EXCEPT ![r] = "fetching"] /\ i' = i
        BY <1>1, <2>2 DEF CheckTranscript, Goto
      <3>2. TypeOK'
        BY <2>1, <3>1 DEF TypeOK, Steps, AtEnd
      <3>3. \A q \in Requests : Worked(q)'
        BY <2>1, <3>1 DEF TypeOK, Worked
      <3> QED  BY <2>1, <3>2, <3>3 DEF CachedIsSummarized, PaidAsked, Fetched
    <2>3. CASE status[Current(r)] # "pending"
      <3>1. pc' = pc /\ i' = [i EXCEPT ![r] = @ + 1]
        BY <1>1, <2>3 DEF CheckTranscript, Advance
      <3>2. TypeOK'
        BY <2>1, <3>1 DEF TypeOK, Steps, AtEnd
      <3>3. \A q \in Requests : Worked(q)'
        BY <2>1, <2>3, <3>1 DEF TypeOK, Worked, Current, AtEnd
      <3> QED  BY <2>1, <3>2, <3>3 DEF CachedIsSummarized, PaidAsked, Fetched
    <2> QED  BY <2>2, <2>3
  <1>2. CASE StoreTranscript(r)
    <2> DEFINE v == Current(r)
    <2>1. /\ pc[r] = "fetching" /\ pc' = [pc EXCEPT ![r] = "fetch"]
          /\ i' = [i EXCEPT ![r] = @ + 1]
          /\ fetches' = [fetches EXCEPT ![v] = @ + 1]
          /\ UNCHANGED <<fresh, summarized, brief, kind, cand, calls, blind, peak, requests, failures, days>>
      BY <1>2 DEF StoreTranscript, Goto, Advance
    <2>2. PICK outcome \in {"ok", "none", "failed"} :
             /\ status' = [status EXCEPT ![v] = outcome]
             /\ \/ outcome = "ok" /\ texts' \in {texts \cup {v}, texts \ {v}}
                \/ texts' = texts
      BY <1>2 DEF StoreTranscript
    <2>3. v \in Videos
      BY <2>1 DEF TypeOK, AtEnd, Current
    <2>4. TypeOK'
      BY <2>1, <2>2, <2>3 DEF TypeOK, Steps, AtEnd
    <2>5. /\ \A u \in Videos : status'[u] = IF u = v THEN outcome ELSE status[u]
          /\ \A u \in Videos : fetches'[u] = IF u = v THEN fetches[u] + 1 ELSE fetches[u]
          /\ \A u \in Videos \ {v} : u \in texts' <=> u \in texts
      BY <2>1, <2>2, <2>3 DEF TypeOK
    <2>6. \A q \in Requests : Worked(q)'
      <3>1. \A u \in Videos : status[u] # "pending" => status'[u] # "pending"
        BY <2>5
      <3>0. \A q \in Requests : \A n \in DOMAIN cand[q] : cand[q][n] \in Videos
        BY DEF TypeOK
      <3>2. ASSUME NEW q \in Requests \ {r} PROVE Worked(q)'
        <4>1. pc'[q] = pc[q] /\ i'[q] = i[q] /\ cand'[q] = cand[q] /\ Worked(q)
          BY <2>1, <3>2 DEF TypeOK
        <4> QED  BY <2>1, <3>0, <3>1, <4>1 DEF Worked
      <3>3. Worked(r)'
        <4>1. pc'[r] = "fetch" /\ i'[r] = i[r] + 1 /\ cand'[r] = cand[r] /\ i[r] \in Nat
          BY <2>1 DEF TypeOK
        <4>2. status'[cand[r][i[r]]] # "pending"
          BY <2>2, <2>3, <2>5 DEF Current
        <4>3. \A n \in 1..i[r] - 1 : n \in DOMAIN cand[r] => status'[cand[r][n]] # "pending"
          BY <2>1, <3>0, <3>1 DEF Worked
        <4>4. \A n \in 1..i'[r] - 1 : n = i[r] \/ n \in 1..i[r] - 1
          BY <4>1
        <4> QED  BY <4>1, <4>2, <4>3, <4>4 DEF Worked
      <3> QED  BY <3>2, <3>3
    <2>7. PaidAsked' /\ Fetched'
      <3>1. ASSUME NEW u \in Videos \ {v}
            PROVE  status'[u] = status[u] /\ fetches'[u] = fetches[u] /\ (u \in texts' <=> u \in texts)
        BY <2>5
      <3>2. status'[v] = outcome /\ fetches'[v] = fetches[v] + 1 /\ fetches[v] \in Nat /\ outcome # "pending"
        BY <2>3, <2>5 DEF TypeOK
      <3>3. fetches'[v] = 1 /\ v \in texts' => outcome = "ok" /\ v \notin blind
        BY <2>2, <2>3, <3>2 DEF Fetched
      <3> HIDE DEF v
      <3>4. PaidAsked'
        BY <2>1, <3>1, <3>2 DEF PaidAsked
      <3>5. Fetched'
        BY <2>1, <3>1, <3>2, <3>3 DEF Fetched
      <3> QED  BY <3>4, <3>5
    <2> QED  BY <2>1, <2>4, <2>6, <2>7 DEF CachedIsSummarized
  <1>3. CASE FetchDone(r)
    <2>1. /\ pc[r] = "fetch" /\ AtEnd(r) /\ pc' = [pc EXCEPT ![r] = "summarize"]
          /\ i' = [i EXCEPT ![r] = 1]
          /\ UNCHANGED <<fresh, status, texts, summarized, brief, kind, cand, calls, fetches, blind, peak, requests, failures, days>>
      BY <1>3 DEF FetchDone, Goto, db, history
    <2>2. TypeOK'
      BY <2>1 DEF TypeOK, Steps, AtEnd
    <2>3. \A q \in Requests : Worked(q)'
      BY <2>1 DEF TypeOK, Worked, AtEnd
    <2> QED  BY <2>1, <2>2, <2>3 DEF CachedIsSummarized, PaidAsked, Fetched
  <1> QED  BY <1>1, <1>2, <1>3

\* The second loop, up to the picks.
LEMMA SummarizeKeeps ==
    ASSUME ShownInv, NEW r \in Requests,
           CheckSummary(r) \/ LLMReturns(r) \/ StoreSummary(r) \/ Finish(r)
    PROVE  ShownInv'
  <1> USE DEF ShownInv, transcripts
  <1>1. CASE CheckSummary(r)
    <2>1. pc[r] = "summarize" /\ ~AtEnd(r)
          /\ UNCHANGED <<fresh, status, texts, summarized, brief, kind, cand, calls, fetches, peak, requests, failures, days>>
      BY <1>1 DEF CheckSummary, db
    <2>2. CASE Current(r) \notin summarized
      <3>1. /\ pc' = [pc EXCEPT ![r] = "calling"] /\ i' = i
            /\ blind' = IF status[Current(r)] = "ok" /\ Current(r) \in texts
                        THEN blind ELSE blind \cup {Current(r)}
        BY <1>1, <2>2 DEF CheckSummary, Prompt, Goto
      <3>2. Current(r) \in Videos /\ status[Current(r)] # "pending"
        BY <2>1 DEF TypeOK, AtEnd, Current, Worked
      <3>3. TypeOK'
        BY <2>1, <3>1, <3>2 DEF TypeOK, Steps, AtEnd
      <3>4. \A q \in Requests : Worked(q)'
        BY <2>1, <3>1 DEF TypeOK, Worked
      <3>5. Fetched'
        BY <2>1, <3>1, <3>2 DEF Fetched
      <3> QED  BY <2>1, <3>3, <3>4, <3>5 DEF CachedIsSummarized, PaidAsked
    <2>3. CASE Current(r) \in summarized
      <3>1. pc' = pc /\ i' = [i EXCEPT ![r] = @ + 1] /\ blind' = blind
        BY <1>1, <2>3 DEF CheckSummary, Advance
      <3>2. TypeOK'
        BY <2>1, <3>1 DEF TypeOK, Steps, AtEnd
      <3>3. \A q \in Requests : Worked(q)'
        BY <2>1, <2>3, <3>1 DEF TypeOK, Worked, Current, AtEnd
      <3> QED  BY <2>1, <3>1, <3>2, <3>3 DEF CachedIsSummarized, PaidAsked, Fetched
    <2> QED  BY <2>2, <2>3
  <1>2. CASE LLMReturns(r)
    <2>1. /\ pc[r] = "calling" /\ pc' = [pc EXCEPT ![r] = "answered"]
          /\ calls' = [calls EXCEPT ![Current(r)] = @ + 1]
          /\ UNCHANGED <<fresh, status, texts, summarized, brief, kind, cand, i, fetches, blind, peak, requests, failures, days>>
      BY <1>2 DEF LLMReturns, Goto, db, locals
    <2>2. i[r] \in DOMAIN cand[r] /\ Current(r) \in Videos /\ status[Current(r)] # "pending"
      BY <2>1 DEF TypeOK, AtEnd, Current, Worked
    <2>3. TypeOK'
      BY <2>1, <2>2 DEF TypeOK, Steps, AtEnd
    <2>4. PaidAsked' /\ Fetched'
      BY <2>1, <2>2 DEF TypeOK, PaidAsked, Fetched
    <2>5. \A q \in Requests : Worked(q)'
      BY <2>1 DEF TypeOK, Worked
    <2> QED  BY <2>1, <2>3, <2>4, <2>5 DEF CachedIsSummarized
  <1>3. CASE StoreSummary(r)
    <2>1. /\ pc[r] = "answered" /\ pc' = [pc EXCEPT ![r] = "summarize"]
          /\ i' = [i EXCEPT ![r] = @ + 1]
          /\ summarized' = summarized \cup {Current(r)}
          /\ UNCHANGED <<fresh, status, texts, brief, kind, cand, calls, fetches, blind, peak, requests, failures, days>>
      BY <1>3 DEF StoreSummary, Goto, Advance, history
    <2>2. Current(r) \in Videos
      BY <2>1 DEF TypeOK, AtEnd, Current
    <2>3. TypeOK'
      BY <2>1, <2>2 DEF TypeOK, Steps, AtEnd
    <2>4. \A q \in Requests : Worked(q)'
      BY <2>1 DEF TypeOK, Worked, Current
    <2> QED  BY <2>1, <2>3, <2>4 DEF CachedIsSummarized, PaidAsked, Fetched
  <1>4. CASE Finish(r)
    <2> DEFINE picks == ToSet(First(cand[r], BriefingLimit))
    <2>1. picks \subseteq ToSet(cand[r])
      BY FirstIsPart, BriefingAssumption DEF TypeOK
    <2>2. ToSet(cand[r]) \subseteq summarized
      <3>1. pc[r] = "summarize" /\ AtEnd(r)
        BY <1>4 DEF Finish
      <3>2. \A n \in DOMAIN cand[r] : cand[r][n] \in summarized
        BY <3>1 DEF TypeOK, Worked, AtEnd
      <3> QED  BY <3>2 DEF ToSet
    <2>3. brief' = brief \/ brief' = {picks}
      BY <1>4 DEF Finish
    <2>4. UNCHANGED <<fresh, status, texts, summarized, calls, fetches, blind, peak, requests, failures, days>> /\ Leave(r)
      BY <1>4 DEF Finish, history
    <2>5. CachedIsSummarized' /\ brief' \subseteq SUBSET Videos
      BY <2>1, <2>2, <2>3, <2>4 DEF CachedIsSummarized, TypeOK
    <2>6. failures' \in Nat
      BY <2>4 DEF TypeOK
    <2> QED  BY <2>4, <2>5, <2>6, LeavingKeeps
  <1> QED  BY <1>1, <1>2, <1>3, <1>4

\* A failure, a change of the table, the end of the day.
LEMMA WorldKeeps ==
    ASSUME ShownInv,
           \/ \E r \in Requests : Fail(r)
           \/ \E v \in Videos : Freshen(v)
           \/ Midnight
           \/ UNCHANGED vars
    PROVE  ShownInv'
  <1> USE DEF ShownInv, transcripts
  <1>1. ASSUME NEW r \in Requests, Fail(r) PROVE ShownInv'
    <2>1. /\ Leave(r) /\ failures' = failures + 1
          /\ UNCHANGED <<fresh, status, texts, summarized, brief, calls, fetches, blind, peak, requests, days>>
      BY <1>1 DEF Fail, db, history
    <2>2. failures' \in Nat /\ brief' \subseteq SUBSET Videos /\ CachedIsSummarized'
      BY <2>1 DEF TypeOK, CachedIsSummarized
    <2> QED  BY <2>1, <2>2, LeavingKeeps
  <1>2. ASSUME NEW v \in Videos, Freshen(v) PROVE ShownInv'
    <2>1. fresh' \subseteq Videos
      BY <1>2 DEF Freshen, TypeOK
    <2> QED  BY <1>2, <2>1 DEF Freshen, locals, history, TypeOK, Worked, AtEnd, CachedIsSummarized, PaidAsked, Fetched
  <1>3. CASE Midnight
    BY <1>3 DEF Midnight, locals, history, TypeOK, Worked, AtEnd, CachedIsSummarized, PaidAsked, Fetched
  <1>4. CASE UNCHANGED vars
    BY <1>4 DEF vars, db, locals, history, TypeOK, Worked, AtEnd, CachedIsSummarized, PaidAsked, Fetched
  <1> QED  BY <1>1, <1>2, <1>3, <1>4

LEMMA ShownStays == ShownInv /\ [Next]_vars => ShownInv'
  <1> SUFFICES ASSUME ShownInv, [Next]_vars PROVE ShownInv'
    OBVIOUS
  <1>1. ASSUME NEW r \in Requests, Request(r) \/ Serve(r) PROVE ShownInv'
    BY <1>1, BeginKeeps, FetchKeeps, SummarizeKeeps DEF Serve
  <1> QED  BY <1>1, WorldKeeps DEF Next

-----------------------------------------------------------------------------
LEMMA ShownAlways == Spec => []ShownInv
  BY InitShown, ShownStays, PTL DEF Spec

\* The tables and the requests keep their types; no request works past its
\* candidates (the loops of build_briefing).
THEOREM BriefingTyped == Spec => []TypeOK
  BY ShownAlways, PTL DEF ShownInv

\* What get_today_briefing keeps for the day shows summarized videos only.
THEOREM KeptIsSummarized == Spec => []CachedIsSummarized
  BY ShownAlways, PTL DEF ShownInv

-----------------------------------------------------------------------------
(* How often a video is paid for *)

At(step, v) == {q \in Requests : pc[q] = step /\ Current(q) = v}
Busy == {q \in Requests : pc[q] # "idle"}

\* What the calls so far, and those still to come, are owed to: once v has its
\* summary only the requests that are in their call can still add one; before,
\* each call belongs to a request that has yet to store it, or to a failure.
PaidInv ==
    /\ Cardinality(Busy) <= peak
    /\ \A v \in Videos :
          IF v \in summarized
          THEN calls[v] + Cardinality(At("calling", v)) <= peak + failures
          ELSE calls[v] <= Cardinality(At("answered", v)) + failures

LEMMA RequestSets ==
    ASSUME NEW S, S \subseteq Requests
    PROVE  IsFiniteSet(S) /\ Cardinality(S) \in Nat
  BY BriefingAssumption, FS_Subset, FS_CardinalityType

LEMMA OneMore ==
    ASSUME NEW S, S \subseteq Requests, NEW r \in Requests
    PROVE  /\ r \notin S => Cardinality(S \cup {r}) = Cardinality(S) + 1
           /\ r \in S => Cardinality(S \ {r}) = Cardinality(S) - 1
           /\ r \notin S => Cardinality(S \ {r}) = Cardinality(S)
  <1>1. IsFiniteSet(S) /\ Cardinality(S) \in Nat
    BY RequestSets
  <1>2. r \notin S => Cardinality(S \cup {r}) = Cardinality(S) + 1
    BY <1>1, FS_AddElement
  <1>3. r \in S => Cardinality(S \ {r}) = Cardinality(S) - 1
    BY <1>1, FS_RemoveElement
  <1>4. r \notin S => S \ {r} = S
    OBVIOUS
  <1> QED  BY <1>2, <1>3, <1>4

\* Requests in their call and requests with an answer are different requests.
LEMMA AtMostPeak ==
    ASSUME PaidInv, peak \in Nat, NEW v \in Videos
    PROVE  Cardinality(At("calling", v)) + Cardinality(At("answered", v)) <= peak
  <1> DEFINE C == At("calling", v)
             A == At("answered", v)
  <1>1. C \subseteq Requests /\ A \subseteq Requests /\ C \cap A = {} /\ C \cup A \subseteq Busy
    BY DEF At, Busy
  <1>2. IsFiniteSet(C) /\ IsFiniteSet(A) /\ IsFiniteSet(Busy)
        /\ Cardinality(C) \in Nat /\ Cardinality(A) \in Nat /\ Cardinality(Busy) \in Nat
    BY <1>1, RequestSets DEF Busy
  <1>3. Cardinality(C \cup A) = Cardinality(C) + Cardinality(A) - Cardinality(C \cap A)
    BY <1>2, FS_Union
  <1>4. Cardinality(C \cap A) = 0
    BY <1>1, FS_EmptySet
  <1>5. Cardinality(C \cup A) <= Cardinality(Busy)
    BY <1>1, <1>2, FS_Subset
  <1> QED  BY <1>2, <1>3, <1>4, <1>5 DEF PaidInv

LEMMA InitPaid == Init => PaidInv
  <1> SUFFICES ASSUME Init PROVE PaidInv
    OBVIOUS
  <1>1. Busy = {} /\ \A v \in Videos : At("answered", v) = {}
    BY DEF Init, Busy, At
  <1>2. Cardinality({}) = 0
    BY FS_EmptySet
  <1>3. Cardinality(Busy) <= peak
    BY <1>1, <1>2 DEF Init
  <1>4. ASSUME NEW v \in Videos PROVE calls[v] <= Cardinality(At("answered", v)) + failures
    <2>1. calls[v] = 0 /\ failures = 0
      BY DEF Init
    <2>2. Cardinality(At("answered", v)) = 0
      BY <1>1, <1>2
    <2> QED  BY <2>1, <2>2
  <1> QED  BY <1>3, <1>4 DEF Init, PaidInv

\* No step but a new request makes more of them busy.
LEMMA BusyStep ==
    ASSUME ShownInv, PaidInv, [Next]_vars
    PROVE  Cardinality(Busy)' <= peak' /\ peak <= peak'
  <1>1. IsFiniteSet(Busy) /\ Cardinality(Busy) \in Nat /\ peak \in Nat
    BY RequestSets DEF Busy, ShownInv, TypeOK
  <1>2. ASSUME NEW r \in Requests, Request(r) PROVE Cardinality(Busy)' <= peak' /\ peak <= peak'
    <2>1. Busy' = Busy \cup {r} /\ r \notin Busy
      BY <1>2 DEF Request, Goto, Busy, ShownInv, TypeOK
    <2>2. Cardinality(Busy)' = Cardinality(Busy) + 1
      BY <1>1, <2>1, FS_AddElement
    <2>3. LET busy == Cardinality(Busy) + 1 IN peak' = IF busy > peak THEN busy ELSE peak
      BY <1>2 DEF Request, Busy
    <2> QED  BY <1>1, <2>2, <2>3
  <1>3. ASSUME Busy' \subseteq Busy, peak' = peak PROVE Cardinality(Busy)' <= peak' /\ peak <= peak'
    <2>1. Cardinality(Busy') <= Cardinality(Busy) /\ Cardinality(Busy') \in Nat
      BY <1>1, <1>3, FS_Subset, FS_CardinalityType
    <2> QED  BY <1>1, <1>3, <2>1 DEF PaidInv
  <1>4. ASSUME NEW r \in Requests, NEW step \in Steps, pc[r] # "idle", pc' = [pc EXCEPT ![r] = step] PROVE Busy' \subseteq Busy
    BY <1>4 DEF Busy, ShownInv, TypeOK
  <1>5. ASSUME pc' = pc PROVE Busy' \subseteq Busy
    BY <1>5 DEF Busy
  <1>6. ASSUME NEW r \in Requests, Serve(r) \/ Fail(r) PROVE Busy' \subseteq Busy /\ peak' = peak
    <2>1. peak' = peak
      BY <1>6 DEF Serve, Fail, ServeCached, Generate, Rank, CheckTranscript, StoreTranscript, FetchDone,
                  CheckSummary, LLMReturns, StoreSummary, Finish, history
    <2>2. pc[r] # "idle"
      BY <1>6 DEF Serve, Fail, ServeCached, Generate, Rank, CheckTranscript, StoreTranscript, FetchDone,
                  CheckSummary, LLMReturns, StoreSummary, Finish
    <2>3. pc' = pc \/ \E step \in Steps : Goto(r, step)
      BY <1>6 DEF Serve, Fail, ServeCached, Generate, Rank, CheckTranscript, StoreTranscript, FetchDone,
                  CheckSummary, Prompt, LLMReturns, StoreSummary, Finish, Leave, Steps
    <2> QED  BY <2>1, <2>2, <2>3, <1>4, <1>5 DEF Goto
  <1>7. ASSUME \/ \E v \in Videos : Freshen(v)
               \/ Midnight
               \/ UNCHANGED vars
        PROVE  pc' = pc /\ peak' = peak
    BY <1>7 DEF Freshen, Midnight, vars, history
  <1> QED  BY <1>2, <1>3, <1>5, <1>6, <1>7 DEF Next

\* Steps between, before and after the calls.
LEMMA QuietStep ==
    ASSUME ShownInv, PaidInv, peak' \in Nat, peak <= peak',
           UNCHANGED <<summarized, calls>>, failures' \in Nat, failures <= failures',
           Cardinality(Busy)' <= peak',
           \A v \in Videos : /\ Cardinality(At("calling", v)') <= Cardinality(At("calling", v))
                             /\ \/ At("answered", v)' = At("answered", v)
                                \/ /\ Cardinality(At("answered", v)) <= Cardinality(At("answered", v)') + 1
                                   /\ failures' = failures + 1
    PROVE  PaidInv'
  <1> SUFFICES ASSUME NEW v \in Videos
               PROVE  IF v \in summarized
                      THEN calls[v] + Cardinality(At("calling", v)') <= peak' + failures'
                      ELSE calls[v] <= Cardinality(At("answered", v)') + failures'
    BY Zenon DEF PaidInv
  <1>1. /\ Cardinality(At("calling", v)) \in Nat /\ Cardinality(At("answered", v)) \in Nat
        /\ Cardinality(At("calling", v)') \in Nat /\ Cardinality(At("answered", v)') \in Nat
    <2>1. /\ At("calling", v) \subseteq Requests /\ At("answered", v) \subseteq Requests
          /\ At("calling", v)' \subseteq Requests /\ At("answered", v)' \subseteq Requests
      BY DEF At
    <2> QED  BY <2>1, RequestSets
  <1>2. calls[v] \in Nat /\ peak \in Nat /\ failures \in Nat
    BY DEF ShownInv, TypeOK
  <1> QED  BY <1>1, <1>2 DEF PaidInv

\* The sets change only where the request that takes the step comes in or goes out.
Moves(r, step) ==
    /\ pc' = [pc EXCEPT ![r] = step]
    /\ \A q \in Requests \ {r} : cand'[q] = cand[q] /\ i'[q] = i[q]

LEMMA OutsideStep ==
    ASSUME ShownInv, NEW r \in Requests, NEW step, Moves(r, step), NEW v \in Videos, NEW s,
           ~(pc[r] = s /\ Current(r) = v), ~(step = s /\ Current(r)' = v)
    PROVE  At(s, v)' = At(s, v)
  <1>1. \A q \in Requests \ {r} : pc'[q] = pc[q] /\ Current(q)' = Current(q)
    BY DEF Moves, Current, ShownInv, TypeOK
  <1>2. pc'[r] = step
    BY DEF Moves, ShownInv, TypeOK
  <1>3. \A q \in Requests : (pc'[q] = s /\ Current(q)' = v) <=> (pc[q] = s /\ Current(q) = v)
    BY <1>1, <1>2
  <1> QED  BY <1>3 DEF At

LEMMA LeavesStep ==
    ASSUME ShownInv, NEW r \in Requests, NEW step, Moves(r, step), NEW v \in Videos, NEW s,
           pc[r] = s /\ Current(r) = v, step # s
    PROVE  Cardinality(At(s, v)') = Cardinality(At(s, v)) - 1
  <1>1. \A q \in Requests \ {r} : pc'[q] = pc[q] /\ Current(q)' = Current(q)
    BY DEF Moves, Current, ShownInv, TypeOK
  <1>2. pc'[r] = step
    BY DEF Moves, ShownInv, TypeOK
  <1>3. At(s, v)' = At(s, v) \ {r} /\ r \in At(s, v)
    BY <1>1, <1>2 DEF At
  <1>4. At(s, v) \subseteq Requests
    BY DEF At
  <1> QED  BY <1>3, <1>4, OneMore

LEMMA JoinsStep ==
    ASSUME ShownInv, NEW r \in Requests, NEW step, Moves(r, step), NEW v \in Videos, NEW s,
           step = s /\ Current(r)' = v, pc[r] # s
    PROVE  Cardinality(At(s, v)') = Cardinality(At(s, v)) + 1
  <1>1. \A q \in Requests \ {r} : pc'[q] = pc[q] /\ Current(q)' = Current(q)
    BY DEF Moves, Current, ShownInv, TypeOK
  <1>2. pc'[r] = step
    BY DEF Moves, ShownInv, TypeOK
  <1>3. At(s, v)' = At(s, v) \cup {r} /\ r \notin At(s, v)
    BY <1>1, <1>2 DEF At
  <1>4. At(s, v) \subseteq Requests
    BY DEF At
  <1> QED  BY <1>3, <1>4, OneMore

\* A request that is neither in its call nor has its answer takes any other step.
LEMMA ElsewhereStep ==
    ASSUME ShownInv, PaidInv, NEW r \in Requests, NEW step \in Steps \ {"calling", "answered"},
           pc[r] \notin {"calling", "answered"}, Moves(r, step),
           UNCHANGED <<summarized, calls>>, failures' \in Nat, failures <= failures',
           peak' \in Nat, peak <= peak', Cardinality(Busy)' <= peak'
    PROVE  PaidInv'
  <1>1. \A v \in Videos, s \in {"calling", "answered"} : At(s, v)' = At(s, v)
    <2> SUFFICES ASSUME NEW v \in Videos, NEW s \in {"calling", "answered"}
                 PROVE  At(s, v)' = At(s, v)
      OBVIOUS
    <2>1. pc[r] # s /\ step # s
      OBVIOUS
    <2> QED  BY <2>1, OutsideStep
  <1>2. \A v \in Videos : Cardinality(At("calling", v)) \in Nat
    BY RequestSets DEF At
  <1> QED  BY <1>1, <1>2, QuietStep

LEMMA CheckSummaryPaid ==
    ASSUME ShownInv, PaidInv, NEW r \in Requests, CheckSummary(r), Cardinality(Busy)' <= peak'
    PROVE  PaidInv'
  <1>1. pc[r] = "summarize" /\ ~AtEnd(r) /\ UNCHANGED <<summarized, cand, calls, peak, failures>>
    BY DEF CheckSummary, db
  <1>2. peak \in Nat /\ failures \in Nat
    BY DEF ShownInv, TypeOK
  <1>3. CASE Current(r) \in summarized
    <2>1. pc' = pc /\ i' = [i EXCEPT ![r] = @ + 1]
      BY <1>3 DEF CheckSummary, Advance
    <2>2. Moves(r, "summarize")
      BY <1>1, <2>1 DEF Moves, ShownInv, TypeOK
    <2>3. "summarize" \in Steps \ {"calling", "answered"} /\ pc[r] \notin {"calling", "answered"}
      BY <1>1 DEF Steps
    <2> QED  BY <1>1, <1>2, <2>2, <2>3, ElsewhereStep
  <1>4. CASE Current(r) \notin summarized
    <2>1. pc' = [pc EXCEPT ![r] = "calling"] /\ i' = i
      BY <1>4 DEF CheckSummary, Prompt, Goto
    <2>2. Current(r)' = Current(r) /\ Moves(r, "calling")
      BY <1>1, <2>1 DEF Current, Moves
    <2> SUFFICES ASSUME NEW v \in Videos
                 PROVE  IF v \in summarized
                        THEN calls[v] + Cardinality(At("calling", v)') <= peak + failures
                        ELSE calls[v] <= Cardinality(At("answered", v)') + failures
      BY <1>1, Zenon DEF PaidInv
    <2>3. At("answered", v)' = At("answered", v)
      BY <1>1, <2>2, OutsideStep
    <2>4. v \in summarized => At("calling", v)' = At("calling", v)
      BY <1>1, <1>4, <2>2, OutsideStep
    <2> QED  BY <2>3, <2>4 DEF PaidInv
  <1> QED  BY <1>3, <1>4

\* A call becomes an answer that is still to be stored.
LEMMA LLMReturnsPaid ==
    ASSUME ShownInv, PaidInv, NEW r \in Requests, LLMReturns(r), Cardinality(Busy)' <= peak'
    PROVE  PaidInv'
  <1>1. /\ pc[r] = "calling" /\ pc' = [pc EXCEPT ![r] = "answered"]
        /\ calls' = [calls EXCEPT ![Current(r)] = @ + 1]
        /\ UNCHANGED <<summarized, cand, i, peak, failures>>
    BY DEF LLMReturns, Goto, db, locals
  <1>2. Current(r)' = Current(r) /\ Current(r) \in Videos /\ Moves(r, "answered")
    BY <1>1 DEF Current, ShownInv, TypeOK, AtEnd, Moves
  <1> SUFFICES ASSUME NEW v \in Videos
               PROVE  IF v \in summarized
                      THEN calls'[v] + Cardinality(At("calling", v)') <= peak + failures
                      ELSE calls'[v] <= Cardinality(At("answered", v)') + failures
    BY <1>1, Zenon DEF PaidInv
  <1>3. /\ Cardinality(At("calling", v)) \in Nat /\ Cardinality(At("answered", v)) \in Nat
        /\ calls[v] \in Nat /\ peak \in Nat /\ failures \in Nat
    BY RequestSets DEF At, ShownInv, TypeOK
  <1>4. CASE Current(r) = v
    <2>1. Cardinality(At("answered", v)') = Cardinality(At("answered", v)) + 1
      BY <1>1, <1>2, <1>4, JoinsStep
    <2>2. Cardinality(At("calling", v)') = Cardinality(At("calling", v)) - 1
      BY <1>1, <1>2, <1>4, LeavesStep
    <2>5. calls'[v] = calls[v] + 1
      BY <1>1, <1>4 DEF ShownInv, TypeOK
    <2> QED  BY <1>3, <2>1, <2>2, <2>5 DEF PaidInv
  <1>5. CASE Current(r) # v
    <2>1. At("answered", v)' = At("answered", v) /\ At("calling", v)' = At("calling", v)
      BY <1>1, <1>2, <1>5, OutsideStep
    <2>2. calls'[v] = calls[v]
      BY <1>1, <1>5 DEF ShownInv, TypeOK
    <2> QED  BY <2>1, <2>2 DEF PaidInv
  <1> QED  BY <1>4, <1>5

\* The first summary stored turns what answers allowed into what peak allows.
LEMMA StoreSummaryPaid ==
    ASSUME ShownInv, PaidInv, NEW r \in Requests, StoreSummary(r), Cardinality(Busy)' <= peak'
    PROVE  PaidInv'
  <1>1. /\ pc[r] = "answered" /\ pc' = [pc EXCEPT ![r] = "summarize"]
        /\ i' = [i EXCEPT ![r] = @ + 1]
        /\ summarized' = summarized \cup {Current(r)}
        /\ UNCHANGED <<cand, calls, fetches, blind, peak, failures>>
    BY DEF StoreSummary, Goto, Advance, history
  <1> SUFFICES ASSUME NEW v \in Videos
               PROVE  IF v \in summarized'
                      THEN calls[v] + Cardinality(At("calling", v)') <= peak + failures
                      ELSE calls[v] <= Cardinality(At("answered", v)') + failures
    BY <1>1, Zenon DEF PaidInv
  <1>2. Moves(r, "summarize")
    BY <1>1 DEF Moves, ShownInv, TypeOK
  <1>3. At("calling", v)' = At("calling", v)
    BY <1>1, <1>2, OutsideStep
  <1>4. CASE Current(r) = v
    <2>1. /\ Cardinality(At("calling", v)) \in Nat /\ Cardinality(At("answered", v)) \in Nat
          /\ calls[v] \in Nat /\ peak \in Nat /\ failures \in Nat
      BY RequestSets DEF At, ShownInv, TypeOK
    <2>2. Cardinality(At("calling", v)) + Cardinality(At("answered", v)) <= peak
      BY <2>1, AtMostPeak
    <2> QED  BY <1>1, <1>3, <1>4, <2>1, <2>2 DEF PaidInv
  <1>5. CASE Current(r) # v
    <2>1. At("answered", v)' = At("answered", v)
      BY <1>1, <1>2, <1>5, OutsideStep
    <2>2. v \in summarized' <=> v \in summarized
      BY <1>1, <1>5
    <2> QED  BY <1>3, <2>1, <2>2 DEF PaidInv
  <1> QED  BY <1>4, <1>5

\* A failure may lose one answer, and is counted.
LEMMA FailPaid ==
    ASSUME ShownInv, PaidInv, NEW r \in Requests, Fail(r), Cardinality(Busy)' <= peak'
    PROVE  PaidInv'
  <1>1. /\ pc' = [pc EXCEPT ![r] = "idle"] /\ failures' = failures + 1
        /\ UNCHANGED <<summarized, calls, peak>>
    BY DEF Fail, Leave, Goto, db, history
  <1>2. Moves(r, "idle")
    BY <1>1 DEF Fail, Leave, Moves, ShownInv, TypeOK
  <1>3. peak \in Nat /\ failures \in Nat
    BY DEF ShownInv, TypeOK
  <1>4. ASSUME NEW v \in Videos, NEW s \in {"calling", "answered"}
        PROVE  /\ Cardinality(At(s, v)') <= Cardinality(At(s, v))
               /\ Cardinality(At(s, v)) <= Cardinality(At(s, v)') + 1
    <2>1. Cardinality(At(s, v)) \in Nat
      BY RequestSets DEF At
    <2>2. CASE pc[r] = s /\ Current(r) = v
      <3>1. Cardinality(At(s, v)') = Cardinality(At(s, v)) - 1
        BY <1>2, <2>2, LeavesStep
      <3> QED  BY <2>1, <3>1
    <2>3. CASE ~(pc[r] = s /\ Current(r) = v)
      <3>1. At(s, v)' = At(s, v)
        BY <1>2, <2>3, OutsideStep
      <3> QED  BY <2>1, <3>1
    <2> QED  BY <2>2, <2>3
  <1>5. \A v \in Videos : /\ Cardinality(At("calling", v)') <= Cardinality(At("calling", v))
                          /\ Cardinality(At("answered", v)) <= Cardinality(At("answered", v)') + 1
    BY <1>4
  <1> QED  BY <1>1, <1>3, <1>5, QuietStep

\* All other steps of a request move it from one quiet place to another.
LEMMA OtherStepsPaid ==
    ASSUME ShownInv, PaidInv, NEW r \in Requests, Cardinality(Busy)' <= peak', peak <= peak', peak' \in Nat,
           \/ Request(r) \/ ServeCached(r) \/ Generate(r) \/ Rank(r)
           \/ CheckTranscript(r) \/ StoreTranscript(r) \/ FetchDone(r) \/ Finish(r)
    PROVE  PaidInv'
  <1>1. UNCHANGED <<summarized, calls, failures>>
    BY DEF Request, ServeCached, Generate, Rank, CheckTranscript, StoreTranscript, FetchDone, Finish, db, history
  <1>2. pc[r] \notin {"calling", "answered"}
    BY DEF Request, ServeCached, Generate, Rank, CheckTranscript, StoreTranscript, FetchDone, Finish
  <1>3. \E step \in Steps \ {"calling", "answered"} : pc' = [pc EXCEPT ![r] = step]
    <2>1. CASE CheckTranscript(r)
      <3>1. CASE status[Current(r)] = "pending"
        BY <2>1, <3>1 DEF CheckTranscript, Goto, Steps
      <3>2. CASE status[Current(r)] # "pending"
        <4>1. pc' = pc /\ pc[r] = "fetch"
          BY <2>1, <3>2 DEF CheckTranscript
        <4>2. pc' = [pc EXCEPT ![r] = "fetch"]
          BY <4>1 DEF ShownInv, TypeOK
        <4> QED  BY <4>2 DEF Steps
      <3> QED  BY <3>1, <3>2
    <2>2. CASE Request(r)
      BY <2>2 DEF Request, Goto, Steps
    <2>3. CASE ~CheckTranscript(r) /\ ~Request(r)
      BY <2>3 DEF ServeCached, Generate, Rank, StoreTranscript, FetchDone, Finish, Leave, Goto, Steps
    <2> QED  BY <2>1, <2>2, <2>3
  <1>4. \A q \in Requests \ {r} : cand'[q] = cand[q] /\ i'[q] = i[q]
    <2> USE DEF ShownInv, TypeOK
    <2>1. CASE Request(r) \/ Generate(r)
      BY <2>1 DEF Request, Generate, locals
    <2>2. CASE ServeCached(r) \/ Finish(r)
      BY <2>2 DEF ServeCached, Finish, Leave
    <2>3. CASE Rank(r)
      BY <2>3 DEF Rank
    <2>4. CASE CheckTranscript(r) \/ StoreTranscript(r) \/ FetchDone(r)
      BY <2>4 DEF CheckTranscript, StoreTranscript, FetchDone, Advance
    <2> QED  BY <2>1, <2>2, <2>3, <2>4
  <1>5. failures \in Nat
    BY DEF ShownInv, TypeOK
  <1>6. PICK step \in Steps \ {"calling", "answered"} : Moves(r, step)
    BY <1>3, <1>4 DEF Moves
  <1>7. UNCHANGED <<summarized, calls>> /\ failures' \in Nat /\ failures <= failures'
    BY <1>1, <1>5
  <1> QED  BY <1>2, <1>6, <1>7, ElsewhereStep

LEMMA PaidStays == ShownInv /\ ShownInv' /\ PaidInv /\ [Next]_vars => PaidInv'
  <1> SUFFICES ASSUME ShownInv, ShownInv', PaidInv, [Next]_vars PROVE PaidInv'
    OBVIOUS
  <1>1. Cardinality(Busy)' <= peak' /\ peak <= peak' /\ peak' \in Nat
    BY BusyStep DEF ShownInv, TypeOK
  <1>2. ASSUME NEW r \in Requests, Request(r) \/ Serve(r) \/ Fail(r) PROVE PaidInv'
    BY <1>1, <1>2, OtherStepsPaid, CheckSummaryPaid, LLMReturnsPaid, StoreSummaryPaid, FailPaid DEF Serve
  <1>3. CASE \/ \E v \in Videos : Freshen(v)
             \/ Midnight
             \/ UNCHANGED vars
    <2>1. UNCHANGED <<pc, cand, i, summarized, calls, failures>>
      BY <1>3 DEF Freshen, Midnight, vars, db, locals, history
    <2>2. \A v \in Videos, s \in {"calling", "answered"} : At(s, v)' = At(s, v)
      BY <2>1 DEF At, Current
    <2>3. \A v \in Videos : Cardinality(At("calling", v)) \in Nat
      BY RequestSets DEF At
    <2>4. failures \in Nat
      BY DEF ShownInv, TypeOK
    <2> QED  BY <1>1, <2>1, <2>2, <2>3, <2>4, QuietStep
  <1> QED  BY <1>2, <1>3 DEF Next

LEMMA PaidBounds == ShownInv /\ PaidInv => CallsBounded
  <1> SUFFICES ASSUME ShownInv, PaidInv, NEW v \in Videos PROVE calls[v] <= peak + failures
    BY DEF CallsBounded
  <1>1. /\ Cardinality(At("calling", v)) \in Nat /\ Cardinality(At("answered", v)) \in Nat
        /\ calls[v] \in Nat /\ peak \in Nat /\ failures \in Nat
    BY RequestSets DEF At, ShownInv, TypeOK
  <1>2. Cardinality(At("calling", v)) + Cardinality(At("answered", v)) <= peak
    BY <1>1, AtMostPeak
  <1> QED  BY <1>1, <1>2 DEF PaidInv

\* However requests overlap: a video is summarized no more often than requests have
\* been under way together, but for one call for each request that has failed.
THEOREM CallsAreBounded == Spec => []CallsBounded
  BY ShownAlways, InitPaid, PaidStays, PaidBounds, PTL DEF Spec

-----------------------------------------------------------------------------
(* How often a transcript is fetched, and who does without one *)

\* Once an outcome is stored nobody starts to fetch: all that have fetched, or are
\* about to store what they have fetched, were under way together.
FetchInv ==
    \A v \in Videos : status[v] # "pending" => fetches[v] + Cardinality(At("fetching", v)) <= peak

LEMMA InitFetch == Init => FetchInv
  BY DEF Init, FetchInv

\* Steps that have nothing to do with a fetch.
LEMMA NoFetchStep ==
    ASSUME ShownInv, NEW r \in Requests,
           \/ Request(r) \/ ServeCached(r) \/ Generate(r) \/ Rank(r) \/ FetchDone(r)
           \/ CheckSummary(r) \/ LLMReturns(r) \/ StoreSummary(r) \/ Finish(r)
    PROVE  UNCHANGED <<status, fetches>> /\ \A v \in Videos : At("fetching", v)' = At("fetching", v)
  <1>1. UNCHANGED <<status, fetches>> /\ pc[r] # "fetching"
    BY DEF Request, ServeCached, Generate, Rank, FetchDone, CheckSummary, LLMReturns, StoreSummary,
           Finish, db, transcripts, history
  <1>2. \E step \in Steps \ {"fetching"} : pc' = [pc EXCEPT ![r] = step]
    <2>1. CASE CheckSummary(r)
      <3>1. pc[r] = "summarize" /\ (pc' = pc \/ pc' = [pc EXCEPT ![r] = "calling"])
        BY <2>1 DEF CheckSummary, Prompt, Goto
      <3>2. pc = [pc EXCEPT ![r] = pc[r]]
        BY DEF ShownInv, TypeOK
      <3> QED  BY <3>1, <3>2 DEF Steps
    <2>2. CASE Request(r)
      BY <2>2 DEF Request, Goto, Steps
    <2>3. CASE ~CheckSummary(r) /\ ~Request(r)
      BY <2>3 DEF ServeCached, Generate, Rank, FetchDone, LLMReturns, StoreSummary, Finish, Leave, Goto, Steps
    <2> QED  BY <2>1, <2>2, <2>3
  <1>3. \A q \in Requests \ {r} : cand'[q] = cand[q] /\ i'[q] = i[q]
    <2> USE DEF ShownInv, TypeOK
    <2>1. CASE Request(r) \/ Generate(r) \/ LLMReturns(r)
      BY <2>1 DEF Request, Generate, LLMReturns, locals
    <2>2. CASE ServeCached(r) \/ Finish(r)
      BY <2>2 DEF ServeCached, Finish, Leave
    <2>3. CASE Rank(r) \/ FetchDone(r)
      BY <2>3 DEF Rank, FetchDone
    <2>4. CASE CheckSummary(r) \/ StoreSummary(r)
      BY <2>4 DEF CheckSummary, StoreSummary, Advance
    <2> QED  BY <2>1, <2>2, <2>3, <2>4
  <1>4. PICK step \in Steps \ {"fetching"} : Moves(r, step)
    BY <1>2, <1>3 DEF Moves
  <1> QED  BY <1>1, <1>4, OutsideStep

\* A fetch begins only while no outcome is stored.
LEMMA CheckTranscriptFetch ==
    ASSUME ShownInv, FetchInv, NEW r \in Requests, CheckTranscript(r)
    PROVE  FetchInv'
  <1>1. pc[r] = "fetch" /\ UNCHANGED <<status, cand, fetches, peak>>
    BY DEF CheckTranscript, db, transcripts, history
  <1> SUFFICES ASSUME NEW v \in Videos, status[v] # "pending"
               PROVE  At("fetching", v)' = At("fetching", v)
    BY <1>1 DEF FetchInv
  <1>2. CASE status[Current(r)] = "pending"
    <2>1. pc' = [pc EXCEPT ![r] = "fetching"] /\ i' = i
      BY <1>2 DEF CheckTranscript, Goto
    <2>2. Current(r)' = Current(r) /\ Moves(r, "fetching")
      BY <1>1, <2>1 DEF Current, Moves
    <2> QED  BY <1>1, <1>2, <2>2, OutsideStep
  <1>3. CASE status[Current(r)] # "pending"
    <2>1. pc' = pc /\ i' = [i EXCEPT ![r] = @ + 1]
      BY <1>3 DEF CheckTranscript, Advance
    <2>2. Moves(r, "fetch")
      BY <1>1, <2>1 DEF Moves, ShownInv, TypeOK
    <2> QED  BY <1>1, <2>2, OutsideStep
  <1> QED  BY <1>2, <1>3

\* A fetch that is stored is no longer under way.
LEMMA StoreTranscriptFetch ==
    ASSUME ShownInv, PaidInv, FetchInv, NEW r \in Requests, StoreTranscript(r)
    PROVE  FetchInv'
  <1>1. /\ pc[r] = "fetching" /\ pc' = [pc EXCEPT ![r] = "fetch"]
        /\ i' = [i EXCEPT ![r] = @ + 1]
        /\ fetches' = [fetches EXCEPT ![Current(r)] = @ + 1]
        /\ UNCHANGED <<cand, peak>>
    BY DEF StoreTranscript, Goto, Advance
  <1>2. Moves(r, "fetch")
    BY <1>1 DEF Moves, ShownInv, TypeOK
  <1> SUFFICES ASSUME NEW v \in Videos, status'[v] # "pending"
               PROVE  fetches'[v] + Cardinality(At("fetching", v)') <= peak
    BY <1>1, Zenon DEF FetchInv
  <1>3. Cardinality(At("fetching", v)) \in Nat /\ fetches[v] \in Nat /\ peak \in Nat
    BY RequestSets DEF At, ShownInv, TypeOK
  <1>4. CASE Current(r) = v
    <2>1. Cardinality(At("fetching", v)') = Cardinality(At("fetching", v)) - 1
      BY <1>1, <1>2, <1>4, LeavesStep
    <2>2. fetches'[v] = fetches[v] + 1
      BY <1>1, <1>4 DEF ShownInv, TypeOK
    <2>3. status[v] = "pending" => fetches[v] = 0
      BY DEF ShownInv, Fetched
    <2>4. Cardinality(At("fetching", v)) <= peak
      <3>1. At("fetching", v) \subseteq Busy /\ Busy \subseteq Requests
        BY DEF At, Busy
      <3>2. IsFiniteSet(Busy) /\ Cardinality(Busy) \in Nat
        BY <3>1, RequestSets
      <3>3. Cardinality(At("fetching", v)) <= Cardinality(Busy)
        BY <3>1, <3>2, FS_Subset
      <3> QED  BY <1>3, <3>2, <3>3 DEF PaidInv
    <2> QED  BY <1>3, <2>1, <2>2, <2>3, <2>4 DEF FetchInv
  <1>5. CASE Current(r) # v
    <2>1. At("fetching", v)' = At("fetching", v)
      BY <1>1, <1>2, <1>5, OutsideStep
    <2>2. fetches'[v] = fetches[v] /\ status'[v] = status[v]
      BY <1>1, <1>5 DEF StoreTranscript, ShownInv, TypeOK
    <2> QED  BY <2>1, <2>2 DEF FetchInv
  <1> QED  BY <1>4, <1>5

LEMMA FailFetch ==
    ASSUME ShownInv, FetchInv, NEW r \in Requests, Fail(r)
    PROVE  FetchInv'
  <1>1. pc' = [pc EXCEPT ![r] = "idle"] /\ UNCHANGED <<status, fetches, peak>>
    BY DEF Fail, Leave, Goto, db, transcripts, history
  <1>2. Moves(r, "idle")
    BY <1>1 DEF Fail, Leave, Moves, ShownInv, TypeOK
  <1>3. ASSUME NEW v \in Videos
        PROVE  Cardinality(At("fetching", v)') <= Cardinality(At("fetching", v))
               /\ Cardinality(At("fetching", v)') \in Nat /\ Cardinality(At("fetching", v)) \in Nat
    <2>1. Cardinality(At("fetching", v)) \in Nat
      BY RequestSets DEF At
    <2>2. CASE pc[r] = "fetching" /\ Current(r) = v
      <3>1. Cardinality(At("fetching", v)') = Cardinality(At("fetching", v)) - 1
        BY <1>2, <2>2, LeavesStep
      <3>2. Cardinality(At("fetching", v)') \in Nat
        <4>1. At("fetching", v)' \subseteq Requests
          BY DEF At
        <4> QED  BY <4>1, RequestSets
      <3> QED  BY <2>1, <3>1, <3>2
    <2>3. CASE ~(pc[r] = "fetching" /\ Current(r) = v)
      <3>1. At("fetching", v)' = At("fetching", v)
        BY <1>2, <2>3, OutsideStep
      <3> QED  BY <2>1, <3>1
    <2> QED  BY <2>2, <2>3
  <1>4. \A v \in Videos : fetches[v] \in Nat /\ peak \in Nat
    BY DEF ShownInv, TypeOK
  <1> SUFFICES ASSUME NEW v \in Videos, status[v] # "pending"
               PROVE  fetches[v] + Cardinality(At("fetching", v)') <= peak
    BY <1>1, Zenon DEF FetchInv
  <1> QED  BY <1>3, <1>4 DEF FetchInv

LEMMA FetchStays == ShownInv /\ PaidInv /\ FetchInv /\ [Next]_vars => FetchInv'
  <1> SUFFICES ASSUME ShownInv, PaidInv, FetchInv, [Next]_vars PROVE FetchInv'
    OBVIOUS
  <1>1. peak <= peak' /\ peak \in Nat /\ peak' \in Nat
    BY BusyStep, ShownStays DEF ShownInv, TypeOK
  <1>2. ASSUME UNCHANGED <<status, fetches>>, \A v \in Videos : At("fetching", v)' = At("fetching", v)
        PROVE  FetchInv'
    <2> SUFFICES ASSUME NEW v \in Videos, status[v] # "pending"
                 PROVE  fetches[v] + Cardinality(At("fetching", v)) <= peak'
      BY <1>2, Zenon DEF FetchInv
    <2>1. Cardinality(At("fetching", v)) \in Nat /\ fetches[v] \in Nat
      BY RequestSets DEF At, ShownInv, TypeOK
    <2> QED  BY <1>1, <2>1 DEF FetchInv
  <1>3. ASSUME NEW r \in Requests, Request(r) \/ Serve(r) \/ Fail(r) PROVE FetchInv'
    BY <1>2, <1>3, NoFetchStep, CheckTranscriptFetch, StoreTranscriptFetch, FailFetch DEF Serve
  <1>4. CASE \/ \E v \in Videos : Freshen(v)
             \/ Midnight
             \/ UNCHANGED vars
    <2>1. UNCHANGED <<pc, cand, i, status, fetches>>
      BY <1>4 DEF Freshen, Midnight, vars, db, transcripts, locals, history
    <2>2. \A v \in Videos : At("fetching", v)' = At("fetching", v)
      BY <2>1 DEF At, Current
    <2> QED  BY <1>2, <2>1, <2>2
  <1> QED  BY <1>3, <1>4 DEF Next

LEMMA FetchBounds == ShownInv /\ PaidInv /\ FetchInv => TranscriptFirst
  <1> SUFFICES ASSUME ShownInv, PaidInv, FetchInv, NEW v \in Videos
               PROVE  /\ calls[v] > 0 => status[v] # "pending"
                      /\ fetches[v] <= peak
                      /\ v \in blind \cap texts => fetches[v] > 1
    BY DEF TranscriptFirst
  <1>1. fetches[v] \in Nat /\ peak \in Nat /\ Cardinality(At("fetching", v)) \in Nat
    BY RequestSets DEF At, ShownInv, TypeOK
  <1>2. fetches[v] <= peak
    BY <1>1 DEF FetchInv, ShownInv, Fetched
  <1> QED  BY <1>1, <1>2 DEF ShownInv, PaidAsked, Fetched

\* No summary is paid for before the video's transcript was asked for, and it does
\* without a transcript that is stored only if several requests fetched that one,
\* which no more than those under way together do.
THEOREM TranscriptsComeFirst == Spec => []TranscriptFirst
  BY ShownAlways, InitPaid, PaidStays, InitFetch, FetchStays, FetchBounds, PTL DEF Spec
=============================================================================
