------------------------------ MODULE SubAgent ------------------------------
(***************************************************************************)
(* summarize_videos_subagent over the cost ledger: up to MaxVideoIds       *)
(* workers, one thread and one LLM call each, answer for their video; the  *)
(* supervisor collects what they return in the order they finish.  Worker  *)
(* n serves position n of the batch and is the ledger's client n; chats    *)
(* and other clients go on meanwhile.                                      *)
(***************************************************************************)
EXTENDS CostLedger, Sequences

CONSTANTS
    Videos,        \* ids the agent may ask for
    Stored,        \* those that are in the database
    MaxVideoIds,   \* MAX_VIDEO_IDS
    MaxIds,        \* bound: ids in a request
    MaxBatches     \* bound: requests

ASSUME SubAgentAssumption ==
    /\ Stored \subseteq Videos
    /\ MaxVideoIds \in Nat \ {0} /\ MaxIds \in Nat /\ MaxBatches \in Nat
    /\ 1..MaxVideoIds \subseteq Clients

Workers == 1..MaxVideoIds

VARIABLES
    asked,     \* the ids of the batch, those beyond MaxVideoIds cut off
    stage,     \* of a worker: off, queued, calling, done
    future,    \* what a worker that is done returned, and for which video
    results,   \* the supervisor's list
    open,      \* summarize_videos_subagent has not returned
    batches,   \* number of requests
    billed     \* history: positions whose LLM call has a row in runs

subvars == <<asked, stage, future, results, open, batches, billed>>

None == [video |-> "none", status |-> "none"]
Answers == [video : Videos, status : {"ok", "NOT_FOUND", "COST_LIMIT_EXCEEDED", "error"}]

\* video_ids[:MAX_VIDEO_IDS]
FirstIds(ids) == SubSeq(ids, 1, IF Len(ids) < MaxVideoIds THEN Len(ids) ELSE MaxVideoIds)

Positions == DOMAIN asked

SubInit ==
    /\ Init
    /\ asked = <<>> /\ open = FALSE /\ batches = 0 /\ billed = {}
    /\ stage = [n \in Workers |-> "off"]
    /\ future = [n \in Workers |-> None]
    /\ results = <<>>

\* The tool is called; without ids there is nothing to return but an empty list.
Request(ids) ==
    /\ ~open /\ batches < MaxBatches
    /\ batches' = batches + 1
    /\ asked' = FirstIds(ids)
    /\ open' = (ids # <<>>)
    /\ stage' = [n \in Workers |-> IF n \in DOMAIN asked' THEN "queued" ELSE "off"]
    /\ results' = [n \in DOMAIN asked' |-> None]
    /\ future' = [n \in Workers |-> None]
    /\ billed' = {}
    /\ UNCHANGED vars

\* Worker n returns.
Done(n, status) ==
    /\ stage' = [stage EXCEPT ![n] = "done"]
    /\ future' = [future EXCEPT ![n] = [video |-> asked[n], status |-> status]]
    /\ UNCHANGED <<asked, results, open, batches>>

\* The worker opens its connection and reads the video's row.
Lookup(n) ==
    /\ stage[n] = "queued"
    /\ \/ /\ asked[n] \in Stored
          /\ stage' = [stage EXCEPT ![n] = "calling"]
          /\ UNCHANGED <<asked, future, results, open, batches>>
       \/ asked[n] \notin Stored /\ Done(n, "NOT_FOUND")
       \/ Done(n, "error")
    /\ UNCHANGED <<vars, billed>>

\* client.parse finds the limit reached.
Refused(n) ==
    /\ stage[n] = "calling" /\ pc[n] = "idle"
    /\ day >= DailyLimit \/ month >= MonthlyLimit
    /\ Done(n, "COST_LIMIT_EXCEEDED")
    /\ UNCHANGED <<vars, billed>>

\* client.parse makes its way from the check to the row.
Calls(n) ==
    /\ stage[n] = "calling"
    /\ Check(n) \/ CallReturns(n) \/ Finish(n)
    /\ UNCHANGED subvars

\* The row is there; an answer without parsed_output still becomes an error.
Answered(n) ==
    /\ stage[n] = "calling"
    /\ Record(n)
    /\ billed' = billed \cup {n}
    /\ Done(n, "ok") \/ Done(n, "error")

\* Mutant: the worker catches CostLimitExceeded only.
RaisesUncaught(n) ==
    /\ stage[n] = "calling"
    /\ Abandon(n) \/ Lose(n)
    /\ stage' = [stage EXCEPT ![n] = "done"]
    /\ UNCHANGED <<asked, future, results, open, batches, billed>>

\* client.parse raises: the request fails, or what came cannot be parsed, priced
\* or recorded.  Whatever it is, the worker returns.
Raises(n) ==
    /\ stage[n] = "calling"
    /\ Abandon(n) \/ Lose(n)
    /\ Done(n, "error")
    /\ UNCHANGED billed

\* Mutant: results are put where they come, not where they belong.
CollectNext(n) ==
    /\ open /\ stage[n] = "done" /\ results[n] = None
    /\ LET at == CHOOSE m \in Positions :
                    results[m] = None /\ \A k \in 1..m - 1 : results[k] # None
       IN  results' = [results EXCEPT ![at] = future[n]]
    /\ UNCHANGED <<vars, asked, stage, future, open, batches, billed>>

\* as_completed hands the supervisor a future that is done.
Collect(n) ==
    /\ open /\ stage[n] = "done" /\ results[n] = None
    /\ results' = [results EXCEPT ![n] = future[n]]
    /\ UNCHANGED <<vars, asked, stage, future, open, batches, billed>>

\* Every future has been collected and the executor is shut down.
Return ==
    /\ open
    /\ \A n \in Positions : results[n] # None
    /\ open' = FALSE
    /\ UNCHANGED <<vars, asked, stage, future, results, batches, billed>>

\* The chats and the other clients of the ledger.
Others ==
    /\ \/ \E r \in Runners \ Workers :
             \/ Check(r) \/ CallReturns(r) \/ CallUnpriced(r) \/ Abandon(r)
             \/ Finish(r) \/ Record(r) \/ Lose(r)
       \/ Age
    /\ UNCHANGED subvars

Worker(n) == Lookup(n) \/ Refused(n) \/ Calls(n) \/ Answered(n) \/ Raises(n)

SubNext ==
    \/ \E k \in 0..MaxIds : \E ids \in [1..k -> Videos] : Request(ids)
    \/ \E n \in Workers : Worker(n) \/ Collect(n)
    \/ Return
    \/ Others

subspecvars == <<vars, subvars>>

SubSpec == SubInit /\ [][SubNext]_subspecvars

\* The threads of the pool run, and an LLM call returns or raises (the client of
\* the API has a timeout).
SubFairSpec ==
    /\ SubSpec
    /\ \A n \in Workers : WF_subspecvars(Worker(n)) /\ WF_subspecvars(Collect(n))
    /\ WF_subspecvars(Return)

-----------------------------------------------------------------------------
\* Types, the ledger's included, and the workers' bookkeeping: a worker calls for
\* a video that is stored, its future is set when it is done, and it holds the
\* ledger only while it calls.
SubTypeOK ==
    /\ TypeOK
    /\ asked \in Seq(Videos) /\ open \in BOOLEAN /\ batches \in 0..MaxBatches
    /\ results \in [Positions -> Answers \cup {None}]
    /\ stage \in [Workers -> {"off", "queued", "calling", "done"}]
    /\ \A n \in Workers :
          /\ stage[n] # "off" <=> n \in Positions
          /\ IF stage[n] = "done" THEN future[n] \in Answers ELSE future[n] = None
          /\ pc[n] # "idle" => stage[n] = "calling"
          /\ stage[n] = "calling" => asked[n] \in Stored

\* What the supervisor returns answers the request position by position, whatever
\* order the workers finish in and whichever of them fail: results[k] is what the
\* worker of the k-th id returned, an unknown video never looks like an answer,
\* and an answer has been paid for in the ledger (the next check sees it).
EachAnswersItsVideo ==
    asked # <<>> /\ ~open =>
       \A n \in Positions :
          /\ results[n].video = asked[n]
          /\ results[n].status = "ok" => asked[n] \in Stored /\ n \in billed
          /\ results[n].status = "NOT_FOUND" => asked[n] \notin Stored

\* A batch ends: no failure of a worker, a limit met half-way through or a price
\* that cannot be recorded keeps the supervisor waiting.
BatchReturns == open ~> ~open
=============================================================================
