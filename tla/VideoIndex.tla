----------------------------- MODULE VideoIndex -----------------------------
(***************************************************************************)
(* How a video gets into the semantic index: poll_all_channels discovers   *)
(* it, enrich_pending_videos fills its metadata, index_l1 stores its       *)
(* summary chunk and index_l2 the chunks of its transcript once the user   *)
(* has watched it.  The worker's job runs all four in a row; the CLI runs  *)
(* index_l1 or index_l2 alone, in a process of its own.  Rows are selected *)
(* first and written later, batch by batch, one commit per batch.          *)
(***************************************************************************)
EXTENDS Naturals, FiniteSetsExt

CONSTANTS
    Videos,     \* the videos of the subscribed channels
    Workers,    \* processes that run the poll cycle (max_instances = 1 in each)
    Clis,       \* processes that run a CLI command
    Limit,      \* INDEX_BATCH_LIMIT: videos the worker indexes per cycle and level
    BatchSize,  \* videos embedded and committed together
    MaxAborts   \* bound: exceptions and crashes

ASSUME IndexAssumption ==
    /\ IsFiniteSet(Videos)
    /\ Limit \in Nat \ {0} /\ BatchSize \in Nat \ {0} /\ MaxAborts \in Nat

Procs == Workers \cup Clis

VARIABLES
    known,       \* rows of videos
    level,       \* indexed_level: 0 none, 1 summary, 2 transcript
    watched,     \* video_states.state = 'watched'
    transcript,  \* "none", or a stored transcript with "some" or "no" segments
    silenced,    \* history: videos that ever had a transcript without segments
    summaries,   \* videos whose chunk {id}:0 is stored
    parts,       \* videos whose transcript chunks are stored
    pc,          \* idle, poll, enrich, select1, l1, select2, l2
    todo,        \* the rows a process has selected and not yet written
    bare,        \* those of them that came without segments from index_l2's select
    aborts

rowsOf == <<known, watched, transcript, silenced>>
vars == <<rowsOf, level, summaries, parts, pc, todo, bare, aborts>>

Init ==
    /\ known = {} /\ watched = {}
    /\ level = [v \in Videos |-> 0]
    /\ transcript = [v \in Videos |-> "none"]
    /\ summaries = {} /\ parts = {} /\ silenced = {}
    /\ pc = [p \in Procs |-> "idle"]
    /\ todo = [p \in Procs |-> {}] /\ bare = [p \in Procs |-> {}]
    /\ aborts = 0

Goto(p, step) == pc' = [pc EXCEPT ![p] = step]

\* What rows[:limit] may be, the order of rows being the database's choice.
Cut(rows, n) == kSubset(Min({n, Cardinality(rows)}), rows)

-----------------------------------------------------------------------------
\* The scheduler starts a cycle.
StartCycle(p) ==
    /\ p \in Workers /\ pc[p] = "idle"
    /\ Goto(p, "poll")
    /\ UNCHANGED <<rowsOf, level, summaries, parts, todo, bare, aborts>>

\* The user runs a CLI command.
StartCli(p) ==
    /\ p \in Clis /\ pc[p] = "idle"
    /\ \E step \in {"select1", "select2"} : Goto(p, step)
    /\ UNCHANGED <<rowsOf, level, summaries, parts, todo, bare, aborts>>

\* Every feed is read (one that fails is empty) and its new videos are inserted.
Poll(p) ==
    /\ pc[p] = "poll"
    /\ \E new \in SUBSET Videos : known' = known \cup new
    /\ Goto(p, "enrich")
    /\ UNCHANGED <<watched, transcript, silenced, level, summaries, parts, todo, bare, aborts>>

\* All pending videos get their metadata (or there is no API key): columns that
\* neither index reads, so what matters is that the stage stands before them.
Enrich(p) ==
    /\ pc[p] = "enrich"
    /\ Goto(p, "select1")
    /\ UNCHANGED <<rowsOf, level, summaries, parts, todo, bare, aborts>>

\* Mutant: the limit cuts the table before the pending rows are sought in it.
SelectL1LimitFirst(p) ==
    /\ pc[p] = "select1"
    /\ \E rows \in IF p \in Workers THEN Cut(known, Limit) ELSE {known} :
          todo' = [todo EXCEPT ![p] = {v \in rows : level[v] < 1}]
    /\ Goto(p, "l1")
    /\ UNCHANGED <<rowsOf, level, summaries, parts, bare, aborts>>

\* index_l1 reads the rows it will work on; the CLI's default has no limit.
SelectL1(p) ==
    /\ pc[p] = "select1"
    /\ LET pending == {v \in known : level[v] < 1}
       IN  \E rows \in IF p \in Workers THEN Cut(pending, Limit) ELSE {pending} :
              todo' = [todo EXCEPT ![p] = rows]
    /\ Goto(p, "l1")
    /\ UNCHANGED <<rowsOf, level, summaries, parts, bare, aborts>>

\* Mutant: the level is set without a look at the one stored by now.
L1BatchUnguarded(p) ==
    /\ pc[p] = "l1" /\ todo[p] # {}
    /\ \E batch \in Cut(todo[p], BatchSize) :
          /\ summaries' = summaries \cup batch
          /\ level' = [v \in Videos |-> IF v \in batch THEN 1 ELSE level[v]]
          /\ todo' = [todo EXCEPT ![p] = @ \ batch]
    /\ UNCHANGED <<rowsOf, parts, pc, bare, aborts>>

\* One batch: embed, store the chunks, raise the levels, commit.
L1Batch(p) ==
    /\ pc[p] = "l1" /\ todo[p] # {}
    /\ \E batch \in Cut(todo[p], BatchSize) :
          /\ summaries' = summaries \cup batch
          /\ level' = [v \in Videos |-> IF v \in batch /\ level[v] < 1 THEN 1 ELSE level[v]]
          /\ todo' = [todo EXCEPT ![p] = @ \ batch]
    /\ UNCHANGED <<rowsOf, parts, pc, bare, aborts>>

\* index_l1 returns: the worker goes on to index_l2.
L1Done(p) ==
    /\ pc[p] = "l1" /\ todo[p] = {}
    /\ Goto(p, IF p \in Workers THEN "select2" ELSE "idle")
    /\ UNCHANGED <<rowsOf, level, summaries, parts, todo, bare, aborts>>

\* index_l2 reads the watched videos that have a transcript, with its segments.
SelectL2(p) ==
    /\ pc[p] = "select2"
    /\ LET pending == {v \in watched : transcript[v] # "none" /\ level[v] < 2}
       IN  \E rows \in IF p \in Workers THEN Cut(pending, Limit) ELSE {pending} :
              /\ todo' = [todo EXCEPT ![p] = rows]
              /\ bare' = [bare EXCEPT ![p] = {v \in rows : transcript[v] = "no"}]
    /\ Goto(p, "l2")
    /\ UNCHANGED <<rowsOf, level, summaries, parts, aborts>>

\* Mutant: the levels of all selected rows are raised with the first batch.
L2BatchMarksAll(p) ==
    /\ pc[p] = "l2" /\ todo[p] # {}
    /\ \E batch \in Cut(todo[p], BatchSize) :
          /\ parts' = parts \cup (batch \ bare[p])
          /\ level' = [v \in Videos |-> IF v \in todo[p] THEN 2 ELSE level[v]]
          /\ todo' = [todo EXCEPT ![p] = @ \ batch]
          /\ bare' = [bare EXCEPT ![p] = @ \ batch]
    /\ UNCHANGED <<rowsOf, summaries, pc, aborts>>

\* One batch, of the segments that were selected: a transcript without segments
\* gives no chunk but counts as indexed.
L2Batch(p) ==
    /\ pc[p] = "l2" /\ todo[p] # {}
    /\ \E batch \in Cut(todo[p], BatchSize) :
          /\ parts' = parts \cup (batch \ bare[p])
          /\ level' = [v \in Videos |-> IF v \in batch THEN 2 ELSE level[v]]
          /\ todo' = [todo EXCEPT ![p] = @ \ batch]
          /\ bare' = [bare EXCEPT ![p] = @ \ batch]
    /\ UNCHANGED <<rowsOf, summaries, pc, aborts>>

L2Done(p) ==
    /\ pc[p] = "l2" /\ todo[p] = {}
    /\ Goto(p, "idle")
    /\ UNCHANGED <<rowsOf, level, summaries, parts, todo, bare, aborts>>

\* The cycle or command raises (the metadata API, the embedder, a locked
\* database) or its process dies: what is not committed is gone.
Abort(p) ==
    /\ pc[p] # "idle"
    /\ aborts < MaxAborts
    /\ aborts' = aborts + 1
    /\ Goto(p, "idle")
    /\ todo' = [todo EXCEPT ![p] = {}] /\ bare' = [bare EXCEPT ![p] = {}]
    /\ UNCHANGED <<rowsOf, level, summaries, parts>>

-----------------------------------------------------------------------------
\* set_video_state: watched, or any other state.
SetWatched(v) ==
    /\ v \in known
    /\ watched' = watched \cup {v} \/ watched' = watched \ {v}
    /\ UNCHANGED <<known, transcript, silenced, level, summaries, parts, pc, todo, bare, aborts>>

\* A briefing has fetched the transcript of a candidate (module Briefing).  Each
\* of several that overlap may have found the row 'pending', and a transcript that
\* is stored already is then replaced by the later one.
StoreTranscript(v) ==
    /\ v \in known
    /\ \E segments \in {"some", "no"} :
          /\ transcript' = [transcript EXCEPT ![v] = segments]
          /\ silenced' = IF segments = "no" THEN silenced \cup {v} ELSE silenced
    /\ UNCHANGED <<known, watched, level, summaries, parts, pc, todo, bare, aborts>>

Step(p) ==
    \/ Poll(p) \/ Enrich(p) \/ SelectL1(p) \/ L1Batch(p) \/ L1Done(p)
    \/ SelectL2(p) \/ L2Batch(p) \/ L2Done(p)

Next ==
    \/ \E p \in Procs : StartCycle(p) \/ StartCli(p) \/ Step(p) \/ Abort(p)
    \/ \E v \in Videos : SetWatched(v) \/ StoreTranscript(v)

Spec == Init /\ [][Next]_vars

\* The scheduler starts cycle after cycle and a cycle goes on unless it raises
\* or its process dies, MaxAborts times at most; nobody has to run the CLI.
FairSpec == Spec /\ \A p \in Workers : WF_vars(StartCycle(p) \/ Step(p))

-----------------------------------------------------------------------------
\* Types; a process holds rows only between its select and its last batch, and
\* rows without segments only in index_l2.
TypeOK ==
    /\ known \subseteq Videos /\ watched \subseteq known
    /\ level \in [Videos -> 0..2]
    /\ transcript \in [Videos -> {"none", "some", "no"}]
    /\ summaries \subseteq known /\ parts \subseteq known /\ silenced \subseteq known
    /\ pc \in [Procs -> {"idle", "poll", "enrich", "select1", "l1", "select2", "l2"}]
    /\ todo \in [Procs -> SUBSET known]
    /\ bare \in [Procs -> SUBSET known] /\ \A p \in Procs : bare[p] \subseteq todo[p]
    /\ \A p \in Procs : pc[p] \notin {"l1", "l2"} => todo[p] = {}
    /\ \A p \in Procs : pc[p] # "l2" => bare[p] = {}
    /\ aborts \in Nat

\* The level and the chunks agree, however two processes interleave, wherever one
\* of them dies and whatever is stored over a transcript between the select and
\* the batch: a level has its chunks, unless the video once had a transcript
\* without segments, and no chunk is stored of a video whose level misses it (it
\* would be embedded again and again).
ChunksBehindLevel ==
    \A v \in Videos :
       /\ level[v] = 1 => v \in summaries
       /\ level[v] = 2 => v \in parts \cup silenced
       /\ v \in summaries => level[v] >= 1
       /\ v \in parts => level[v] = 2

\* Processes that work from rows selected earlier, in batches, and die anywhere,
\* do together no more than the abstract index does: no level falls (the guards of
\* the UPDATE statements), no chunk vanishes, a level and its chunks come in one
\* step, and only a transcript without segments is passed over.
Promise == INSTANCE IndexPromise WITH silent <- silenced
PromiseKept == Promise!Spec

\* Every discovered video is indexed sooner or later, however small the limit, and
\* its transcript as well if the video stays marked as watched.
EverythingIndexed ==
    \A v \in Videos :
       /\ v \in known ~> level[v] >= 1
       /\ <>[](v \in watched /\ transcript[v] # "none") => <>(level[v] = 2)
=============================================================================
