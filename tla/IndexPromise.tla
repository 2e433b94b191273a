---------------------------- MODULE IndexPromise ----------------------------
(***************************************************************************)
(* What the semantic index promises the searches, without processes,       *)
(* selections and batches: chunks are added and never taken away, a level  *)
(* rises together with the chunks it stands for, and only a video that has *)
(* had a transcript without segments is indexed without a chunk.           *)
(***************************************************************************)
EXTENDS Naturals

CONSTANT Videos

VARIABLES
    level,      \* indexed_level
    summaries,  \* videos with their summary chunk
    parts,      \* videos with transcript chunks
    silent      \* videos that have had a transcript without segments

Init ==
    /\ level = [v \in Videos |-> 0]
    /\ summaries = {} /\ parts = {} /\ silent = {}

\* Some videos get their summary chunks; those that count already stay as they are.
Summarized(batch) ==
    /\ summaries' = summaries \cup batch
    /\ level' = [v \in Videos |-> IF v \in batch /\ level[v] = 0 THEN 1 ELSE level[v]]
    /\ UNCHANGED <<parts, silent>>

\* Some videos get their transcript chunks.  One that has had a transcript without
\* segments may go without: which of its transcripts is read is not promised.
Transcribed(batch) ==
    \E bare \in SUBSET (batch \cap silent) :
       /\ parts' = parts \cup (batch \ bare)
       /\ level' = [v \in Videos |-> IF v \in batch THEN 2 ELSE level[v]]
       /\ UNCHANGED <<summaries, silent>>

\* A transcript without segments is stored, over another one perhaps.
FallsSilent(v) ==
    /\ silent' = silent \cup {v}
    /\ UNCHANGED <<level, summaries, parts>>

Next ==
    \/ \E batch \in SUBSET Videos : Summarized(batch) \/ Transcribed(batch)
    \/ \E v \in Videos : FallsSilent(v)

Spec == Init /\ [][Next]_<<level, summaries, parts, silent>>
=============================================================================
