-------------------------- MODULE VideoIndex_proofs --------------------------
(***************************************************************************)
(* However many workers and CLI processes run, whatever the limits and     *)
(* wherever they die: the levels and the chunks agree, and together the    *)
(* processes implement the abstract index of IndexPromise.                 *)
(***************************************************************************)
EXTENDS VideoIndex, TLAPS

\* What two processes have to know of each other's rows: a video that any of them
\* has read, or stored, without segments is on record.
BareSilenced ==
    /\ \A p \in Procs : bare[p] \subseteq silenced
    /\ \A v \in Videos : transcript[v] = "no" => v \in silenced

IndexInv == TypeOK /\ BareSilenced /\ ChunksBehindLevel

\* A cut takes rows out of those it is given.
LEMMA CutIsPart ==
    ASSUME NEW rows, NEW n, NEW batch \in Cut(rows, n)
    PROVE  batch \subseteq rows
  BY DEF Cut, kSubset

LEMMA InitIndex == Init => IndexInv
  BY IndexAssumption DEF Init, IndexInv, TypeOK, BareSilenced, ChunksBehindLevel, Procs

-----------------------------------------------------------------------------
\* The actions that write chunks and levels.
LEMMA L1BatchKeeps ==
    ASSUME IndexInv, NEW p \in Procs, L1Batch(p)
    PROVE  IndexInv'
  <1> USE DEF rowsOf
  <1>1. PICK batch \in Cut(todo[p], BatchSize) :
          /\ summaries' = summaries \cup batch
          /\ level' = [v \in Videos |-> IF v \in batch /\ level[v] < 1 THEN 1 ELSE level[v]]
          /\ todo' = [todo EXCEPT ![p] = @ \ batch]
    BY DEF L1Batch
  <1>2. batch \subseteq todo[p]
    BY <1>1, CutIsPart
  <1>3. TypeOK'
    BY <1>1, <1>2 DEF IndexInv, TypeOK, L1Batch
  <1>4. BareSilenced'
    BY <1>1 DEF IndexInv, TypeOK, BareSilenced, L1Batch
  <1>5. ChunksBehindLevel'
    BY <1>1 DEF IndexInv, TypeOK, ChunksBehindLevel, L1Batch
  <1> QED  BY <1>3, <1>4, <1>5 DEF IndexInv

LEMMA L2BatchKeeps ==
    ASSUME IndexInv, NEW p \in Procs, L2Batch(p)
    PROVE  IndexInv'
  <1> USE DEF rowsOf
  <1>1. PICK batch \in Cut(todo[p], BatchSize) :
          /\ parts' = parts \cup (batch \ bare[p])
          /\ level' = [v \in Videos |-> IF v \in batch THEN 2 ELSE level[v]]
          /\ todo' = [todo EXCEPT ![p] = @ \ batch]
          /\ bare' = [bare EXCEPT ![p] = @ \ batch]
    BY DEF L2Batch
  <1>2. batch \subseteq todo[p] /\ pc[p] = "l2"
    BY <1>1, CutIsPart DEF L2Batch
  <1>3. batch \subseteq known /\ known \subseteq Videos /\ bare[p] \subseteq silenced
    BY <1>2 DEF IndexInv, TypeOK, BareSilenced
  <1>4. TypeOK'
    BY <1>1, <1>2, <1>3 DEF IndexInv, TypeOK, L2Batch
  <1>5. BareSilenced'
    BY <1>1 DEF IndexInv, TypeOK, BareSilenced, L2Batch
  <1>6. ChunksBehindLevel'
    BY <1>1, <1>3 DEF IndexInv, TypeOK, ChunksBehindLevel, L2Batch
  <1> QED  BY <1>4, <1>5, <1>6 DEF IndexInv

\* Selecting rows: what index_l2 finds without segments is on record.
LEMMA SelectKeeps ==
    ASSUME IndexInv, NEW p \in Procs, SelectL1(p) \/ SelectL2(p)
    PROVE  IndexInv'
  <1> USE DEF rowsOf
  <1>1. CASE SelectL1(p)
    <2>1. PICK rows : rows \subseteq known /\ todo' = [todo EXCEPT ![p] = rows]
      <3> DEFINE pending == {v \in known : level[v] < 1}
      <3>1. PICK rows \in IF p \in Workers THEN Cut(pending, Limit) ELSE {pending} :
              todo' = [todo EXCEPT ![p] = rows]
        BY <1>1 DEF SelectL1
      <3>2. rows \subseteq pending
        <4> HIDE DEF pending
        <4> QED  BY <3>1, CutIsPart
      <3> QED  BY <3>1, <3>2
    <2>2. TypeOK'
      BY <1>1, <2>1 DEF IndexInv, TypeOK, SelectL1, Goto
    <2>3. BareSilenced' /\ ChunksBehindLevel'
      BY <1>1, <2>1 DEF IndexInv, TypeOK, BareSilenced, ChunksBehindLevel, SelectL1, Goto
    <2> QED  BY <2>2, <2>3 DEF IndexInv
  <1>2. CASE SelectL2(p)
    <2> DEFINE pending == {v \in watched : transcript[v] # "none" /\ level[v] < 2}
    <2>1. PICK rows : /\ rows \subseteq pending /\ todo' = [todo EXCEPT ![p] = rows]
                      /\ bare' = [bare EXCEPT ![p] = {v \in rows : transcript[v] = "no"}]
      <3>1. PICK rows \in IF p \in Workers THEN Cut(pending, Limit) ELSE {pending} :
              /\ todo' = [todo EXCEPT ![p] = rows]
              /\ bare' = [bare EXCEPT ![p] = {v \in rows : transcript[v] = "no"}]
        BY <1>2 DEF SelectL2
      <3>2. rows \subseteq pending
        <4> HIDE DEF pending
        <4> QED  BY <3>1, CutIsPart
      <3> QED  BY <3>1, <3>2
    <2>2. TypeOK'
      BY <1>2, <2>1 DEF IndexInv, TypeOK, SelectL2, Goto
    <2>3. BareSilenced' /\ ChunksBehindLevel'
      BY <1>2, <2>1 DEF IndexInv, TypeOK, BareSilenced, ChunksBehindLevel, SelectL2, Goto
    <2> QED  BY <2>2, <2>3 DEF IndexInv
  <1> QED  BY <1>1, <1>2

\* Stages that only move on, and the ones that change rows of videos.
LEMMA RestKeeps ==
    ASSUME IndexInv, NEW p \in Procs,
           StartCycle(p) \/ StartCli(p) \/ Poll(p) \/ Enrich(p) \/ L1Done(p) \/ L2Done(p) \/ Abort(p)
    PROVE  IndexInv'
  <1> USE DEF IndexInv, TypeOK, BareSilenced, ChunksBehindLevel, rowsOf, Goto
  <1>1. CASE StartCycle(p)
    BY <1>1 DEF StartCycle
  <1>2. CASE StartCli(p)
    BY <1>2 DEF StartCli
  <1>3. CASE Poll(p)
    BY <1>3 DEF Poll
  <1>4. CASE Enrich(p)
    BY <1>4 DEF Enrich
  <1>5. CASE L1Done(p)
    BY <1>5 DEF L1Done
  <1>6. CASE L2Done(p)
    BY <1>6 DEF L2Done
  <1>7. CASE Abort(p)
    BY <1>7, IndexAssumption DEF Abort
  <1> QED  BY <1>1, <1>2, <1>3, <1>4, <1>5, <1>6, <1>7

LEMMA UserKeeps ==
    ASSUME IndexInv, NEW v \in Videos, SetWatched(v) \/ StoreTranscript(v)
    PROVE  IndexInv'
  <1> USE DEF IndexInv, TypeOK, BareSilenced, ChunksBehindLevel
  <1>1. CASE SetWatched(v)
    BY <1>1 DEF SetWatched
  <1>2. CASE StoreTranscript(v)
    BY <1>2 DEF StoreTranscript
  <1> QED  BY <1>1, <1>2

LEMMA NextIndex == IndexInv /\ [Next]_vars => IndexInv'
  <1> SUFFICES ASSUME IndexInv, [Next]_vars PROVE IndexInv'
    OBVIOUS
  <1>1. ASSUME NEW p \in Procs, StartCycle(p) \/ StartCli(p) \/ Step(p) \/ Abort(p)
        PROVE  IndexInv'
    BY <1>1, L1BatchKeeps, L2BatchKeeps, SelectKeeps, RestKeeps DEF Step
  <1>2. ASSUME NEW v \in Videos, SetWatched(v) \/ StoreTranscript(v) PROVE IndexInv'
    BY <1>2, UserKeeps
  <1>3. CASE UNCHANGED vars
    BY <1>3 DEF IndexInv, TypeOK, BareSilenced, ChunksBehindLevel, vars, rowsOf
  <1> QED  BY <1>1, <1>2, <1>3 DEF Next

LEMMA IndexInvHolds == Spec => []IndexInv
  BY InitIndex, NextIndex, PTL DEF Spec

\* The types of the index, and of rows that a process keeps for later.
THEOREM IndexTypes == Spec => []TypeOK
  <1>1. IndexInv => TypeOK
    BY DEF IndexInv
  <1> QED  BY <1>1, IndexInvHolds, PTL

\* Whichever processes index at the same time, wherever they die and whatever is
\* stored over a transcript they have read, the levels and the chunks agree:
\* index_l1 and index_l2 commit both together, and a level without chunks is that
\* of a video that had a transcript without segments.
THEOREM LevelsAreBacked == Spec => []ChunksBehindLevel
  <1>1. IndexInv => ChunksBehindLevel
    BY DEF IndexInv
  <1> QED  BY <1>1, IndexInvHolds, PTL

-----------------------------------------------------------------------------
\* The refinement: which step of IndexPromise each action takes.
promised == <<level, summaries, parts, silenced>>

LEMMA L1Promised ==
    ASSUME IndexInv, NEW p \in Procs, L1Batch(p)
    PROVE  Promise!Next
  <1>1. PICK batch \in Cut(todo[p], BatchSize) :
          /\ summaries' = summaries \cup batch
          /\ level' = [v \in Videos |-> IF v \in batch /\ level[v] < 1 THEN 1 ELSE level[v]]
    BY DEF L1Batch
  <1>2. batch \subseteq todo[p] /\ todo[p] \subseteq Videos
    BY <1>1, CutIsPart DEF IndexInv, TypeOK
  <1>3. \A v \in Videos : level[v] < 1 <=> level[v] = 0
    BY DEF IndexInv, TypeOK
  <1>4. Promise!Summarized(batch)
    BY <1>1, <1>3 DEF Promise!Summarized, L1Batch, rowsOf
  <1> QED  BY <1>2, <1>4 DEF Promise!Next

LEMMA L2Promised ==
    ASSUME IndexInv, NEW p \in Procs, L2Batch(p)
    PROVE  Promise!Next
  <1>1. PICK batch \in Cut(todo[p], BatchSize) :
          /\ parts' = parts \cup (batch \ bare[p])
          /\ level' = [v \in Videos |-> IF v \in batch THEN 2 ELSE level[v]]
    BY DEF L2Batch
  <1>2. batch \subseteq todo[p] /\ todo[p] \subseteq Videos
    BY <1>1, CutIsPart DEF IndexInv, TypeOK
  <1>3. batch \cap bare[p] \in SUBSET (batch \cap silenced)
    BY DEF IndexInv, BareSilenced
  <1>4. batch \ bare[p] = batch \ (batch \cap bare[p])
    OBVIOUS
  <1>5. UNCHANGED <<summaries, silenced>>
    BY DEF L2Batch, rowsOf
  <1>6. Promise!Transcribed(batch)
    BY <1>1, <1>3, <1>4, <1>5 DEF Promise!Transcribed
  <1> QED  BY <1>2, <1>6 DEF Promise!Next

\* A transcript without segments is on record; one with segments changes nothing
\* of the abstract index, whatever it replaces.
LEMMA TranscriptPromised ==
    ASSUME NEW v \in Videos, StoreTranscript(v)
    PROVE  Promise!Next \/ UNCHANGED promised
  <1>1. UNCHANGED <<level, summaries, parts>>
    BY DEF StoreTranscript
  <1>2. silenced' = silenced \cup {v} \/ silenced' = silenced
    BY DEF StoreTranscript
  <1>3. CASE silenced' = silenced \cup {v}
    BY <1>1, <1>3 DEF Promise!FallsSilent, Promise!Next
  <1> QED  BY <1>1, <1>2, <1>3 DEF promised

LEMMA StepPromised ==
    IndexInv /\ [Next]_vars =>
       [Promise!Next]_<<level, summaries, parts, silenced>>
  <1> SUFFICES ASSUME IndexInv, [Next]_vars PROVE Promise!Next \/ UNCHANGED promised
    BY DEF promised
  <1> USE DEF promised, rowsOf
  <1>1. ASSUME NEW p \in Procs, StartCycle(p) \/ StartCli(p) \/ Step(p) \/ Abort(p)
        PROVE  Promise!Next \/ UNCHANGED promised
    <2>1. CASE StartCycle(p) \/ StartCli(p) \/ Abort(p)
      BY <2>1 DEF StartCycle, StartCli, Abort
    <2>2. CASE Poll(p) \/ Enrich(p) \/ SelectL1(p) \/ SelectL2(p) \/ L1Done(p) \/ L2Done(p)
      BY <2>2 DEF Poll, Enrich, SelectL1, SelectL2, L1Done, L2Done
    <2>3. CASE L1Batch(p) \/ L2Batch(p)
      BY <2>3, L1Promised, L2Promised
    <2> QED  BY <1>1, <2>1, <2>2, <2>3 DEF Step
  <1>2. ASSUME NEW v \in Videos, SetWatched(v) \/ StoreTranscript(v)
        PROVE  Promise!Next \/ UNCHANGED promised
    <2>1. CASE SetWatched(v)
      BY <2>1 DEF SetWatched
    <2>2. CASE StoreTranscript(v)
      BY <2>2, TranscriptPromised
    <2> QED  BY <1>2, <2>1, <2>2
  <1>3. CASE UNCHANGED vars
    BY <1>3 DEF vars
  <1> QED  BY <1>1, <1>2, <1>3 DEF Next

\* Workers and CLI processes, however they overlap and die, implement the abstract
\* index: levels rise with their chunks in one step and nothing is taken back.
THEOREM KeepsPromise == Spec => PromiseKept
  <1>1. Init => Promise!Init
    BY DEF Init, Promise!Init
  <1> QED  BY <1>1, IndexInvHolds, StepPromised, PTL DEF Spec, PromiseKept, Promise!Spec
=============================================================================
