--------------------------- MODULE Memory_proofs ---------------------------
(***************************************************************************)
(* However many connections are opened, used and broken off: the keyword   *)
(* search finds every video, except where init_db has dropped what another *)
(* connection had built, and none more often than connections were open at *)
(* the same time; and use_count counts.                                    *)
(***************************************************************************)
EXTENDS Memory, FiniteSetTheorems, TLAPS

\* Where the schema has been built, and no working table been dropped since.
Whole ==
    /\ behind = {}
    /\ \A c \in Conns :
          /\ pc[c] = "createTable" => table # "broken"
          /\ pc[c] \in {"createAi", "createAu", "count", "backfill", "open"} => table = "good"
          /\ pc[c] = "createAu" => "ai" \in triggers
          /\ pc[c] \in {"count", "backfill", "open"} => triggers = Triggers
    /\ (\E v \in Videos : entries[v] > 0) => \A v \in videos : entries[v] > 0
    /\ (\E c \in Conns : pc[c] = "open") => \A v \in videos : entries[v] > 0

StoreInv == StoreTypeOK /\ triggers \subseteq Triggers /\ (~dropped => Whole)

-----------------------------------------------------------------------------
LEMMA InitStore == StoreInit => StoreInv
  <1> SUFFICES ASSUME StoreInit PROVE StoreInv
    OBVIOUS
  <1>1. /\ behind = {} /\ ~dropped /\ peak = 0 /\ triggers \subseteq Triggers /\ videos \subseteq Videos
        /\ pc = [c \in Conns |-> "closed"] /\ table \in {"none", "broken", "good"}
        /\ entries = [v \in Videos |-> IF table = "good" /\ v \in videos THEN 1 ELSE 0]
        /\ dropped \in BOOLEAN
    BY StoreAssumption DEF StoreInit, Triggers
  <1>2. StoreTypeOK
    BY <1>1 DEF StoreTypeOK, Steps
  <1>4. Whole
    BY <1>1 DEF Whole
  <1> QED  BY <1>1, <1>2, <1>4 DEF StoreInv

\* Dropping leaves whole what is whole: what is dropped was not in use.
LEMMA HealKeeps ==
    ASSUME StoreInv, NEW c \in Conns, Heal(c)
    PROVE  StoreInv'
  <1> USE DEF StoreInv, StoreTypeOK, Steps, Triggers
  <1>1. ASSUME NEW t \in Triggers, NEW next \in {"dropAu", "dropTable"},
               pc[c] \in {"dropAi", "dropAu"}, DropTrigger(c, t, next)
        PROVE  StoreInv'
    <2>1. StoreTypeOK' /\ triggers' \subseteq Triggers
      BY <1>1 DEF DropTrigger, Goto
    <2>2. ~dropped' => Whole'
      BY <1>1 DEF DropTrigger, Goto, Whole
    <2> QED  BY <2>1, <2>2
  <1>2. CASE pc[c] = "dropTable" /\ DropTable(c)
    <2>1. StoreTypeOK' /\ triggers' \subseteq Triggers
      BY <1>2 DEF DropTable, Goto
    <2>2. ~dropped' => Whole'
      BY <1>2 DEF DropTable, Goto, Whole
    <2> QED  BY <2>1, <2>2
  <1> QED  BY <1>1, <1>2 DEF Heal

LEMMA SchemaKeeps ==
    ASSUME StoreInv, NEW c \in Conns, Schema(c)
    PROVE  StoreInv'
  <1> USE DEF StoreInv, StoreTypeOK, Steps, Triggers
  <1>1. CASE pc[c] = "createTable" /\ CreateTable(c)
    <2>1. StoreTypeOK' /\ triggers' \subseteq Triggers
      BY <1>1 DEF CreateTable, Goto
    <2>2. ~dropped' => Whole'
      BY <1>1 DEF CreateTable, Goto, Whole
    <2> QED  BY <2>1, <2>2
  <1>2. CASE pc[c] = "createAi" /\ CreateTrigger(c, "ai", "createAu")
    <2>1. StoreTypeOK' /\ triggers' \subseteq Triggers
      BY <1>2 DEF CreateTrigger, Goto
    <2>2. ~dropped' => Whole'
      BY <1>2 DEF CreateTrigger, Goto, Whole
    <2> QED  BY <2>1, <2>2
  <1>3. CASE pc[c] = "createAu" /\ CreateTrigger(c, "au", "count")
    <2>1. StoreTypeOK' /\ triggers' \subseteq Triggers
      BY <1>3 DEF CreateTrigger, Goto
    <2>2. ~dropped' => Whole'
      BY <1>3 DEF CreateTrigger, Goto, Whole
    <2> QED  BY <2>1, <2>2
  <1> QED  BY <1>1, <1>2, <1>3 DEF Schema

\* Filling: of a table in which every video has an entry, or none.
LEMMA FillKeeps ==
    ASSUME StoreInv, NEW c \in Conns, Check(c) \/ Count(c) \/ Backfill(c) \/ Close(c)
    PROVE  StoreInv'
  <1> USE DEF StoreInv, StoreTypeOK, Steps, Triggers
  <1>1. CASE Check(c)
    <2>1. peak' \in Nat
      <3>1. Cardinality({d \in Conns : pc[d] # "closed"}) \in Nat
        BY StoreAssumption, FS_Subset, FS_CardinalityType
      <3> QED  BY <1>1, <3>1 DEF Check
    <2> QED  BY <1>1, <2>1 DEF Check, Goto, Whole
  <1>2. CASE Count(c)
    BY <1>2 DEF Count, Goto, Whole
  <1>3. CASE Backfill(c)
    <2>1. StoreTypeOK' /\ triggers' \subseteq Triggers
      BY <1>3 DEF Backfill, Goto
    <2>3. ~dropped' => Whole'
      BY <1>3 DEF Backfill, Goto, Whole
    <2> QED  BY <2>1, <2>3
  <1>4. CASE Close(c)
    BY <1>4 DEF Close, Goto, Whole
  <1> QED  BY <1>1, <1>2, <1>3, <1>4

\* Writing: with both triggers in place every row keeps its one entry.
LEMMA WorkKeeps ==
    ASSUME StoreInv, NEW c \in Conns, NEW v \in Videos, Insert(c, v) \/ Update(c, v)
    PROVE  StoreInv'
  <1> USE DEF StoreInv, StoreTypeOK, Steps, Triggers
  <1>1. CASE Insert(c, v)
    <2>1. StoreTypeOK' /\ triggers' \subseteq Triggers
      BY <1>1 DEF Insert
    <2>3. ~dropped' => Whole'
      BY <1>1 DEF Insert, Whole
    <2> QED  BY <2>1, <2>3
  <1>2. CASE Update(c, v)
    <2>1. StoreTypeOK' /\ triggers' \subseteq Triggers
      BY <1>2 DEF Update
    <2>3. ~dropped' => Whole'
      BY <1>2 DEF Update, Whole
    <2> QED  BY <2>1, <2>3
  <1> QED  BY <1>1, <1>2

LEMMA StoreHolds == StoreSpec => []StoreInv
  <1>1. StoreInv /\ [StoreNext]_storeVars => StoreInv'
    <2> SUFFICES ASSUME StoreInv, [StoreNext]_storeVars PROVE StoreInv'
      OBVIOUS
    <2>1. CASE UNCHANGED storeVars
      BY <2>1 DEF storeVars, StoreInv, StoreTypeOK, Whole
    <2>2. CASE StoreNext
      BY <2>2, HealKeeps, SchemaKeeps, FillKeeps, WorkKeeps DEF StoreNext, StoreStep, Work
    <2> QED  BY <2>1, <2>2
  <1> QED  BY InitStore, <1>1, PTL DEF StoreSpec

-----------------------------------------------------------------------------
(* How often a video is found *)

Live == {d \in Conns : pc[d] # "closed"}
Filling == {d \in Conns : pc[d] = "backfill"}

\* What a video's entries can still become: one more for each connection that has
\* counted and not yet filled, and those are open together with whoever has entered
\* the video meanwhile.
Ceiling == IF peak = 0 THEN 1 ELSE peak

FillInv ==
    /\ Cardinality(Live) <= peak
    /\ \A v \in Videos : entries[v] + Cardinality(Filling) <= Ceiling

LEMMA ConnSets ==
    /\ IsFiniteSet(Live) /\ Cardinality(Live) \in Nat
    /\ IsFiniteSet(Filling) /\ Cardinality(Filling) \in Nat
    /\ IsFiniteSet(Live') /\ Cardinality(Live') \in Nat
    /\ IsFiniteSet(Filling') /\ Cardinality(Filling') \in Nat
    /\ Cardinality(Filling) <= Cardinality(Live)
  <1>1. Live \subseteq Conns /\ Filling \subseteq Conns /\ Live' \subseteq Conns /\ Filling' \subseteq Conns
    BY DEF Live, Filling
  <1>2. Filling \subseteq Live
    BY DEF Live, Filling
  <1> QED  BY <1>1, <1>2, StoreAssumption, FS_Subset, FS_CardinalityType

\* A connection that is open and does not fill is one of the live ones besides.
LEMMA RoomForOne ==
    ASSUME NEW c \in Conns, pc[c] \notin {"closed", "backfill"}
    PROVE  Cardinality(Filling) + 1 <= Cardinality(Live)
  <1>1. c \in Live /\ c \notin Filling /\ Filling \cup {c} \subseteq Live
    BY DEF Live, Filling
  <1>2. Cardinality(Filling \cup {c}) = Cardinality(Filling) + 1
    BY <1>1, ConnSets, FS_AddElement
  <1>3. Cardinality(Filling \cup {c}) <= Cardinality(Live)
    BY <1>1, ConnSets, FS_Subset
  <1> QED  BY <1>2, <1>3

\* What a step of a connection does to both sets.
LEMMA SetsStep ==
    ASSUME NEW c \in Conns, NEW step \in Steps, pc \in [Conns -> Steps], Goto(c, step)
    PROVE  /\ pc[c] # "closed" => Cardinality(Live') <= Cardinality(Live)
           /\ pc[c] = "closed" /\ step # "closed" => Cardinality(Live') = Cardinality(Live) + 1
           /\ step # "backfill" => Cardinality(Filling') <= Cardinality(Filling)
           /\ pc[c] = "backfill" /\ step # "backfill" => Cardinality(Filling') = Cardinality(Filling) - 1
           /\ pc[c] # "backfill" => Cardinality(Filling') <= Cardinality(Filling) + 1
  <1>1. pc'[c] = step /\ \A d \in Conns \ {c} : pc'[d] = pc[d]
    BY DEF Goto
  <1>2. pc[c] # "closed" => Live' \subseteq Live
    BY <1>1 DEF Live
  <1>3. pc[c] = "closed" /\ step # "closed" => Live' = Live \cup {c} /\ c \notin Live
    BY <1>1 DEF Live
  <1>4. step # "backfill" => Filling' \subseteq Filling
    BY <1>1 DEF Filling
  <1>5. pc[c] = "backfill" /\ step # "backfill" => Filling' = Filling \ {c} /\ c \in Filling
    BY <1>1 DEF Filling
  <1>6. pc[c] # "backfill" => Filling' \subseteq Filling \cup {c} /\ c \notin Filling
    BY <1>1 DEF Filling
  <1>7. c \notin Filling => Cardinality(Filling \cup {c}) = Cardinality(Filling) + 1 /\ IsFiniteSet(Filling \cup {c})
    BY ConnSets, FS_AddElement
  <1>8. pc[c] # "backfill" => Cardinality(Filling') <= Cardinality(Filling) + 1
    BY <1>6, <1>7, FS_Subset
  <1> QED  BY <1>2, <1>3, <1>4, <1>5, <1>8, ConnSets, FS_Subset, FS_AddElement, FS_RemoveElement

LEMMA InitFill == StoreInit => FillInv
  <1> SUFFICES ASSUME StoreInit PROVE FillInv
    OBVIOUS
  <1>1. Live = {} /\ Filling = {} /\ peak = 0
    BY DEF StoreInit, Live, Filling
  <1>2. Cardinality({}) = 0
    BY FS_EmptySet
  <1>3. \A v \in Videos : entries[v] \in {0, 1}
    BY DEF StoreInit
  <1> QED  BY <1>1, <1>2, <1>3 DEF FillInv, Ceiling

\* Only a connection that finds no entry at all starts to fill, and only filling
\* adds an entry to another.
LEMMA FillStays == StoreInv /\ FillInv /\ [StoreNext]_storeVars => FillInv'
  <1> SUFFICES ASSUME StoreInv, FillInv, [StoreNext]_storeVars PROVE FillInv'
    OBVIOUS
  <1>1. pc \in [Conns -> Steps] /\ peak \in Nat /\ \A v \in Videos : entries[v] \in Nat
    BY DEF StoreInv, StoreTypeOK
  <1>2. ASSUME NEW c \in Conns, Check(c) PROVE FillInv'
    <2>1. PICK step \in {"createTable", "dropAi"} : Goto(c, step)
      BY <1>2 DEF Check
    <2>2. pc[c] = "closed" /\ UNCHANGED entries
      BY <1>2 DEF Check
    <2>3. LET busy == Cardinality(Live) + 1 IN peak' = IF busy > peak THEN busy ELSE peak
      BY <1>2 DEF Check, Live
    <2>4. Cardinality(Live') = Cardinality(Live) + 1 /\ Cardinality(Filling') <= Cardinality(Filling)
      BY <1>1, <2>1, <2>2, SetsStep DEF Steps
    <2>5. peak' \in Nat /\ peak <= peak' /\ 0 < peak' /\ Cardinality(Live') <= peak'
      BY <1>1, <2>3, <2>4, ConnSets
    <2>7. Ceiling' = peak'
      BY <2>5 DEF Ceiling
    <2> SUFFICES ASSUME NEW v \in Videos PROVE entries'[v] + Cardinality(Filling') <= peak'
      BY <2>5, <2>7, Zenon DEF FillInv
    <2>6. entries[v] + Cardinality(Filling) <= Ceiling
      BY DEF FillInv
    <2> QED  BY <1>1, <2>2, <2>4, <2>5, <2>6, ConnSets DEF Ceiling
  <1>3. ASSUME NEW c \in Conns, NEW step \in Steps \ {"backfill"}, Goto(c, step), pc[c] # "closed", peak' = peak,
               \A v \in Videos : entries'[v] = entries[v] \/ entries'[v] = 0
        PROVE  FillInv'
    <2>1. Cardinality(Live') <= Cardinality(Live) /\ Cardinality(Filling') <= Cardinality(Filling)
      BY <1>1, <1>3, SetsStep
    <2> SUFFICES ASSUME NEW v \in Videos PROVE entries'[v] + Cardinality(Filling') <= Ceiling'
      BY <1>1, <1>3, <2>1, ConnSets DEF FillInv
    <2>2. entries[v] + Cardinality(Filling) <= Ceiling /\ Ceiling' = Ceiling
      BY <1>3 DEF FillInv, Ceiling
    <2> QED  BY <1>1, <1>3, <2>1, <2>2, ConnSets DEF Ceiling
  <1>4. ASSUME NEW c \in Conns, Heal(c) \/ Schema(c) \/ Close(c) PROVE FillInv'
    <2>1. \E step \in Steps \ {"backfill"} : Goto(c, step)
      BY <1>4 DEF Heal, DropTrigger, DropTable, Schema, CreateTable, CreateTrigger, Close, Steps
    <2>2. pc[c] # "closed" /\ peak' = peak
      BY <1>4 DEF Heal, DropTrigger, DropTable, Schema, CreateTable, CreateTrigger, Close
    <2>3. \A v \in Videos : entries'[v] = entries[v] \/ entries'[v] = 0
      BY <1>4 DEF Heal, DropTrigger, DropTable, Schema, CreateTable, CreateTrigger, Close
    <2> QED  BY <1>3, <2>1, <2>2, <2>3
  <1>5. ASSUME NEW c \in Conns, Count(c) PROVE FillInv'
    <2>1. pc[c] = "count" /\ UNCHANGED <<entries, peak>>
      BY <1>5 DEF Count
    <2>2. CASE \E v \in Videos : entries[v] > 0
      <3>1. Goto(c, "open")
        BY <1>5, <2>2 DEF Count
      <3> QED  BY <1>3, <2>1, <3>1 DEF Steps
    <2>3. CASE ~\E v \in Videos : entries[v] > 0
      <3>1. Goto(c, "backfill")
        BY <1>5, <2>3 DEF Count
      <3>2. \A v \in Videos : entries[v] = 0
        BY <1>1, <2>3
      <3>3. Cardinality(Filling') <= Cardinality(Filling) + 1 /\ Cardinality(Live') <= Cardinality(Live)
        BY <1>1, <2>1, <3>1, SetsStep DEF Steps
      <3>4. Cardinality(Filling) + 1 <= Cardinality(Live)
        BY <2>1, RoomForOne
      <3>5. Cardinality(Live') <= peak' /\ Cardinality(Filling') <= peak /\ 0 < peak
        BY <1>1, <2>1, <3>3, <3>4, ConnSets DEF FillInv
      <3>6. \A v \in Videos : entries'[v] + Cardinality(Filling') <= Ceiling'
        BY <1>1, <2>1, <3>2, <3>5, ConnSets DEF Ceiling
      <3> QED  BY <3>5, <3>6, Zenon DEF FillInv
    <2> QED  BY <2>2, <2>3
  <1>6. ASSUME NEW c \in Conns, Backfill(c) PROVE FillInv'
    <2>1. pc[c] = "backfill" /\ Goto(c, "open") /\ peak' = peak
      BY <1>6 DEF Backfill
    <2>2. Cardinality(Filling') = Cardinality(Filling) - 1 /\ Cardinality(Live') <= Cardinality(Live)
      BY <1>1, <2>1, SetsStep DEF Steps
    <2> SUFFICES ASSUME NEW v \in Videos PROVE entries'[v] + Cardinality(Filling') <= Ceiling'
      BY <1>1, <2>1, <2>2, ConnSets DEF FillInv
    <2>3. entries'[v] = entries[v] \/ entries'[v] = entries[v] + 1
      BY <1>6 DEF Backfill
    <2>4. entries[v] + Cardinality(Filling) <= Ceiling /\ Ceiling' = Ceiling /\ Ceiling \in Nat
      BY <1>1, <2>1 DEF FillInv, Ceiling
    <2>5. entries[v] \in Nat
      BY <1>1
    <2>6. Cardinality(Filling) \in Nat /\ Cardinality(Filling') = Cardinality(Filling) - 1
      BY <2>2, ConnSets
    <2> QED  BY <2>3, <2>4, <2>5, <2>6
  <1>7. ASSUME NEW c \in Conns, NEW u \in Videos, Insert(c, u) \/ Update(c, u) PROVE FillInv'
    <2>1. pc[c] = "open" /\ UNCHANGED <<pc, peak>>
      BY <1>7 DEF Insert, Update
    <2>2. UNCHANGED <<Live, Filling>> /\ Ceiling' = Ceiling
      BY <2>1 DEF Live, Filling, Ceiling
    <2>3. Cardinality(Filling) + 1 <= peak
      BY <1>1, <2>1, RoomForOne, ConnSets DEF FillInv
    <2>4. entries[u] \in Nat /\ (Insert(c, u) => entries[u] = 0)
      BY <1>1 DEF Insert, StoreInv, StoreTypeOK
    <2>5. \A v \in Videos : entries'[v] = entries[v] \/ entries'[v] = 1
      <3>1. entries \in [Videos -> Nat]
        BY DEF StoreInv, StoreTypeOK
      <3> QED  BY <1>7, <2>4, <3>1 DEF Insert, Update
    <2> SUFFICES ASSUME NEW v \in Videos PROVE entries'[v] + Cardinality(Filling) <= Ceiling
      BY <2>1, <2>2, Zenon DEF FillInv
    <2>6. entries[v] + Cardinality(Filling) <= Ceiling
      BY DEF FillInv
    <2> QED  BY <1>1, <2>3, <2>5, <2>6, ConnSets DEF Ceiling
  <1>8. CASE UNCHANGED storeVars
    BY <1>8 DEF storeVars, FillInv, Ceiling, Live, Filling
  <1> QED  BY <1>2, <1>4, <1>5, <1>6, <1>7, <1>8 DEF StoreNext, StoreStep, Work

LEMMA FillBounds == StoreInv /\ FillInv => FoundOnce
  <1> SUFFICES ASSUME StoreInv, FillInv, NEW v \in Videos PROVE entries[v] <= 1 \/ entries[v] <= peak
    BY DEF FoundOnce
  <1>1. peak \in Nat /\ entries[v] \in Nat /\ entries[v] + Cardinality(Filling) <= Ceiling
    BY DEF StoreInv, StoreTypeOK, FillInv
  <1> QED  BY <1>1, ConnSets DEF Ceiling

-----------------------------------------------------------------------------
\* The memory tools do to the database what every connection may do to it.
LEMMA ToolsKeepStore == Spec => StoreSpec
  <1>1. Init => StoreInit
    BY DEF Init
  <1>2. [Next]_vars => [StoreNext]_storeVars
    <2>1. ASSUME NEW c \in Conns, Tool(c) PROVE UNCHANGED storeVars
      BY <2>1 DEF Tool, Remember, Forget, RecallReads, RecallCounts
    <2>2. ASSUME NEW c \in Conns, Leave(c) PROVE StoreNext
      BY <2>2 DEF Leave, StoreNext
    <2>3. ASSUME NEW c \in Conns, StoreStep(c) PROVE StoreNext
      BY <2>3 DEF StoreNext
    <2> QED  BY <2>1, <2>2, <2>3 DEF Next, vars
  <1> QED  BY <1>1, <1>2, PTL DEF Spec, StoreSpec

\* Types of the database, for any number of connections and videos.
THEOREM StoreTyped == Spec => []StoreTypeOK
  <1>1. StoreInv => StoreTypeOK
    BY DEF StoreInv
  <1> QED  BY ToolsKeepStore, StoreHolds, <1>1, PTL

\* Unless a stale check has dropped a table that another connection had built
\* (_heal_stale_fts_schema), whoever works finds every video as it is now.
THEOREM EveryVideoIsFound == Spec => []EveryVideoFound
  <1>1. StoreInv => EveryVideoFound
    BY DEF StoreInv, Whole, EveryVideoFound
  <1> QED  BY ToolsKeepStore, StoreHolds, <1>1, PTL

\* A video is found once, or not more often than connections have been open at the
\* same time (the count of _backfill_fts_if_needed): repeated and broken off init_dbs
\* do not add up.
THEOREM NoneFoundTwice == Spec => []FoundOnce
  <1>1. StoreSpec => [](StoreInv /\ FillInv)
    BY StoreHolds, InitFill, FillStays, PTL DEF StoreSpec
  <1> QED  BY ToolsKeepStore, <1>1, FillBounds, PTL

-----------------------------------------------------------------------------
\* What the count needs to know: a memory that is not there yet has not been used.
MemInv ==
    /\ MemoryTypeOK
    /\ \A m \in Ids : m > given => uses[m] = 0 /\ returned[m] = 0
    /\ UsesCounted

LEMMA MemoryHolds == Spec => []MemInv
  <1>1. Init => MemInv
    BY MemoryAssumption DEF Init, MemInv, MemoryTypeOK, UsesCounted, Ids, None
  <1>2. MemInv /\ [Next]_vars => MemInv'
    <2> SUFFICES ASSUME MemInv, [Next]_vars PROVE MemInv'
      OBVIOUS
    <2> USE MemoryAssumption DEF MemInv, MemoryTypeOK, UsesCounted, Ids
    <2>1. ASSUME NEW c \in Conns, Remember(c) PROVE MemInv'
      <3>1. /\ given < MaxMemories /\ given' = given + 1 /\ memories' = memories \cup {given + 1}
            /\ UNCHANGED <<uses, items, recalls, returned>>
        BY <2>1 DEF Remember
      <3>2. given' \in 0..MaxMemories /\ 1..given \subseteq 1..given' /\ given + 1 \in 1..given'
        BY <3>1
      <3>3. MemoryTypeOK'
        BY <3>1, <3>2
      <3>4. \A n \in Ids : n > given' => uses'[n] = 0 /\ returned'[n] = 0
        BY <3>1
      <3>5. UsesCounted'
        BY <3>1
      <3> QED  BY <3>3, <3>4, <3>5
    <2>2. ASSUME NEW c \in Conns, NEW m \in Ids, Forget(c, m) PROVE MemInv'
      BY <2>2 DEF Forget
    <2>3. ASSUME NEW c \in Conns, RecallReads(c) PROVE MemInv'
      <3>1. PICK found \in SUBSET memories : items' = [items EXCEPT ![c] = [m \in found |-> uses[m]]]
        BY <2>3 DEF RecallReads
      <3>2. DOMAIN items' = Conns /\ \A d \in Conns : DOMAIN items'[d] \subseteq 1..given
        BY <3>1
      <3> QED  BY <2>3, <3>2 DEF RecallReads
    <2>4. ASSUME NEW c \in Conns, RecallCounts(c) PROVE MemInv'
      <3>1. DOMAIN None = {}
        BY DEF None
      <3>2. /\ \A m \in Ids : uses'[m] = IF m \in DOMAIN items[c] \cap memories THEN uses[m] + 1 ELSE uses[m]
            /\ \A m \in Ids : returned'[m] = IF m \in DOMAIN items[c] THEN returned[m] + 1 ELSE returned[m]
            /\ uses' \in [Ids -> Nat] /\ returned' \in [Ids -> Nat]
        BY <2>4 DEF RecallCounts
      <3>3. ASSUME NEW m \in memories PROVE uses'[m] = returned'[m]
        <4>1. m \in Ids /\ uses[m] = returned[m]
          OBVIOUS
        <4>2. CASE m \in DOMAIN items[c]
          BY <3>2, <4>1, <4>2
        <4>3. CASE m \notin DOMAIN items[c]
          BY <3>2, <4>1, <4>3
        <4> QED  BY <4>2, <4>3
      <3>4. \A m \in Ids : m > given => uses'[m] = 0 /\ returned'[m] = 0
        <4>0. DOMAIN items[c] \subseteq 1..given /\ given \in Nat
          OBVIOUS
        <4>1. \A m \in DOMAIN items[c] : m \in Nat /\ m <= given
          BY <4>0
        <4>2. \A m \in Ids : m > given => m \notin DOMAIN items[c]
          BY <4>0, <4>1
        <4> QED  BY <3>2, <4>2
      <3>5. DOMAIN items' = Conns /\ \A d \in Conns : DOMAIN items'[d] \subseteq 1..given
        BY <2>4, <3>1 DEF RecallCounts
      <3> QED  BY <2>4, <3>2, <3>3, <3>4, <3>5 DEF RecallCounts
    <2>5. ASSUME NEW c \in Conns, Leave(c) PROVE MemInv'
      BY <2>5 DEF Leave, None
    <2>6. CASE UNCHANGED memVars
      BY <2>6 DEF memVars
    <2> QED  BY <2>1, <2>2, <2>3, <2>4, <2>5, <2>6 DEF Next, Tool, vars
  <1> QED  BY <1>1, <1>2, PTL DEF Spec

\* Types of the memories, also where one is forgotten while a recall holds it.
THEOREM MemoryTyped == Spec => []MemoryTypeOK
  <1>1. MemInv => MemoryTypeOK
    BY DEF MemInv
  <1> QED  BY MemoryHolds, <1>1, PTL

\* Whatever recalls come between a recall's reading and its counting, and whichever
\* of them die in between: use_count is the number of recalls that returned the
\* memory (recall's UPDATE adds to what is there).
THEOREM UsesAreCounted == Spec => []UsesCounted
  <1>1. MemInv => UsesCounted
    BY DEF MemInv
  <1> QED  BY MemoryHolds, <1>1, PTL
=============================================================================
