------------------------------- MODULE Store -------------------------------
(***************************************************************************)
(* What every connection to the database does before it is used: init_db   *)
(* drops a full text table that cannot be read, runs the schema script and *)
(* fills the table if it is empty.  executescript commits statement by     *)
(* statement, and the count that decides about filling is read outside of  *)
(* the transaction that fills.  The server's threads, its MCP processes,   *)
(* the worker and the CLI all do this at the same time, and write videos   *)
(* whose entries in videos_fts only the triggers keep up to date.          *)
(***************************************************************************)
EXTENDS Naturals, FiniteSets

CONSTANTS
    Conns,      \* connections, reused after they are closed
    Videos,
    Older       \* videos that may be there before the table of today

ASSUME StoreAssumption == IsFiniteSet(Conns) /\ Older \subseteq Videos

Triggers == {"ai", "au"}    \* videos_fts_ai, videos_fts_au (nothing deletes videos)

VARIABLES
    table,      \* videos_fts: none, broken (the external content table), good
    triggers,   \* which of its triggers exist
    videos,     \* rows of videos
    entries,    \* how many rows of videos_fts a video has
    behind,     \* videos whose entry shows an earlier text than their row
    pc,         \* where a connection is
    dropped,    \* history: a DROP has hit a table that another connection had built
    peak        \* history: the most connections that have been open at the same time

storeVars == <<table, triggers, videos, entries, behind, pc, dropped, peak>>

Steps == {"closed", "dropAi", "dropAu", "dropTable",
          "createTable", "createAi", "createAu", "count", "backfill", "open"}

\* A new installation, one from before the full text search, one with the broken
\* table and its triggers, and one that is up to date.
StoreInit ==
    /\ \/ table = "none" /\ triggers = {} /\ videos \in {{}, Older}
       \/ table = "broken" /\ triggers \in {{}, Triggers} /\ videos = Older
       \/ table = "good" /\ triggers = Triggers /\ videos \in {{}, Older}
    /\ entries = [v \in Videos |-> IF table = "good" /\ v \in videos THEN 1 ELSE 0]
    /\ behind = {}
    /\ pc = [c \in Conns |-> "closed"]
    /\ dropped = FALSE /\ peak = 0

Goto(c, step) == pc' = [pc EXCEPT ![c] = step]

-----------------------------------------------------------------------------
\* _heal_stale_fts_schema: SELECT COUNT(*) raises for a table that is missing and
\* for one that is broken.
Check(c) ==
    /\ pc[c] = "closed"
    /\ Goto(c, IF table = "good" THEN "createTable" ELSE "dropAi")
    /\ LET busy == Cardinality({d \in Conns : pc[d] # "closed"}) + 1
       IN  peak' = IF busy > peak THEN busy ELSE peak
    /\ UNCHANGED <<table, triggers, videos, entries, behind, dropped>>

\* The four DROP ... IF EXISTS, each in a transaction of its own, whatever the
\* table has become since the check.
DropTrigger(c, t, next) ==
    /\ triggers' = triggers \ {t}
    /\ dropped' = (dropped \/ table = "good")
    /\ Goto(c, next)
    /\ UNCHANGED <<table, videos, entries, behind, peak>>

DropTable(c) ==
    /\ table' = "none"
    /\ entries' = [v \in Videos |-> 0]
    /\ behind' = {}
    /\ dropped' = (dropped \/ table = "good")
    /\ Goto(c, "createTable")
    /\ UNCHANGED <<triggers, videos, peak>>

Heal(c) ==
    \/ pc[c] = "dropAi" /\ DropTrigger(c, "ai", "dropAu")
    \/ pc[c] = "dropAu" /\ DropTrigger(c, "au", "dropTable")
    \/ pc[c] = "dropTable" /\ DropTable(c)

\* SCHEMA_SQL: CREATE ... IF NOT EXISTS leaves alone what is there.
CreateTable(c) ==
    /\ table' = IF table = "none" THEN "good" ELSE table
    /\ Goto(c, "createAi")
    /\ UNCHANGED <<triggers, videos, entries, behind, dropped, peak>>

CreateTrigger(c, t, next) ==
    /\ triggers' = triggers \cup {t}
    /\ Goto(c, next)
    /\ UNCHANGED <<table, videos, entries, behind, dropped, peak>>

Schema(c) ==
    \/ pc[c] = "createTable" /\ CreateTable(c)
    \/ pc[c] = "createAi" /\ CreateTrigger(c, "ai", "createAu")
    \/ pc[c] = "createAu" /\ CreateTrigger(c, "au", "count")

\* Mutant: the table is taken for filled as soon as the schema is there.
CountNever(c) ==
    /\ pc[c] = "count"
    /\ table = "good"
    /\ Goto(c, "open")
    /\ UNCHANGED <<table, triggers, videos, entries, behind, dropped, peak>>

\* Mutant: the table is filled without a look at what is in it.
FillAlways(c) ==
    /\ pc[c] = "count"
    /\ table = "good"
    /\ Goto(c, "backfill")
    /\ UNCHANGED <<table, triggers, videos, entries, behind, dropped, peak>>

\* _backfill_fts_if_needed: a table with any row is left alone.
Count(c) ==
    /\ pc[c] = "count"
    /\ table = "good"
    /\ Goto(c, IF \E v \in Videos : entries[v] > 0 THEN "open" ELSE "backfill")
    /\ UNCHANGED <<table, triggers, videos, entries, behind, dropped, peak>>

\* INSERT ... SELECT and the commit of init_db.
Backfill(c) ==
    /\ pc[c] = "backfill"
    /\ table = "good"
    /\ entries' = [v \in Videos |-> IF v \in videos THEN entries[v] + 1 ELSE entries[v]]
    /\ Goto(c, "open")
    /\ UNCHANGED <<table, triggers, videos, behind, dropped, peak>>

\* get_connection closes the connection behind its user, also when init_db or the
\* user raises (a table another connection has dropped, a locked database) or the
\* process dies.
Close(c) ==
    /\ pc[c] # "closed"
    /\ Goto(c, "closed")
    /\ UNCHANGED <<table, triggers, videos, entries, behind, dropped, peak>>

-----------------------------------------------------------------------------
\* _store_entries inserts a video; a trigger without its table makes it fail.
Insert(c, v) ==
    /\ pc[c] = "open" /\ v \notin videos
    /\ "ai" \in triggers => table = "good"
    /\ videos' = videos \cup {v}
    /\ entries' = IF "ai" \in triggers THEN [entries EXCEPT ![v] = @ + 1] ELSE entries
    /\ UNCHANGED <<table, triggers, behind, pc, dropped, peak>>

\* Any UPDATE of a video (metadata, summary, level, transcript_status) replaces all
\* its entries by one.
Update(c, v) ==
    /\ pc[c] = "open" /\ v \in videos
    /\ "au" \in triggers => table = "good"
    /\ IF "au" \in triggers
       THEN entries' = [entries EXCEPT ![v] = 1] /\ behind' = behind \ {v}
       ELSE UNCHANGED entries /\ behind' = IF entries[v] > 0 THEN behind \cup {v} ELSE behind
    /\ UNCHANGED <<table, triggers, videos, pc, dropped, peak>>

Work(c) == \E v \in Videos : Insert(c, v) \/ Update(c, v)

StoreStep(c) == Check(c) \/ Heal(c) \/ Schema(c) \/ Count(c) \/ Backfill(c) \/ Work(c)

StoreNext == \E c \in Conns : StoreStep(c) \/ Close(c)

StoreSpec == StoreInit /\ [][StoreNext]_storeVars

-----------------------------------------------------------------------------
\* Types; only rows have entries, and a text can lag behind only in an entry.
StoreTypeOK ==
    /\ table \in {"none", "broken", "good"}
    /\ triggers \subseteq Triggers
    /\ videos \subseteq Videos /\ behind \subseteq videos
    /\ entries \in [Videos -> Nat]
    /\ \A v \in Videos : entries[v] > 0 => v \in videos /\ table = "good"
    /\ pc \in [Conns -> Steps]
    /\ dropped \in BOOLEAN /\ peak \in Nat

\* Whoever works on the database finds every video in the keyword search, as it is
\* now, and triggers that keep it so, wherever other connections are in init_db and
\* wherever one died: unless a connection has dropped, on the strength of an old
\* check, the table that another had built.
EveryVideoFound ==
    (\E c \in Conns : pc[c] = "open") /\ ~dropped =>
       /\ table = "good" /\ triggers = Triggers
       /\ \A v \in videos : entries[v] > 0 /\ v \notin behind

\* The keyword search returns a video more than once only if connections were open
\* together (one counts, the others fill or write, it fills), and no more often
\* than they were at any one time: however many come and go, die between count and
\* filling or find the table dropped, their fillings do not add up.
FoundOnce == \A v \in Videos : entries[v] <= 1 \/ entries[v] <= peak
=============================================================================
