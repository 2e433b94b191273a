----------------------------- MODULE Categories -----------------------------
(***************************************************************************)
(* Who puts a channel into which categories: categorize_all_pending asks   *)
(* an LLM about one channel after the other and adds what it answers;      *)
(* assign_category_to_channel is the user's word, replaces everything and  *)
(* locks the channel.  Both write channel_categories, each in one commit.  *)
(* The lock is read before the LLM is asked and not again.  The channels   *)
(* come from Takeout files, which are imported again and again.            *)
(***************************************************************************)
EXTENDS Naturals, FiniteSets

CONSTANTS
    Channels,
    Slugs,        \* category ids, as _normalize_category_id leaves them
    Default,      \* DEFAULT_CATEGORY_ID
    Sorters,      \* processes that run categorize_all_pending
    MaxRuns,      \* bound: runs of categorize_all_pending
    MaxAborts     \* bound: runs that raise or die

ASSUME CategoriesAssumption ==
    /\ Default \in Slugs /\ IsFiniteSet(Sorters)
    /\ MaxRuns \in Nat /\ MaxAborts \in Nat

Rows == [channel : Channels, category : Slugs, by : {"auto", "user"}]

VARIABLES
    channels,     \* ids of the table channels
    categories,   \* ids of the table categories
    assigned,     \* rows of channel_categories
    locked,       \* channels with category_locked = 1
    review,       \* channels with needs_review = 1
    pc,           \* idle, select, loop, calling
    todo,         \* a run's channels that are left to do
    current,      \* the channel a run has asked the LLM about (a set)
    chosen,       \* history: the user's latest choice for a channel
    settled,      \* history: how many answers have put a channel into a category
    runs, aborts

tables == <<categories, assigned, locked, review>>
history == <<chosen, settled>>
vars == <<channels, tables, pc, todo, current, history, runs, aborts>>

Init ==
    /\ channels = {} /\ categories = {} /\ assigned = {} /\ locked = {} /\ review = {}
    /\ pc = [p \in Sorters |-> "idle"]
    /\ todo = [p \in Sorters |-> {}]
    /\ current = [p \in Sorters |-> {}]
    /\ chosen = [c \in Channels |-> {}]
    /\ settled = [c \in Channels |-> 0]
    /\ runs = 0 /\ aborts = 0

Goto(p, step) == pc' = [pc EXCEPT ![p] = step]
RowsOf(c, rows) == {row \in rows : row.channel = c}
CategoriesOf(c, rows) == {row.category : row \in RowsOf(c, rows)}

-----------------------------------------------------------------------------
\* categorize_all_pending begins: ensure_default_category.
EnsureDefault(p) ==
    /\ pc[p] = "idle"
    /\ runs < MaxRuns
    /\ runs' = runs + 1
    /\ categories' = categories \cup {Default}
    /\ Goto(p, "select")
    /\ UNCHANGED <<channels, assigned, locked, review, todo, current, history, aborts>>

\* Mutant: a run takes every channel that is not locked.
SelectAll(p) ==
    /\ pc[p] = "select"
    /\ \E rows \in SUBSET (channels \ locked) : todo' = [todo EXCEPT ![p] = rows]
    /\ Goto(p, "loop")
    /\ UNCHANGED <<channels, tables, current, history, runs, aborts>>

\* The channels that are neither locked nor in any category; a limit may cut
\* the list.
SelectPending(p) ==
    /\ pc[p] = "select"
    /\ \E rows \in SUBSET {c \in channels \ locked : RowsOf(c, assigned) = {}} :
          todo' = [todo EXCEPT ![p] = rows]
    /\ Goto(p, "loop")
    /\ UNCHANGED <<channels, tables, current, history, runs, aborts>>

\* categorize_channel: a channel that has been locked meanwhile is passed over,
\* for any other the prompt is built and sent.
Ask(p) ==
    /\ pc[p] = "loop"
    /\ \E c \in todo[p] :
          /\ todo' = [todo EXCEPT ![p] = @ \ {c}]
          /\ IF c \in locked
             THEN UNCHANGED <<pc, current>>
             ELSE /\ current' = [current EXCEPT ![p] = {c}]
                  /\ Goto(p, "calling")
    /\ UNCHANGED <<channels, tables, history, runs, aborts>>

\* The answer is there: _apply_assignments creates the categories it does not
\* know, inserts the rows that do not exist (ON CONFLICT DO NOTHING) and commits.
\* Nothing reads the lock again.
Apply(p) ==
    /\ pc[p] = "calling"
    /\ \E c \in current[p], answer \in SUBSET Slugs :
          /\ categories' = categories \cup answer
          /\ assigned' = assigned \cup
                {[channel |-> c, category |-> s, by |-> "auto"] :
                    s \in answer \ CategoriesOf(c, assigned)}
          /\ review' = review \cup {c}
          /\ settled' = IF answer = {} THEN settled ELSE [settled EXCEPT ![c] = @ + 1]
    /\ current' = [current EXCEPT ![p] = {}]
    /\ Goto(p, "loop")
    /\ UNCHANGED <<channels, locked, todo, chosen, runs, aborts>>

Done(p) ==
    /\ pc[p] = "loop" /\ todo[p] = {}
    /\ Goto(p, "idle")
    /\ UNCHANGED <<channels, tables, todo, current, history, runs, aborts>>

\* The cost limit, the API or the parser raises, or the process dies.
Abort(p) ==
    /\ pc[p] # "idle"
    /\ aborts < MaxAborts
    /\ aborts' = aborts + 1
    /\ Goto(p, "idle")
    /\ todo' = [todo EXCEPT ![p] = {}]
    /\ current' = [current EXCEPT ![p] = {}]
    /\ UNCHANGED <<channels, tables, history, runs>>

-----------------------------------------------------------------------------
\* Mutant: the user's categories are added to those that are there.
AssignAdding(c, choice) ==
    /\ c \in channels /\ choice \subseteq categories
    /\ assigned' = assigned \cup
          {[channel |-> c, category |-> s, by |-> "user"] :
              s \in choice \ CategoriesOf(c, assigned)}
    /\ locked' = locked \cup {c}
    /\ review' = review \ {c}
    /\ chosen' = [chosen EXCEPT ![c] = choice]
    /\ UNCHANGED <<channels, categories, pc, todo, current, settled, runs, aborts>>

\* assign_category_to_channel; an unknown channel or category is an error and
\* changes nothing.
Assign(c, choice) ==
    /\ c \in channels /\ choice \subseteq categories
    /\ assigned' = (assigned \ RowsOf(c, assigned)) \cup
          {[channel |-> c, category |-> s, by |-> "user"] : s \in choice}
    /\ locked' = locked \cup {c}
    /\ review' = review \ {c}
    /\ chosen' = [chosen EXCEPT ![c] = choice]
    /\ UNCHANGED <<channels, categories, pc, todo, current, settled, runs, aborts>>

\* Mutant: INSERT OR REPLACE.
ImportReplacing(found) ==
    /\ channels' = channels \cup found
    /\ locked' = locked \ found /\ review' = review \ found
    /\ assigned' = {row \in assigned : row.channel \notin found}
    /\ UNCHANGED <<categories, pc, todo, current, history, runs, aborts>>

\* import_takeout_csv: ON CONFLICT DO NOTHING; what the user and the runs have
\* written about a channel that is there already stays.
Import(found) ==
    /\ channels' = channels \cup found
    /\ UNCHANGED <<tables, pc, todo, current, history, runs, aborts>>

Next ==
    \/ \E p \in Sorters :
          \/ EnsureDefault(p) \/ SelectPending(p) \/ Ask(p) \/ Apply(p) \/ Done(p)
          \/ Abort(p)
    \/ \E c \in Channels, choice \in SUBSET Slugs : Assign(c, choice)
    \/ \E found \in SUBSET Channels : Import(found)

Spec == Init /\ [][Next]_vars

-----------------------------------------------------------------------------
\* Types; the primary key of channel_categories and its foreign keys, although the
\* model's is_new is not trusted and the known ids were read earlier; a run has a
\* current channel exactly while it waits for the LLM.
TypeOK ==
    /\ channels \subseteq Channels
    /\ categories \subseteq Slugs /\ assigned \subseteq Rows
    /\ \A row \in assigned : row.category \in categories /\ row.channel \in channels
    /\ locked \subseteq channels /\ review \subseteq channels
    /\ \A r1, r2 \in assigned :
          r1.channel = r2.channel /\ r1.category = r2.category => r1 = r2
    /\ pc \in [Sorters -> {"idle", "select", "loop", "calling"}]
    /\ todo \in [Sorters -> SUBSET channels]
    /\ current \in [Sorters -> SUBSET channels]
    /\ \A p \in Sorters : (pc[p] = "calling" <=> current[p] # {}) /\ todo[p] \cap current[p] = {}
    /\ chosen \in [Channels -> SUBSET Slugs]
    /\ settled \in [Channels -> Nat]
    /\ runs \in Nat /\ aborts \in Nat

\* What the user has chosen for a channel stays chosen, and the channel locked,
\* whatever run is still under way (the INSERTs of _apply_assignments never
\* overwrite) and however often Takeout files are imported.
UserChoiceKept ==
    \A c \in Channels :
       /\ {row.category : row \in {r \in RowsOf(c, assigned) : r.by = "user"}} = chosen[c]
       /\ chosen[c] # {} => c \in locked

\* Every assignment made by the model is up for review, also when it lands on a
\* channel that the user has locked meanwhile, or that is imported again.
AutoIsReviewed == \A row \in assigned : row.by = "auto" => row.channel \in review

\* Running it again costs nothing (categorize_all_pending's docstring): a channel is
\* paid for, with an answer that gave it a category, once for each process that was
\* sorting at the same time, and never again by later runs.
PaidOnce == \A c \in Channels : settled[c] <= Cardinality(Sorters)

=============================================================================
