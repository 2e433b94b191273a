------------------------------ MODULE Memory ------------------------------
(***************************************************************************)
(* The memory tools of the MCP server, each on a connection of its own     *)
(* (module Store): remember, forget and recall.  A recall reads first and  *)
(* counts the use of what it has read in a second statement, which other   *)
(* conversations may come before.                                          *)
(***************************************************************************)
EXTENDS Store

CONSTANTS
    MaxMemories,    \* bound: memories stored
    MaxRecalls      \* bound: recalls begun

ASSUME MemoryAssumption == MaxMemories \in Nat /\ MaxRecalls \in Nat

Ids == 1..MaxMemories

VARIABLES
    memories,   \* ids of the rows of memories
    uses,       \* use_count of each
    items,      \* what a connection's recall has read and not yet counted: id -> use_count
    given,      \* ids given out so far
    recalls,    \* recalls begun so far
    returned    \* history: how many recalls have returned a memory

memVars == <<memories, uses, items, given, recalls, returned>>
vars == <<storeVars, memVars>>

None == [m \in {} |-> 0]

Init ==
    /\ StoreInit
    /\ memories = {} /\ given = 0 /\ recalls = 0
    /\ uses = [m \in Ids |-> 0]
    /\ items = [c \in Conns |-> None]
    /\ returned = [m \in Ids |-> 0]

\* A tool runs on an open connection that has nothing else to do.
Free(c) == pc[c] = "open" /\ items[c] = None

-----------------------------------------------------------------------------
\* remember; an unknown kind or a content of the wrong length changes nothing.
Remember(c) ==
    /\ Free(c)
    /\ given < MaxMemories
    /\ given' = given + 1
    /\ memories' = memories \cup {given + 1}
    /\ UNCHANGED <<storeVars, uses, items, recalls, returned>>

\* forget; NOT_FOUND changes nothing.
Forget(c, m) ==
    /\ Free(c)
    /\ m \in memories
    /\ memories' = memories \ {m}
    /\ UNCHANGED <<storeVars, uses, items, given, recalls, returned>>

\* recall reads the rows that match, the newest up to the limit: some of them.
RecallReads(c) ==
    /\ Free(c)
    /\ recalls < MaxRecalls
    /\ recalls' = recalls + 1
    /\ \E found \in SUBSET memories :
          items' = [items EXCEPT ![c] = [m \in found |-> uses[m]]]
    /\ UNCHANGED <<storeVars, memories, uses, given, returned>>

\* Mutant: the count that was read, plus one, is written back.
RecallWritesBack(c) ==
    /\ pc[c] = "open" /\ items[c] # None
    /\ uses' = [m \in Ids |-> IF m \in DOMAIN items[c] THEN items[c][m] + 1 ELSE uses[m]]
    /\ returned' = [m \in Ids |-> IF m \in DOMAIN items[c] THEN returned[m] + 1 ELSE returned[m]]
    /\ items' = [items EXCEPT ![c] = None]
    /\ UNCHANGED <<storeVars, memories, given, recalls>>

\* One UPDATE for each item, one commit; a row that is gone meanwhile is not updated
\* but returned all the same.
RecallCounts(c) ==
    /\ pc[c] = "open" /\ items[c] # None
    /\ uses' = [m \in Ids |-> IF m \in DOMAIN items[c] \cap memories THEN uses[m] + 1 ELSE uses[m]]
    /\ returned' = [m \in Ids |-> IF m \in DOMAIN items[c] THEN returned[m] + 1 ELSE returned[m]]
    /\ items' = [items EXCEPT ![c] = None]
    /\ UNCHANGED <<storeVars, memories, given, recalls>>

\* The tool ends and its connection with it: safe_tool turns whatever was raised
\* into an answer, and what is not committed is gone.
Leave(c) ==
    /\ Close(c)
    /\ items' = [items EXCEPT ![c] = None]
    /\ UNCHANGED <<memories, uses, given, recalls, returned>>

Tool(c) ==
    \/ Remember(c) \/ RecallReads(c) \/ RecallCounts(c)
    \/ \E m \in Ids : Forget(c, m)

Next ==
    \E c \in Conns :
       \/ items[c] = None /\ StoreStep(c) /\ UNCHANGED memVars
       \/ Tool(c)
       \/ Leave(c)

Spec == Init /\ [][Next]_vars

-----------------------------------------------------------------------------
\* Types; a recall holds memories that have been stored, or had been.
MemoryTypeOK ==
    /\ given \in 0..MaxMemories /\ memories \subseteq 1..given
    /\ recalls \in 0..MaxRecalls
    /\ uses \in [Ids -> Nat] /\ returned \in [Ids -> Nat]
    /\ DOMAIN items = Conns /\ \A c \in Conns : DOMAIN items[c] \subseteq 1..given

\* use_count, the reason to keep a memory or not, is the number of recalls that
\* returned it, also when conversations recall at the same time or a tool dies
\* between its two statements.
UsesCounted == \A m \in memories : uses[m] = returned[m]
=============================================================================
