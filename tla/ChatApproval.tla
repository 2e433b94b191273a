---------------------------- MODULE ChatApproval ----------------------------
(***************************************************************************)
(* One conversation thread of the chat agent: the SSE streams that drive   *)
(* its LangGraph graph (agent -> approve -> tools -> compact -> agent),    *)
(* the graph's durable checkpoint, the table pending_approvals, the        *)
(* in-memory futures of approvals.py, and the user who answers dialogs.    *)
(*                                                                         *)
(* Only tool calls of the "ask" class are named: an AIMessage is the       *)
(* sequence of its ask calls (a sequence may be empty: the message then    *)
(* calls "auto_allow" tools only, which pass the gate untouched).          *)
(* posted, ran and rerun are history variables: no code reads them.        *)
(***************************************************************************)
EXTENDS Naturals, Sequences

CONSTANTS
    Streams,      \* connections that POST /agent/chat on this thread
    CutPoints,    \* points at which a stream may die (see Point)
    Reanswer,     \* TRUE if a user may answer a decided approval again
    MaxChats,     \* bound: POST /agent/chat requests
    MaxMessages,  \* bound: AIMessages with tool calls
    MaxAsks,      \* bound: ask calls in one AIMessage
    MaxPosts,     \* bound: POST /agent/approve requests
    MaxCuts       \* bound: disconnections, node exceptions and restarts

ASSUME BoundsAssumption ==
    /\ MaxChats \in Nat /\ MaxMessages \in Nat /\ MaxAsks \in Nat
    /\ MaxPosts \in Nat /\ MaxCuts \in Nat
    /\ Reanswer \in BOOLEAN

Decisions == {"allow", "deny"}
Nodes == {"agent", "approve", "tools", "compact"}
Steps == {"idle", "load", "attach", "start", "run", "ran",
          "interrupted", "asked", "wait"}

\* A checkpoint: the node it waits to run ("end": none); before approve, the ask
\* calls of the last AIMessage and the answers its task has been given so far;
\* before tools, the ask calls approve has left in the message.
Graph == [next : Nodes \cup {"end"}, asks : Seq(Nat), answers : Seq(Decisions),
          kept : SUBSET Nat]
At(node, asks, kept) ==
    [next |-> node, asks |-> asks, answers |-> <<>>, kept |-> kept]

VARIABLES
    ckpt,      \* the thread's latest checkpoint (agent_checkpoints.db)
    rows,      \* pending_approvals of the thread, in order of created_at
    waiter,    \* the row under which a stream's future is in _waiters, or 0
    fut,       \* the result set on a stream's future, or "none"
    wakes,     \* approve requests that have committed and not yet woken anyone
    pc,        \* where a stream is in stream_chat
    seen,      \* graph_state.next as the stream read it
    input,     \* graph_input: "message", a decision to resume with, or "none"
    graph,     \* the copy of the graph state a running stream works on
    row,       \* the approval a stream waits for
    calls,     \* number of ask calls made so far; a call is its number
    messages, chats, posts, cuts,   \* counters the bounds cap
    posted, ran, rerun              \* history: answers, calls run, run again

db == <<ckpt, rows>>
memory == <<waiter, fut, wakes>>
locals == <<pc, seen, input, graph, row>>
counters == <<calls, messages, chats, posts, cuts>>
history == <<posted, ran, rerun>>
vars == <<db, memory, locals, counters, history>>

Ended == At("end", <<>>, {})

Init ==
    /\ ckpt = Ended
    /\ rows = <<>>
    /\ waiter = [s \in Streams |-> 0]
    /\ fut = [s \in Streams |-> "none"]
    /\ wakes = {}
    /\ pc = [s \in Streams |-> "idle"]
    /\ seen = [s \in Streams |-> "end"]
    /\ input = [s \in Streams |-> "none"]
    /\ graph = [s \in Streams |-> Ended]
    /\ row = [s \in Streams |-> 0]
    /\ calls = 0 /\ messages = 0 /\ chats = 0 /\ posts = 0 /\ cuts = 0
    /\ posted = {} /\ ran = {} /\ rerun = {}

Goto(s, step) == pc' = [pc EXCEPT ![s] = step]

\* stream_chat returns or is cancelled: its local variables are gone.
Leave(s) ==
    /\ Goto(s, "idle")
    /\ seen' = [seen EXCEPT ![s] = "end"]
    /\ input' = [input EXCEPT ![s] = "none"]
    /\ graph' = [graph EXCEPT ![s] = Ended]
    /\ row' = [row EXCEPT ![s] = 0]

-----------------------------------------------------------------------------
(***************************************************************************)
(* stream_chat up to the first run of the graph.                           *)
(***************************************************************************)

\* A chat request. The cost check passes (module CostLedger models it; a
\* refused request changes nothing here).
StartChat(s) ==
    /\ pc[s] = "idle"
    /\ chats < MaxChats
    /\ chats' = chats + 1
    /\ Goto(s, "load")
    /\ UNCHANGED <<db, memory, seen, input, graph, row, calls, messages, posts,
                   cuts, history>>

\* graph_state = await graph.aget_state(config)
LoadState(s) ==
    /\ pc[s] = "load"
    /\ seen' = [seen EXCEPT ![s] = ckpt.next]
    /\ Goto(s, "attach")
    /\ UNCHANGED <<db, memory, input, graph, row, counters, history>>

\* Nothing pending: the user's message is the input.
AcceptMessage(s) ==
    /\ pc[s] = "attach"
    /\ seen[s] = "end"
    /\ input' = [input EXCEPT ![s] = "message"]
    /\ Goto(s, "start")
    /\ UNCHANGED <<db, memory, seen, graph, row, counters, history>>

\* Something pending and the thread has no approval: an error message.
RecordNotFound(s) ==
    /\ pc[s] = "attach"
    /\ seen[s] # "end"
    /\ rows = <<>>
    /\ Leave(s)
    /\ UNCHANGED <<db, memory, counters, history>>

\* Mutant: an open approval is not shown again, the graph is run instead.
AskAgainByRunning(s) ==
    /\ pc[s] = "attach" /\ seen[s] # "end" /\ rows # <<>>
    /\ rows[Len(rows)].decision = "none"
    /\ Goto(s, "start")
    /\ UNCHANGED <<db, memory, seen, input, graph, row, counters, history>>

\* Something pending, the latest approval is open: show it again and wait.
AskAgain(s) ==
    /\ pc[s] = "attach"
    /\ seen[s] # "end"
    /\ rows # <<>>
    /\ rows[Len(rows)].decision = "none"
    /\ row' = [row EXCEPT ![s] = Len(rows)]
    /\ Goto(s, "asked")
    /\ UNCHANGED <<db, memory, seen, input, graph, counters, history>>

\* Mutant: any decision found in the table is taken for an "allow".
ResumeAllowed(s) ==
    /\ pc[s] = "attach" /\ seen[s] # "end" /\ rows # <<>>
    /\ rows[Len(rows)].decision # "none"
    /\ input' = [input EXCEPT ![s] = "allow"]
    /\ Goto(s, "start")
    /\ UNCHANGED <<db, memory, seen, graph, row, counters, history>>

\* Something pending, the latest approval is decided: resume with it.
ResumeDecided(s) ==
    /\ pc[s] = "attach"
    /\ seen[s] # "end"
    /\ rows # <<>>
    /\ rows[Len(rows)].decision # "none"
    /\ input' = [input EXCEPT ![s] = rows[Len(rows)].decision]
    /\ Goto(s, "start")
    /\ UNCHANGED <<db, memory, seen, graph, row, counters, history>>

-----------------------------------------------------------------------------
(***************************************************************************)
(* The graph run, with LangGraph's semantics: astream_events loads the     *)
(* latest checkpoint, every node's result is saved before the next runs,   *)
(* and a resume value answers the first unanswered interrupt() of a        *)
(* pending approve task; any other pending node ignores it.                *)
(***************************************************************************)

\* A message starts a new turn at agent; a resume continues what is pending.
StartRun(s) ==
    /\ pc[s] = "start"
    /\ LET g == IF input[s] = "message" THEN At("agent", <<>>, {}) ELSE ckpt
       IN  /\ graph' = [graph EXCEPT ![s] = g]
           /\ ckpt' = g
    /\ Goto(s, "run")
    /\ UNCHANGED <<rows, memory, seen, input, row, counters, history>>

\* The node of stream s has produced g: save it and go on without a resume value.
SaveNode(s, g) ==
    /\ graph' = [graph EXCEPT ![s] = g]
    /\ ckpt' = g
    /\ input' = [input EXCEPT ![s] = "none"]

Running(s, node) == pc[s] = "run" /\ graph[s].next = node

\* The model answers without tool calls: the turn is over.
AgentEnds(s) ==
    /\ Running(s, "agent")
    /\ SaveNode(s, Ended)
    /\ UNCHANGED <<rows, memory, pc, seen, row, counters, history>>

\* The model calls tools, k of them of the ask class.
AgentCallsTools(s) ==
    /\ Running(s, "agent")
    /\ messages < MaxMessages
    /\ messages' = messages + 1
    /\ \E k \in 0..MaxAsks :
          /\ SaveNode(s, At("approve", [i \in 1..k |-> calls + i], {}))
          /\ calls' = calls + k
    /\ UNCHANGED <<rows, memory, pc, seen, row, chats, posts, cuts, history>>

\* Mutant: a call nobody has answered counts as allowed.
AnswersByDefault(s) ==
    IF Len(graph[s].answers) < Len(graph[s].asks)
    THEN Append(graph[s].answers, IF input[s] \in Decisions THEN input[s] ELSE "allow")
    ELSE graph[s].answers

\* The answers approve_node sees: the replayed ones, then the resume value.
Answers(s) ==
    IF /\ input[s] \in Decisions
       /\ Len(graph[s].answers) < Len(graph[s].asks)
    THEN Append(graph[s].answers, input[s])
    ELSE graph[s].answers

\* Mutant: denied calls stay in the AIMessage.
KeptAll(asks, answers) == {asks[i] : i \in DOMAIN asks}

\* The calls approve_node leaves in the AIMessage.
Kept(asks, answers) ==
    {asks[i] : i \in {j \in DOMAIN asks : answers[j] = "allow"}}

\* Every ask call is answered: denied ones are dropped, the rest go to tools.
ApprovePasses(s) ==
    /\ Running(s, "approve")
    /\ Len(Answers(s)) = Len(graph[s].asks)
    /\ SaveNode(s, At("tools", <<>>, Kept(graph[s].asks, Answers(s))))
    /\ UNCHANGED <<rows, memory, pc, seen, row, counters, history>>

\* An ask call is unanswered: interrupt() stops the run.
ApproveInterrupts(s) ==
    /\ Running(s, "approve")
    /\ Len(Answers(s)) < Len(graph[s].asks)
    /\ SaveNode(s, [graph[s] EXCEPT !.answers = Answers(s)])
    /\ Goto(s, "interrupted")
    /\ UNCHANGED <<rows, memory, seen, row, counters, history>>

\* ToolNode runs the calls: their effects happen before the checkpoint is saved.
RunTools(s) ==
    /\ Running(s, "tools")
    /\ ran' = ran \cup graph[s].kept
    /\ rerun' = rerun \cup (graph[s].kept \cap ran)
    /\ Goto(s, "ran")
    /\ UNCHANGED <<db, memory, seen, input, graph, row, counters, posted>>

\* Mutant: the result of the tools node is not saved.
SaveToolsLost(s) ==
    /\ pc[s] = "ran"
    /\ graph' = [graph EXCEPT ![s] = At("compact", <<>>, {})]
    /\ Goto(s, "run")
    /\ UNCHANGED <<db, memory, seen, input, row, counters, history>>

SaveTools(s) ==
    /\ pc[s] = "ran"
    /\ SaveNode(s, At("compact", <<>>, {}))
    /\ Goto(s, "run")
    /\ UNCHANGED <<rows, memory, seen, row, counters, history>>

\* Mutant: the edge after compact leads back to tools.
CompactLoops(s) ==
    /\ Running(s, "compact")
    /\ SaveNode(s, At("tools", <<>>, {}))
    /\ UNCHANGED <<rows, memory, pc, seen, row, counters, history>>

CompactNode(s) ==
    /\ Running(s, "compact")
    /\ SaveNode(s, At("agent", <<>>, {}))
    /\ UNCHANGED <<rows, memory, pc, seen, row, counters, history>>

\* No interrupt: leave the loop, record_run, run_end.
EndRun(s) ==
    /\ Running(s, "end")
    /\ Leave(s)
    /\ UNCHANGED <<db, memory, counters, history>>

-----------------------------------------------------------------------------
(***************************************************************************)
(* Asking and waiting.                                                     *)
(***************************************************************************)

\* approvals.create_pending, then the approval_required event.
CreatePending(s) ==
    /\ pc[s] = "interrupted"
    /\ LET c == graph[s].asks[Len(graph[s].answers) + 1]
       IN  rows' = Append(rows, [call |-> c, decision |-> "none"])
    /\ row' = [row EXCEPT ![s] = Len(rows) + 1]
    /\ Goto(s, "asked")
    /\ UNCHANGED <<ckpt, memory, seen, input, graph, counters, history>>

\* _waiters.pop(a, None)
Pop(a) == [t \in Streams |-> IF waiter[t] = a THEN 0 ELSE waiter[t]]

\* register_waiter: a later waiter of the same row replaces the earlier one.
RegisterWaiter(s) ==
    /\ pc[s] = "asked"
    /\ waiter' = [Pop(row[s]) EXCEPT ![s] = row[s]]
    /\ fut' = [fut EXCEPT ![s] = "none"]
    /\ Goto(s, "wait")
    /\ UNCHANGED <<db, wakes, seen, input, graph, row, counters, history>>

\* wait_for_decision returns d and the stream resumes the graph with it.
StopWaiting(s, d) ==
    /\ waiter' = Pop(row[s])
    /\ fut' = [fut EXCEPT ![s] = "none"]
    /\ input' = [input EXCEPT ![s] = d]
    /\ Goto(s, "start")
    /\ UNCHANGED <<db, wakes, seen, graph, row, counters, history>>

FutureWakes(s) ==
    /\ pc[s] = "wait"
    /\ fut[s] # "none"
    /\ StopWaiting(s, fut[s])

\* Mutant: the table is never polled.
PollNever(s) == FALSE

PollFinds(s) ==
    /\ pc[s] = "wait"
    /\ rows[row[s]].decision # "none"
    /\ StopWaiting(s, rows[row[s]].decision)

\* POST /agent/approve, up to the commit of resolve().
Resolve(a, d) ==
    /\ posts < MaxPosts
    /\ Reanswer \/ rows[a].decision = "none"
    /\ posts' = posts + 1
    /\ rows' = [rows EXCEPT ![a].decision = d]
    /\ wakes' = wakes \cup {[row |-> a, decision |-> d]}
    /\ posted' = posted \cup {[call |-> rows[a].call, decision |-> d]}
    /\ UNCHANGED <<ckpt, waiter, fut, locals, calls, messages, chats, cuts,
                   ran, rerun>>

\* The rest of resolve(): take the future out of _waiters and set its result.
Wake(w) ==
    /\ wakes' = wakes \ {w}
    /\ fut' = [s \in Streams |->
                 IF waiter[s] = w.row /\ pc[s] = "wait" THEN w.decision ELSE fut[s]]
    /\ waiter' = Pop(w.row)
    /\ UNCHANGED <<db, locals, counters, history>>

-----------------------------------------------------------------------------
(***************************************************************************)
(* Streams that die. Point names where a stream is: the node it is in      *)
(* while the graph runs, its step otherwise.                               *)
(***************************************************************************)

Point(s) == IF pc[s] = "run" THEN graph[s].next ELSE pc[s]
Killable(s) == Point(s) \in CutPoints /\ pc[s] # "idle"

\* The client disconnects (the generator is cancelled) or a node raises and
\* stream_chat reports the error: the stream ends, the checkpoint stays.
Cut(s) ==
    /\ Killable(s)
    /\ cuts < MaxCuts
    /\ cuts' = cuts + 1
    /\ Leave(s)
    /\ UNCHANGED <<db, memory, calls, messages, chats, posts, history>>

\* The server process restarts: every stream, future and request thread is gone.
Restart ==
    /\ \A s \in Streams : pc[s] = "idle" \/ Killable(s)
    /\ cuts < MaxCuts
    /\ cuts' = cuts + 1
    /\ pc' = [s \in Streams |-> "idle"]
    /\ seen' = [s \in Streams |-> "end"]
    /\ input' = [s \in Streams |-> "none"]
    /\ graph' = [s \in Streams |-> Ended]
    /\ row' = [s \in Streams |-> 0]
    /\ waiter' = [s \in Streams |-> 0]
    /\ fut' = [s \in Streams |-> "none"]
    /\ wakes' = {}
    /\ UNCHANGED <<db, calls, messages, chats, posts, history>>

-----------------------------------------------------------------------------
Attach(s) == AcceptMessage(s) \/ RecordNotFound(s) \/ AskAgain(s) \/ ResumeDecided(s)
Node(s) == \/ AgentEnds(s) \/ AgentCallsTools(s) \/ ApprovePasses(s)
           \/ ApproveInterrupts(s) \/ RunTools(s) \/ SaveTools(s)
           \/ CompactNode(s) \/ EndRun(s)
Wait(s) == CreatePending(s) \/ RegisterWaiter(s) \/ FutureWakes(s) \/ PollFinds(s)

\* What the server does by itself for a stream that is being served.
Serve(s) == LoadState(s) \/ Attach(s) \/ StartRun(s) \/ Node(s) \/ Wait(s)

Next ==
    \/ \E s \in Streams : StartChat(s) \/ Serve(s) \/ Cut(s)
    \/ \E a \in DOMAIN rows, d \in Decisions : Resolve(a, d)
    \/ \E w \in wakes : Wake(w)
    \/ Restart

Spec == Init /\ [][Next]_vars

\* The event loop keeps running every ready coroutine. Users answer when they
\* like, request threads may be slow, and nothing obliges a stream to die.
FairSpec == Spec /\ \A s \in Streams : WF_vars(Serve(s))

-----------------------------------------------------------------------------
(***************************************************************************)
(* Properties.                                                             *)
(***************************************************************************)

\* The thread's durable state has its type.
DbOK ==
    /\ ckpt \in Graph
    /\ rows \in Seq([call : Nat, decision : Decisions \cup {"none"}])

\* Futures and wake-ups are about existing rows.
MemoryOK ==
    /\ waiter \in [Streams -> 0..Len(rows)]
    /\ fut \in [Streams -> Decisions \cup {"none"}]
    /\ \A w \in wakes : w.row \in DOMAIN rows /\ w.decision \in Decisions

\* A stream that asks or waits has a row to wait for.
StreamsOK ==
    /\ pc \in [Streams -> Steps]
    /\ seen \in [Streams -> Nodes \cup {"end"}]
    /\ input \in [Streams -> Decisions \cup {"message", "none"}]
    /\ graph \in [Streams -> Graph]
    /\ row \in [Streams -> 0..Len(rows)]
    /\ \A s \in Streams : pc[s] \in {"asked", "wait"} => row[s] # 0

CountersOK == {calls, messages, chats, posts, cuts} \subseteq Nat

HistoryOK ==
    /\ \A p \in posted : p.call \in Nat /\ p.decision \in Decisions
    /\ ran \subseteq Nat /\ rerun \subseteq ran

\* Every variable has its type; a row number always names an existing row.
TypeOK == DbOK /\ MemoryOK /\ StreamsOK /\ CountersOK /\ HistoryOK

\* An ask call runs only if the user answered "allow" to the dialog about that
\* very call (approve_node: every ask call stops at interrupt()).
OnlyAllowedCallsRun ==
    \A c \in ran : [call |-> c, decision |-> "allow"] \in posted

\* No ask call is executed twice, whatever restarts happen outside the tools node.
RunsAtMostOnce == rerun = {}

\* Re-attaching to a waiting thread shows the open approval again; it never
\* opens a second one for the same call (stream_chat's re-attach branch).
OneDialogPerCall ==
    \A i, j \in DOMAIN rows : rows[i].call = rows[j].call => i = j

\* Whatever dies and whoever else streams on the thread, a user who has never
\* allowed anything sees no ask call run.
DenyByDefault == ran # {} => \E p \in posted : p.decision = "allow"

\* A stream that finds the graph stopped resumes only a graph that is stopped
\* at an approval (the comment above stream_chat's aget_state call).
StoppedMeansApproval ==
    \A s \in Streams : pc[s] = "attach" /\ seen[s] # "end" => seen[s] = "approve"

\* A stream whose approval is decided stops waiting, even if the future was
\* lost, replaced by another stream's or never set (the poll of the table).
DecidedWakes ==
    \A s \in Streams :
       (pc[s] = "wait" /\ rows[row[s]].decision # "none") ~> pc[s] # "wait"

\* A stream that is served ends, or is left waiting for the user.
StreamFinishes ==
    \A s \in Streams :
       pc[s] # "idle" ~> \/ pc[s] = "idle"
                         \/ pc[s] = "wait" /\ rows[row[s]].decision = "none"

\* The thread implements the gate (calls are numbered from 1).
Gate == INSTANCE ApprovalGate WITH Calls <- 1..(MaxMessages * MaxAsks)
GateSpec == Gate!Spec
=============================================================================
