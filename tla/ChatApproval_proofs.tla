------------------------- MODULE ChatApproval_proofs -------------------------
(***************************************************************************)
(* Theorems about ChatApproval for any number of streams, any bounds and   *)
(* any set of points at which streams may die.                             *)
(***************************************************************************)
EXTENDS ChatApproval, SequenceTheorems, TLAPS

-----------------------------------------------------------------------------
(***************************************************************************)
(* Types.  TypeOK is not inductive alone: the row create_pending writes is *)
(* about an ask call only because the graph stopped at an unanswered one.  *)
(***************************************************************************)

\* A stream that was interrupted has an ask call left to ask about.
StoppedAtAsk ==
    \A s \in Streams :
       pc[s] = "interrupted" => Len(graph[s].answers) < Len(graph[s].asks)

Typed == TypeOK /\ StoppedAtAsk

\* What approve_node leaves in the message is a set of ask calls.
LEMMA KeptType ==
    ASSUME NEW asks \in Seq(Nat), NEW answers
    PROVE  Kept(asks, answers) \subseteq Nat
  BY ElementOfSeq DEF Kept

\* A checkpoint made by At is a checkpoint.
LEMMA AtType ==
    ASSUME NEW node \in Nodes \cup {"end"}, NEW asks \in Seq(Nat), NEW kept \in SUBSET Nat
    PROVE  At(node, asks, kept) \in Graph
  BY EmptySeq DEF At, Graph

\* The state of a thread that waits for nothing is a checkpoint.
LEMMA EndedType == Ended \in Graph
  BY AtType, EmptySeq DEF Ended

\* The answers approve_node sees are decisions, one more at most than before.
LEMMA AnswersType ==
    ASSUME TypeOK, NEW s \in Streams
    PROVE  /\ Answers(s) \in Seq(Decisions)
           /\ \/ Answers(s) = graph[s].answers
              \/ /\ Answers(s) = Append(graph[s].answers, input[s])
                 /\ input[s] \in Decisions
  <1>1. graph[s].answers \in Seq(Decisions)
    BY DEF TypeOK, StreamsOK, Graph
  <1> QED  BY <1>1, AppendProperties DEF Answers

\* A stream that leaves keeps the types of what it leaves behind.
LEMMA LeaveTyped ==
    ASSUME Typed, NEW s \in Streams, Leave(s), rows' = rows
    PROVE  (StreamsOK /\ StoppedAtAsk)'
  <1>1. StreamsOK'
    BY EndedType DEF Typed, TypeOK, StreamsOK, Leave, Goto, Steps
  <1>2. StoppedAtAsk'
    BY DEF Typed, TypeOK, StreamsOK, StoppedAtAsk, Leave, Goto
  <1> QED  BY <1>1, <1>2

\* Saving a checkpoint keeps the types, if the stream goes on running.
LEMMA SaveTyped ==
    ASSUME Typed, NEW s \in Streams, NEW g \in Graph, SaveNode(s, g),
           pc[s] \in {"run", "ran"}, pc' = pc \/ Goto(s, "run"),
           UNCHANGED <<rows, seen, row>>
    PROVE  (DbOK /\ StreamsOK /\ StoppedAtAsk)'
  <1>1. DbOK'
    BY DEF Typed, TypeOK, DbOK, SaveNode
  <1>2. StreamsOK'
    BY DEF Typed, TypeOK, StreamsOK, SaveNode, Goto, Steps
  <1>3. StoppedAtAsk'
    BY DEF Typed, TypeOK, StreamsOK, StoppedAtAsk, SaveNode, Goto
  <1> QED  BY <1>1, <1>2, <1>3

\* The numbers of k new calls.
LEMMA NewCalls ==
    ASSUME calls \in Nat, NEW k \in Nat
    PROVE  [i \in 1..k |-> calls + i] \in Seq(Nat)
  <1>1. \A i \in 1..k : calls + i \in Nat
    OBVIOUS
  <1> QED  BY <1>1, IsASeq

\* The latest approval of the thread, if there is one.
LEMMA LastRow ==
    ASSUME DbOK, rows # <<>>
    PROVE  /\ Len(rows) \in Nat \ {0}
           /\ rows[Len(rows)].decision \in Decisions \cup {"none"}
  <1>1. Len(rows) \in Nat \ {0}
    BY EmptySeq DEF DbOK
  <1>2. Len(rows) \in 1..Len(rows)
    BY <1>1
  <1>3. rows[Len(rows)] \in [call : Nat, decision : Decisions \cup {"none"}]
    BY <1>2, ElementOfSeq DEF DbOK
  <1> QED  BY <1>1, <1>3

\* The steps of stream_chat before the graph runs.
LEMMA AttachTyped ==
    ASSUME Typed, NEW s \in Streams,
           StartChat(s) \/ LoadState(s) \/ Attach(s) \/ StartRun(s)
    PROVE  Typed'
  <1> USE DEF Typed
  <1>1. MemoryOK' /\ HistoryOK'
    BY DEF TypeOK, MemoryOK, HistoryOK, StartChat, LoadState, Attach, AcceptMessage,
           RecordNotFound, AskAgain, ResumeDecided, StartRun, db, memory, history
  <1>2. CountersOK'
    BY DEF TypeOK, CountersOK, StartChat, LoadState, Attach, AcceptMessage,
           RecordNotFound, AskAgain, ResumeDecided, StartRun, counters
  <1>3. CASE StartChat(s)
    BY <1>1, <1>2, <1>3 DEF StartChat, TypeOK, DbOK, StreamsOK, StoppedAtAsk, Goto, Steps, db
  <1>4. CASE LoadState(s)
    <2>1. ckpt.next \in Nodes \cup {"end"}
      BY DEF TypeOK, DbOK, Graph
    <2> QED  BY <1>1, <1>2, <1>4, <2>1
             DEF LoadState, TypeOK, DbOK, StreamsOK, StoppedAtAsk, Goto, Steps, db
  <1>5. CASE AcceptMessage(s)
    BY <1>1, <1>2, <1>5 DEF AcceptMessage, TypeOK, DbOK, StreamsOK, StoppedAtAsk, Goto, Steps, db
  <1>6. CASE RecordNotFound(s)
    BY <1>1, <1>2, <1>6, LeaveTyped DEF RecordNotFound, TypeOK, DbOK, db
  <1>7. CASE AskAgain(s)
    <2>1. Len(rows) \in Nat \ {0}
      BY <1>7, LastRow DEF AskAgain, TypeOK
    <2> QED  BY <1>1, <1>2, <1>7, <2>1
             DEF AskAgain, TypeOK, DbOK, StreamsOK, StoppedAtAsk, Goto, Steps, db
  <1>8. CASE ResumeDecided(s)
    <2>1. rows[Len(rows)].decision \in Decisions
      BY <1>8, LastRow DEF ResumeDecided, TypeOK
    <2> QED  BY <1>1, <1>2, <1>8, <2>1
             DEF ResumeDecided, TypeOK, DbOK, StreamsOK, StoppedAtAsk, Goto, Steps, db
  <1>9. CASE StartRun(s)
    <2>1. PICK g \in Graph : graph' = [graph EXCEPT ![s] = g] /\ ckpt' = g
      BY <1>9, AtType, EmptySeq DEF StartRun, TypeOK, DbOK, Nodes
    <2> QED  BY <1>1, <1>2, <1>9, <2>1
             DEF StartRun, TypeOK, DbOK, StreamsOK, StoppedAtAsk, Goto, Steps
  <1> QED  BY <1>3, <1>4, <1>5, <1>6, <1>7, <1>8, <1>9 DEF Attach

\* The steps of the graph.
LEMMA NodeTyped ==
    ASSUME Typed, NEW s \in Streams, Node(s)
    PROVE  Typed'
  <1> USE DEF Typed
  <1>1. MemoryOK'
    BY DEF TypeOK, MemoryOK, Node, AgentEnds, AgentCallsTools, ApprovePasses,
           ApproveInterrupts, RunTools, SaveTools, CompactNode, EndRun, memory, db
  <1>2. CASE AgentEnds(s)
    <2>1. (DbOK /\ StreamsOK /\ StoppedAtAsk)'
      BY <1>2, EndedType, SaveTyped DEF AgentEnds, Running
    <2> QED  BY <1>1, <1>2, <2>1 DEF AgentEnds, TypeOK, CountersOK, HistoryOK, counters, history
  <1>3. CASE AgentCallsTools(s)
    <2>1. PICK k \in 0..MaxAsks :
             /\ SaveNode(s, At("approve", [i \in 1..k |-> calls + i], {}))
             /\ calls' = calls + k
      BY <1>3 DEF AgentCallsTools
    <2>2. calls \in Nat /\ k \in Nat
      BY BoundsAssumption DEF TypeOK, CountersOK
    <2>3. At("approve", [i \in 1..k |-> calls + i], {}) \in Graph
      BY <2>2, NewCalls, AtType DEF Nodes
    <2>4. (DbOK /\ StreamsOK /\ StoppedAtAsk)'
      BY <1>3, <2>1, <2>3, SaveTyped DEF AgentCallsTools, Running
    <2>5. CountersOK'
      BY <1>3, <2>1, <2>2 DEF AgentCallsTools, TypeOK, CountersOK
    <2> QED  BY <1>1, <1>3, <2>4, <2>5 DEF AgentCallsTools, TypeOK, HistoryOK, history
  <1>4. CASE ApprovePasses(s)
    <2>1. graph[s].asks \in Seq(Nat)
      BY DEF TypeOK, StreamsOK, Graph
    <2>2. At("tools", <<>>, Kept(graph[s].asks, Answers(s))) \in Graph
      BY <2>1, KeptType, AtType, EmptySeq DEF Nodes
    <2>3. (DbOK /\ StreamsOK /\ StoppedAtAsk)'
      BY <1>4, <2>2, SaveTyped DEF ApprovePasses, Running
    <2> QED  BY <1>1, <1>4, <2>3 DEF ApprovePasses, TypeOK, CountersOK, HistoryOK, counters, history
  <1>5. CASE ApproveInterrupts(s)
    <2> DEFINE g == [graph[s] EXCEPT !.answers = Answers(s)]
    <2>1. g \in Graph /\ Len(g.answers) < Len(g.asks)
      BY <1>5, AnswersType DEF ApproveInterrupts, TypeOK, StreamsOK, Graph
    <2>2. /\ graph' = [graph EXCEPT ![s] = g] /\ ckpt' = g
          /\ input' = [input EXCEPT ![s] = "none"]
          /\ pc' = [pc EXCEPT ![s] = "interrupted"]
          /\ UNCHANGED <<rows, memory, seen, row, counters, history>>
      BY <1>5 DEF ApproveInterrupts, SaveNode, Goto
    <2> HIDE DEF g
    <2>3. DbOK' /\ StreamsOK'
      BY <2>1, <2>2 DEF TypeOK, DbOK, StreamsOK, Steps
    <2>4. StoppedAtAsk'
      BY <2>1, <2>2 DEF TypeOK, StreamsOK, StoppedAtAsk
    <2> QED  BY <1>1, <2>2, <2>3, <2>4 DEF TypeOK, CountersOK, HistoryOK, counters, history
  <1>6. CASE RunTools(s)
    <2>1. graph[s].kept \subseteq Nat
      BY DEF TypeOK, StreamsOK, Graph
    <2>2. HistoryOK'
      BY <1>6, <2>1 DEF RunTools, TypeOK, HistoryOK
    <2>3. StreamsOK' /\ StoppedAtAsk'
      BY <1>6 DEF RunTools, Goto, TypeOK, StreamsOK, StoppedAtAsk, Steps, db
    <2> QED  BY <1>1, <1>6, <2>2, <2>3 DEF RunTools, TypeOK, DbOK, CountersOK, db, counters
  <1>7. CASE SaveTools(s)
    <2>1. At("compact", <<>>, {}) \in Graph
      BY AtType, EmptySeq DEF Nodes
    <2>2. (DbOK /\ StreamsOK /\ StoppedAtAsk)'
      BY <1>7, <2>1, SaveTyped DEF SaveTools
    <2> QED  BY <1>1, <1>7, <2>2 DEF SaveTools, TypeOK, CountersOK, HistoryOK, counters, history
  <1>8. CASE CompactNode(s)
    <2>1. At("agent", <<>>, {}) \in Graph
      BY AtType, EmptySeq DEF Nodes
    <2>2. (DbOK /\ StreamsOK /\ StoppedAtAsk)'
      BY <1>8, <2>1, SaveTyped DEF CompactNode, Running
    <2> QED  BY <1>1, <1>8, <2>2 DEF CompactNode, TypeOK, CountersOK, HistoryOK, counters, history
  <1>9. CASE EndRun(s)
    <2>1. (StreamsOK /\ StoppedAtAsk)'
      BY <1>9, LeaveTyped DEF EndRun, db
    <2> QED  BY <1>1, <1>9, <2>1 DEF EndRun, TypeOK, DbOK, CountersOK, HistoryOK, db, counters, history
  <1> QED  BY <1>2, <1>3, <1>4, <1>5, <1>6, <1>7, <1>8, <1>9 DEF Node

\* Popping a row from _waiters leaves a table of rows.
LEMMA PopType ==
    ASSUME NEW n \in Nat, NEW a, waiter \in [Streams -> 0..n]
    PROVE  Pop(a) \in [Streams -> 0..n]
  BY DEF Pop

\* A stream that stops waiting resumes the graph with a decision.
LEMMA StopWaitingTyped ==
    ASSUME Typed, NEW s \in Streams, NEW d \in Decisions, StopWaiting(s, d)
    PROVE  Typed'
  <1> USE DEF Typed
  <1>1. Len(rows) \in Nat
    BY LenProperties DEF TypeOK, DbOK
  <1>2. MemoryOK'
    BY <1>1, PopType DEF StopWaiting, TypeOK, MemoryOK, db
  <1>3. StreamsOK' /\ StoppedAtAsk'
    BY DEF StopWaiting, Goto, TypeOK, StreamsOK, StoppedAtAsk, Steps, db
  <1> QED  BY <1>2, <1>3 DEF StopWaiting, TypeOK, DbOK, CountersOK, HistoryOK, db, counters, history

\* The steps of asking and waiting.
LEMMA WaitTyped ==
    ASSUME Typed, NEW s \in Streams, Wait(s)
    PROVE  Typed'
  <1> USE DEF Typed
  <1>1. Len(rows) \in Nat
    BY LenProperties DEF TypeOK, DbOK
  <1>2. CASE CreatePending(s)
    <2> DEFINE r == [call |-> graph[s].asks[Len(graph[s].answers) + 1], decision |-> "none"]
    <2>1. /\ graph[s].asks \in Seq(Nat) /\ Len(graph[s].answers) \in Nat
          /\ Len(graph[s].answers) < Len(graph[s].asks)
      BY <1>2, LenProperties DEF CreatePending, TypeOK, StreamsOK, StoppedAtAsk, Graph
    <2>2. graph[s].asks[Len(graph[s].answers) + 1] \in Nat
      <3>1. Len(graph[s].answers) + 1 \in 1..Len(graph[s].asks)
        BY <2>1, LenProperties
      <3> QED  BY <2>1, <3>1, ElementOfSeq
    <2>3. r \in [call : Nat, decision : Decisions \cup {"none"}]
      BY <2>2
    <2>4. /\ rows' = Append(rows, r)
          /\ row' = [row EXCEPT ![s] = Len(rows) + 1]
          /\ pc' = [pc EXCEPT ![s] = "asked"]
          /\ UNCHANGED <<ckpt, memory, seen, input, graph, counters, history>>
      BY <1>2 DEF CreatePending, Goto
    <2> HIDE DEF r
    <2>5. rows' \in Seq([call : Nat, decision : Decisions \cup {"none"}])
          /\ Len(rows') = Len(rows) + 1 /\ DOMAIN rows \subseteq DOMAIN rows'
      BY <2>3, <2>4, AppendProperties, LenProperties DEF TypeOK, DbOK
    <2>6. DbOK' /\ MemoryOK'
      BY <1>1, <2>4, <2>5 DEF TypeOK, DbOK, MemoryOK, memory
    <2>7. StreamsOK' /\ StoppedAtAsk'
      BY <1>1, <2>4, <2>5 DEF TypeOK, StreamsOK, StoppedAtAsk, Steps
    <2> QED  BY <2>4, <2>6, <2>7 DEF TypeOK, CountersOK, HistoryOK, counters, history
  <1>3. CASE RegisterWaiter(s)
    <2>1. MemoryOK'
      BY <1>1, <1>3, PopType DEF RegisterWaiter, TypeOK, MemoryOK, StreamsOK, db
    <2>2. StreamsOK' /\ StoppedAtAsk'
      BY <1>3 DEF RegisterWaiter, Goto, TypeOK, StreamsOK, StoppedAtAsk, Steps, db
    <2> QED  BY <1>3, <2>1, <2>2
             DEF RegisterWaiter, TypeOK, DbOK, CountersOK, HistoryOK, db, counters, history
  <1>4. CASE FutureWakes(s)
    <2>1. fut[s] \in Decisions
      BY <1>4 DEF FutureWakes, TypeOK, MemoryOK
    <2> QED  BY <1>4, <2>1, StopWaitingTyped DEF FutureWakes
  <1>5. CASE PollFinds(s)
    <2>1. row[s] \in 1..Len(rows)
      BY <1>1, <1>5 DEF PollFinds, TypeOK, StreamsOK
    <2>2. rows[row[s]] \in [call : Nat, decision : Decisions \cup {"none"}]
      BY <2>1, ElementOfSeq DEF TypeOK, DbOK
    <2> QED  BY <1>5, <2>2, StopWaitingTyped DEF PollFinds
  <1> QED  BY <1>2, <1>3, <1>4, <1>5 DEF Wait

\* The user's answer changes the decision of a row and nothing about its shape.
LEMMA ResolveTyped ==
    ASSUME Typed, NEW a \in DOMAIN rows, NEW d \in Decisions, Resolve(a, d)
    PROVE  Typed'
  <1> USE DEF Typed
  <1>1. /\ rows \in Seq([call : Nat, decision : Decisions \cup {"none"}])
        /\ a \in 1..Len(rows) /\ Len(rows) \in Nat
    BY LenProperties DEF TypeOK, DbOK
  <1>2. rows[a] \in [call : Nat, decision : Decisions \cup {"none"}]
    BY <1>1, ElementOfSeq
  <1> DEFINE r == [rows[a] EXCEPT !.decision = d]
  <1>3. r \in [call : Nat, decision : Decisions \cup {"none"}]
    BY <1>2
  <1>4. rows' = [rows EXCEPT ![a] = r]
    BY DEF Resolve
  <1> HIDE DEF r
  <1>5. /\ rows' \in Seq([call : Nat, decision : Decisions \cup {"none"}])
        /\ Len(rows') = Len(rows) /\ DOMAIN rows' = DOMAIN rows
    BY <1>1, <1>3, <1>4, ExceptSeq, LenProperties
  <1>6. DbOK'
    BY <1>5 DEF Resolve, TypeOK, DbOK
  <1>7. MemoryOK'
    BY <1>1, <1>5 DEF Resolve, TypeOK, MemoryOK
  <1>8. StreamsOK' /\ StoppedAtAsk'
    BY <1>1, <1>5 DEF Resolve, TypeOK, StreamsOK, StoppedAtAsk, locals
  <1>9. CountersOK' /\ HistoryOK'
    BY <1>2 DEF Resolve, TypeOK, CountersOK, HistoryOK
  <1> QED  BY <1>6, <1>7, <1>8, <1>9 DEF TypeOK

\* Waking takes futures out and sets the result of a waiting one.
LEMMA WakeTyped ==
    ASSUME Typed, NEW w \in wakes, Wake(w)
    PROVE  Typed'
  <1> USE DEF Typed
  <1>1. Len(rows) \in Nat
    BY LenProperties DEF TypeOK, DbOK
  <1>2. MemoryOK'
    BY <1>1, PopType DEF Wake, TypeOK, MemoryOK, db
  <1> QED  BY <1>2 DEF Wake, TypeOK, DbOK, StreamsOK, StoppedAtAsk, CountersOK, HistoryOK,
                       db, locals, counters, history

\* A restart leaves the initial values in memory and the tables as they are.
LEMMA RestartTyped == Typed /\ Restart => Typed'
  <1> SUFFICES ASSUME Typed, Restart PROVE Typed'
    OBVIOUS
  <1> USE DEF Typed
  <1>1. Len(rows) \in Nat
    BY LenProperties DEF TypeOK, DbOK
  <1>2. DbOK' /\ MemoryOK'
    BY <1>1 DEF Restart, TypeOK, DbOK, MemoryOK, db
  <1>3. StreamsOK' /\ StoppedAtAsk'
    BY <1>1, EndedType DEF Restart, TypeOK, StreamsOK, StoppedAtAsk, Steps, db
  <1> QED  BY <1>2, <1>3 DEF Restart, TypeOK, CountersOK, HistoryOK, history

\* A stream that dies leaves the initial values in its own variables.
LEMMA CutTyped ==
    ASSUME Typed, NEW s \in Streams, Cut(s)
    PROVE  Typed'
  <1>1. (StreamsOK /\ StoppedAtAsk)'
    BY LeaveTyped DEF Cut, db
  <1> QED  BY <1>1 DEF Typed, Cut, TypeOK, DbOK, MemoryOK, CountersOK, HistoryOK, db, memory, history

\* The initial state has its types.
LEMMA InitTyped == Init => Typed
  <1> SUFFICES ASSUME Init PROVE Typed
    OBVIOUS
  <1>1. Len(<<>>) = 0 /\ <<>> \in Seq([call : Nat, decision : Decisions \cup {"none"}])
    BY EmptySeq
  <1>2. DbOK /\ MemoryOK
    BY <1>1, EndedType DEF Init, DbOK, MemoryOK
  <1>3. StreamsOK /\ StoppedAtAsk
    BY <1>1, EndedType DEF Init, StreamsOK, StoppedAtAsk, Steps
  <1> QED  BY <1>2, <1>3 DEF Init, Typed, TypeOK, CountersOK, HistoryOK

\* Every step keeps the types.
LEMMA TypedStep == Typed /\ [Next]_vars => Typed'
  <1> SUFFICES ASSUME Typed, [Next]_vars PROVE Typed'
    OBVIOUS
  <1>1. CASE UNCHANGED vars
    BY <1>1 DEF Typed, TypeOK, DbOK, MemoryOK, StreamsOK, StoppedAtAsk, CountersOK, HistoryOK,
                vars, db, memory, locals, counters, history
  <1>2. CASE Next
    <2>1. ASSUME NEW s \in Streams, StartChat(s) \/ Serve(s) \/ Cut(s)
          PROVE  Typed'
      BY <2>1, AttachTyped, NodeTyped, WaitTyped, CutTyped DEF Serve
    <2>2. ASSUME NEW a \in DOMAIN rows, NEW d \in Decisions, Resolve(a, d)
          PROVE  Typed'
      BY <2>2, ResolveTyped
    <2>3. ASSUME NEW w \in wakes, Wake(w)
          PROVE  Typed'
      BY <2>3, WakeTyped
    <2> QED  BY <1>2, <2>1, <2>2, <2>3, RestartTyped DEF Next
  <1> QED  BY <1>1, <1>2

\* The types hold in every reachable state.
LEMMA AlwaysTyped == Spec => []Typed
  BY InitTyped, TypedStep, PTL DEF Spec

\* Every variable keeps its type; a stream that waits has a row to wait for, and
\* every future and wake-up is about a row that exists.
THEOREM TypeCorrect == Spec => []TypeOK
  BY AlwaysTyped, PTL DEF Typed

-----------------------------------------------------------------------------
(***************************************************************************)
(* Deny by default.  As long as the user has not allowed anything there is *)
(* no "allow" anywhere a decision can be: in a row, a future, a wake-up, a *)
(* resume value, or the answers of a checkpoint; so approve keeps no call. *)
(***************************************************************************)

\* The user has allowed some call.
SomeAllowed == \E p \in posted : p.decision = "allow"

\* A checkpoint without an allowed call.
NothingAllowedIn(g) ==
    /\ \A i \in DOMAIN g.answers : g.answers[i] # "allow"
    /\ g.kept = {}

\* No decision under way is an "allow".
NothingAllowed ==
    /\ \A a \in DOMAIN rows : rows[a].decision # "allow"
    /\ \A w \in wakes : w.decision # "allow"
    /\ \A s \in Streams : fut[s] # "allow" /\ input[s] # "allow"
    /\ NothingAllowedIn(ckpt)
    /\ \A s \in Streams : NothingAllowedIn(graph[s])
    /\ ran = {}

AllowsAreTraced == SomeAllowed \/ NothingAllowed

\* Verdicts are never withdrawn.
LEMMA VerdictsStay == [Next]_vars => posted \subseteq posted'
  BY DEF Next, StartChat, Serve, LoadState, Attach, AcceptMessage, RecordNotFound,
         AskAgain, ResumeDecided, StartRun, Node, AgentEnds, AgentCallsTools,
         ApprovePasses, ApproveInterrupts, RunTools, SaveTools, CompactNode, EndRun,
         Wait, CreatePending, RegisterWaiter, FutureWakes, PollFinds, StopWaiting,
         Cut, Restart, Resolve, Wake, vars, history

\* A checkpoint made by At has kept no call unless it is told to.
LEMMA AtAllowsNothing ==
    ASSUME NEW node, NEW asks
    PROVE  NothingAllowedIn(At(node, asks, {}))
  BY DEF At, NothingAllowedIn

\* A graph that has ended holds no permission.
LEMMA EndedAllowsNothing == NothingAllowedIn(Ended)
  BY AtAllowsNothing DEF Ended

\* What approve sees and keeps, as long as nothing is allowed.
LEMMA ApproveAllowsNothing ==
    ASSUME Typed, NothingAllowed, NEW s \in Streams
    PROVE  /\ \A i \in DOMAIN Answers(s) : Answers(s)[i] # "allow"
           /\ Len(Answers(s)) = Len(graph[s].asks) => Kept(graph[s].asks, Answers(s)) = {}
  <1>1. /\ graph[s].answers \in Seq(Decisions)
        /\ graph[s].asks \in Seq(Nat)
    BY DEF Typed, TypeOK, StreamsOK, Graph
  <1>2. /\ \A i \in DOMAIN graph[s].answers : graph[s].answers[i] # "allow"
        /\ input[s] # "allow"
    BY DEF NothingAllowed, NothingAllowedIn
  <1>3. \A i \in DOMAIN Answers(s) : Answers(s)[i] # "allow"
    <2>1. CASE Answers(s) = graph[s].answers
      BY <1>2, <2>1
    <2>2. CASE /\ Answers(s) = Append(graph[s].answers, input[s])
               /\ input[s] \in Decisions
      BY <1>1, <1>2, <2>2, AppendProperties, LenProperties
    <2> QED  BY <2>1, <2>2, AnswersType DEF Typed
  <1>4. ASSUME Len(Answers(s)) = Len(graph[s].asks)
        PROVE  Kept(graph[s].asks, Answers(s)) = {}
    <2>1. DOMAIN graph[s].asks = DOMAIN Answers(s)
      BY <1>1, <1>4, AnswersType, LenProperties DEF Typed
    <2> QED  BY <1>3, <2>1 DEF Kept
  <1> QED  BY <1>3, <1>4

\* Saving a checkpoint without an allowed call.
LEMMA SaveAllowsNothing ==
    ASSUME Typed, NothingAllowed, NEW s \in Streams, NEW g, SaveNode(s, g), NothingAllowedIn(g),
           UNCHANGED <<rows, memory, ran>>
    PROVE  NothingAllowed'
  BY DEF Typed, TypeOK, StreamsOK, NothingAllowed, NothingAllowedIn, SaveNode, memory

\* A stream that leaves takes its decisions with it.
LEMMA LeaveAllowsNothing ==
    ASSUME Typed, NothingAllowed, NEW s \in Streams, Leave(s), UNCHANGED <<db, memory, ran>>
    PROVE  NothingAllowed'
  BY EndedAllowsNothing
     DEF Typed, TypeOK, StreamsOK, NothingAllowed, NothingAllowedIn, Leave, db, memory

\* As long as nobody has allowed anything, no step of the server creates a permission.
LEMMA ServeAllowsNothing ==
    ASSUME Typed, NothingAllowed, NEW s \in Streams, Serve(s)
    PROVE  NothingAllowed'
  <1> USE DEF Typed
  <1>1. CASE LoadState(s)
    BY <1>1 DEF LoadState, NothingAllowed, NothingAllowedIn, db, memory, history
  <1>2. CASE AcceptMessage(s)
    BY <1>2 DEF AcceptMessage, TypeOK, StreamsOK, NothingAllowed, NothingAllowedIn, db, memory, history
  <1>3. CASE RecordNotFound(s) \/ EndRun(s)
    BY <1>3, LeaveAllowsNothing DEF RecordNotFound, EndRun, history
  <1>4. CASE AskAgain(s)
    BY <1>4 DEF AskAgain, NothingAllowed, NothingAllowedIn, db, memory, history
  <1>5. CASE ResumeDecided(s)
    <2>1. Len(rows) \in DOMAIN rows
      BY <1>5, LastRow, LenProperties DEF ResumeDecided, TypeOK, DbOK
    <2> QED  BY <1>5, <2>1
             DEF ResumeDecided, TypeOK, StreamsOK, NothingAllowed, NothingAllowedIn, db, memory, history
  <1>6. CASE StartRun(s)
    <2>1. PICK g : /\ graph' = [graph EXCEPT ![s] = g] /\ ckpt' = g
                   /\ g = ckpt \/ g = At("agent", <<>>, {})
      BY <1>6 DEF StartRun
    <2>2. NothingAllowedIn(g)
      BY <2>1, AtAllowsNothing DEF NothingAllowed
    <2> QED  BY <1>6, <2>1, <2>2
             DEF StartRun, TypeOK, StreamsOK, NothingAllowed, NothingAllowedIn, memory, history
  <1>7. CASE AgentEnds(s)
    BY <1>7, EndedAllowsNothing, SaveAllowsNothing DEF AgentEnds, history
  <1>8. CASE AgentCallsTools(s)
    BY <1>8, AtAllowsNothing, SaveAllowsNothing DEF AgentCallsTools, history
  <1>9. CASE ApprovePasses(s)
    BY <1>9, ApproveAllowsNothing, AtAllowsNothing, SaveAllowsNothing DEF ApprovePasses, history
  <1>10. CASE ApproveInterrupts(s)
    <2> DEFINE g == [graph[s] EXCEPT !.answers = Answers(s)]
    <2>1. g.answers = Answers(s) /\ g.kept = graph[s].kept
      BY DEF TypeOK, StreamsOK, Graph
    <2>2. NothingAllowedIn(g)
      BY <2>1, ApproveAllowsNothing DEF NothingAllowed, NothingAllowedIn
    <2> QED  BY <1>10, <2>2, SaveAllowsNothing DEF ApproveInterrupts, history
  <1>11. CASE RunTools(s)
    BY <1>11 DEF RunTools, NothingAllowed, NothingAllowedIn, db, memory
  <1>12. CASE SaveTools(s) \/ CompactNode(s)
    BY <1>12, AtAllowsNothing, SaveAllowsNothing DEF SaveTools, CompactNode, history
  <1>13. CASE CreatePending(s)
    BY <1>13, AppendProperties, LenProperties
       DEF CreatePending, TypeOK, DbOK, NothingAllowed, NothingAllowedIn, memory, history
  <1>14. CASE RegisterWaiter(s)
    BY <1>14 DEF RegisterWaiter, TypeOK, MemoryOK, NothingAllowed, NothingAllowedIn, db, history
  <1>15. CASE FutureWakes(s) \/ PollFinds(s)
    <2>1. PICK d : StopWaiting(s, d) /\ d # "allow"
      <3>1. CASE FutureWakes(s)
        BY <3>1 DEF FutureWakes, NothingAllowed
      <3>2. CASE PollFinds(s)
        <4>1. row[s] \in DOMAIN rows
          BY <3>2, LenProperties DEF PollFinds, TypeOK, DbOK, StreamsOK
        <4> QED  BY <3>2, <4>1 DEF PollFinds, NothingAllowed
      <3> QED  BY <1>15, <3>1, <3>2
    <2> QED  BY <2>1 DEF StopWaiting, TypeOK, MemoryOK, StreamsOK, NothingAllowed,
                         NothingAllowedIn, db, history
  <1> QED  BY <1>1, <1>2, <1>3, <1>4, <1>5, <1>6, <1>7, <1>8, <1>9, <1>10, <1>11, <1>12,
              <1>13, <1>14, <1>15 DEF Serve, Attach, Node, Wait

\* Every step keeps the trace from permissions to verdicts.
LEMMA TracedStep == Typed /\ AllowsAreTraced /\ [Next]_vars => AllowsAreTraced'
  <1> SUFFICES ASSUME Typed, AllowsAreTraced, [Next]_vars PROVE AllowsAreTraced'
    OBVIOUS
  <1>1. CASE SomeAllowed
    BY <1>1, VerdictsStay DEF SomeAllowed, AllowsAreTraced
  <1>2. CASE NothingAllowed
    <2>1. ASSUME NEW s \in Streams, StartChat(s)
          PROVE  NothingAllowed'
      BY <1>2, <2>1 DEF StartChat, NothingAllowed, NothingAllowedIn, db, memory, history
    <2>2. ASSUME NEW s \in Streams, Cut(s)
          PROVE  NothingAllowed'
      BY <1>2, <2>2, LeaveAllowsNothing DEF Cut, history
    <2>3. ASSUME NEW a \in DOMAIN rows, NEW d \in Decisions, Resolve(a, d)
          PROVE  AllowsAreTraced'
      <3>1. CASE d = "allow"
        <4>1. [call |-> rows[a].call, decision |-> "allow"] \in posted'
          BY <2>3, <3>1 DEF Resolve
        <4> QED  BY <4>1 DEF AllowsAreTraced, SomeAllowed
      <3>2. CASE d # "allow"
        <4>1. \A b \in DOMAIN rows' : rows'[b].decision # "allow"
          <5>1. rows' = [rows EXCEPT ![a].decision = d]
            BY <2>3 DEF Resolve
          <5>2. rows[a] \in [call : Nat, decision : Decisions \cup {"none"}]
            <6>1. rows \in Seq([call : Nat, decision : Decisions \cup {"none"}])
                  /\ a \in 1..Len(rows)
              BY LenProperties DEF Typed, TypeOK, DbOK
            <6> QED  BY <6>1, ElementOfSeq
          <5> QED  BY <1>2, <3>2, <5>1, <5>2 DEF NothingAllowed
        <4>2. NothingAllowed'
          BY <1>2, <2>3, <3>2, <4>1 DEF Resolve, NothingAllowed, NothingAllowedIn, locals
        <4> QED  BY <4>2 DEF AllowsAreTraced
      <3> QED  BY <3>1, <3>2
    <2>4. ASSUME NEW w \in wakes, Wake(w)
          PROVE  NothingAllowed'
      BY <1>2, <2>4 DEF Wake, Typed, TypeOK, MemoryOK, NothingAllowed, NothingAllowedIn,
                        db, locals, history
    <2>5. CASE Restart
      BY <1>2, <2>5, EndedAllowsNothing
         DEF Restart, AllowsAreTraced, NothingAllowed, NothingAllowedIn, db, history
    <2>6. CASE UNCHANGED vars
      BY <1>2, <2>6 DEF AllowsAreTraced, vars, db, memory, locals, history, NothingAllowed, NothingAllowedIn
    <2> QED  BY <1>2, <2>1, <2>2, <2>3, <2>4, <2>5, <2>6, ServeAllowsNothing
             DEF Next, AllowsAreTraced
  <1> QED  BY <1>1, <1>2 DEF AllowsAreTraced

\* Whatever dies, however many streams share the thread and however often a user
\* changes an answer: no ask call runs before the user has allowed one.
THEOREM DeniedByDefault == Spec => []DenyByDefault
  <1>1. Init => AllowsAreTraced
    BY EndedAllowsNothing DEF Init, AllowsAreTraced, NothingAllowed
  <1>2. AllowsAreTraced => DenyByDefault
    BY DEF AllowsAreTraced, NothingAllowed, SomeAllowed, DenyByDefault
  <1> QED  BY <1>1, <1>2, AlwaysTyped, TracedStep, PTL DEF Spec

-----------------------------------------------------------------------------
(***************************************************************************)
(* Only allowed calls run: for a thread served by one stream at a time     *)
(* that does not die between the checkpoint that waits at approve and the  *)
(* row of its approval.  Both conditions are needed: the run chat_stale    *)
(* drops the second, and with two streams the first consumes a decision    *)
(* that the second, still on its way, resumes a later interrupt with.      *)
(***************************************************************************)

\* The conditions: at most one stream, and no death at approve or before the row.
OneStream == \A s, t \in Streams : s = t
SafeCuts == CutPoints \cap {"approve", "interrupted"} = {}

\* The user has given this verdict on call c.
Given(c, d) == [call |-> c, decision |-> d] \in posted

\* The thread's checkpoint waits at approve for an answer about NextAsk.
Open == ckpt.next = "approve" /\ Len(ckpt.answers) < Len(ckpt.asks)
NextAsk == ckpt.asks[Len(ckpt.answers) + 1]

\* Decisions in the table and on their way to a future are the user's.
RowsBacked ==
    /\ \A a \in DOMAIN rows :
          rows[a].decision # "none" => Given(rows[a].call, rows[a].decision)
    /\ \A w \in wakes : Given(rows[w.row].call, w.decision)

\* So are the answers and the kept calls of the checkpoint, and what has run.
CheckpointBacked ==
    /\ \A i \in DOMAIN ckpt.answers :
          /\ i \in DOMAIN ckpt.asks
          /\ ckpt.answers[i] = "allow" => Given(ckpt.asks[i], "allow")
    /\ \A c \in ckpt.kept : Given(c, "allow")
    /\ OnlyAllowedCallsRun

\* A running stream works on the thread's checkpoint.
RunsOnCheckpoint ==
    \A s \in Streams : pc[s] \in {"run", "ran", "interrupted"} => graph[s] = ckpt

\* The latest row is about the call the checkpoint waits for, unless a stream is
\* about to ask.
LatestIsNextAsk ==
    Open /\ (\A s \in Streams : pc[s] \notin {"run", "interrupted"})
       => rows # <<>> /\ rows[Len(rows)].call = NextAsk

\* A stream that waits does so for the latest row, with a future of its own.
WaitsForLatest ==
    \A s \in Streams :
       /\ pc[s] \in {"asked", "wait"} => row[s] = Len(rows)
       /\ pc[s] = "wait" =>
             /\ waiter[s] \in {0, row[s]}
             /\ fut[s] # "none" => Given(rows[row[s]].call, fut[s])

\* A decision a stream resumes with is the user's verdict on the awaited call.
ResumeBacked ==
    \A s \in Streams :
       pc[s] \in {"start", "run"} /\ input[s] \in Decisions /\ Open
          => Given(NextAsk, input[s])

Backed ==
    /\ RowsBacked /\ CheckpointBacked /\ RunsOnCheckpoint
    /\ LatestIsNextAsk /\ WaitsForLatest /\ ResumeBacked

\* The verdicts given stay given.
LEMMA GivenStays ==
    ASSUME NEW c, NEW d, posted \subseteq posted', Given(c, d)
    PROVE  Given(c, d)'
  BY DEF Given

\* The steps before the graph runs.
LEMMA AttachBacked ==
    ASSUME OneStream, Typed, Backed, NEW s \in Streams,
           StartChat(s) \/ LoadState(s) \/ Attach(s) \/ StartRun(s)
    PROVE  Backed'
  <1> USE DEF Backed
  <1>1. \A t \in Streams : t = s
    BY DEF OneStream
  <1>2. CASE StartChat(s) \/ LoadState(s) \/ AcceptMessage(s) \/ RecordNotFound(s) \/ AskAgain(s)
    <2>1. RowsBacked' /\ CheckpointBacked'
      BY <1>2 DEF StartChat, LoadState, AcceptMessage, RecordNotFound, AskAgain, RowsBacked,
                  CheckpointBacked, OnlyAllowedCallsRun, Given, db, memory, history
    <2>2. RunsOnCheckpoint' /\ LatestIsNextAsk' /\ ResumeBacked'
      BY <1>1, <1>2 DEF StartChat, LoadState, AcceptMessage, RecordNotFound, AskAgain, Leave, Goto,
                  RunsOnCheckpoint, LatestIsNextAsk, ResumeBacked, Open, NextAsk, Given,
                  Typed, TypeOK, StreamsOK, Decisions, db, memory, history
    <2>3. WaitsForLatest'
      BY <1>1, <1>2 DEF StartChat, LoadState, AcceptMessage, RecordNotFound, AskAgain, Leave, Goto,
                  WaitsForLatest, Given, Typed, TypeOK, StreamsOK, db, memory, history
    <2> QED  BY <2>1, <2>2, <2>3
  <1>3. CASE ResumeDecided(s)
    <2>1. RowsBacked' /\ CheckpointBacked'
      BY <1>3 DEF ResumeDecided, RowsBacked, CheckpointBacked, OnlyAllowedCallsRun, Given,
                  db, memory, history
    <2>2. RunsOnCheckpoint' /\ LatestIsNextAsk' /\ WaitsForLatest'
      BY <1>1, <1>3 DEF ResumeDecided, Goto, RunsOnCheckpoint, LatestIsNextAsk, WaitsForLatest,
                  Open, NextAsk, Given, Typed, TypeOK, StreamsOK, db, memory, history
    <2>3. ASSUME Open PROVE Given(NextAsk, rows[Len(rows)].decision)
      <3>1. Len(rows) \in DOMAIN rows
        BY <1>3, LastRow, LenProperties DEF ResumeDecided, Typed, TypeOK, DbOK
      <3>2. rows[Len(rows)].call = NextAsk
        BY <1>1, <1>3, <2>3 DEF LatestIsNextAsk, ResumeDecided
      <3> QED  BY <1>3, <3>1, <3>2 DEF RowsBacked, ResumeDecided
    <2>4. ResumeBacked'
      BY <1>1, <1>3, <2>3 DEF ResumeDecided, Goto, ResumeBacked, Open, NextAsk, Given,
                  Typed, TypeOK, StreamsOK, db, history
    <2> QED  BY <2>1, <2>2, <2>4
  <1>4. CASE StartRun(s)
    <2>1. CASE input[s] = "message"
      <3>1. /\ ckpt' = At("agent", <<>>, {})
            /\ graph' = [graph EXCEPT ![s] = At("agent", <<>>, {})]
        BY <1>4, <2>1 DEF StartRun
      <3>2. ~Open'
        BY <3>1 DEF Open, At
      <3>3. CheckpointBacked'
        BY <1>4, <3>1 DEF StartRun, CheckpointBacked, OnlyAllowedCallsRun, Given, At, history
      <3>4. RowsBacked' /\ RunsOnCheckpoint' /\ WaitsForLatest'
        BY <1>1, <1>4, <3>1 DEF StartRun, Goto, RowsBacked, RunsOnCheckpoint, WaitsForLatest,
                    Given, Typed, TypeOK, StreamsOK, memory, history
      <3> QED  BY <3>2, <3>3, <3>4 DEF LatestIsNextAsk, ResumeBacked
    <2>2. CASE input[s] # "message"
      <3>1. ckpt' = ckpt /\ graph' = [graph EXCEPT ![s] = ckpt]
        BY <1>4, <2>2 DEF StartRun
      <3>2. RowsBacked' /\ CheckpointBacked'
        BY <1>4, <3>1 DEF StartRun, RowsBacked, CheckpointBacked, OnlyAllowedCallsRun, Given,
                    memory, history
      <3>3. RunsOnCheckpoint' /\ LatestIsNextAsk' /\ WaitsForLatest' /\ ResumeBacked'
        BY <1>1, <1>4, <3>1 DEF StartRun, Goto, RunsOnCheckpoint, LatestIsNextAsk, WaitsForLatest,
                    ResumeBacked, Open, NextAsk, Given, Typed, TypeOK, StreamsOK, memory, history
      <3> QED  BY <3>2, <3>3
    <2> QED  BY <2>1, <2>2
  <1> QED  BY <1>2, <1>3, <1>4 DEF Attach

\* A checkpoint whose answers and kept calls are the user's.
GraphBacked(g) ==
    /\ \A i \in DOMAIN g.answers :
          /\ i \in DOMAIN g.asks
          /\ g.answers[i] = "allow" => Given(g.asks[i], "allow")
    /\ \A c \in g.kept : Given(c, "allow")

\* A checkpoint without answers or kept calls is backed.
LEMMA AtBacked ==
    ASSUME NEW node, NEW asks
    PROVE  GraphBacked(At(node, asks, {}))
  BY DEF At, GraphBacked

\* Saving such a checkpoint, in a stream that goes on running.
LEMMA SaveBacked ==
    ASSUME OneStream, Typed, Backed, NEW s \in Streams, NEW g, SaveNode(s, g), GraphBacked(g),
           pc[s] \in {"run", "ran"}, pc'[s] \in {"run", "interrupted"},
           pc' \in [Streams -> Steps], UNCHANGED <<rows, memory, row, posted, ran>>
    PROVE  Backed'
  <1>1. \A t \in Streams : t = s
    BY DEF OneStream
  <1>2. RowsBacked' /\ CheckpointBacked'
    BY DEF Backed, SaveNode, RowsBacked, CheckpointBacked, GraphBacked, OnlyAllowedCallsRun,
           Given, memory
  <1>3. RunsOnCheckpoint' /\ LatestIsNextAsk' /\ WaitsForLatest' /\ ResumeBacked'
    BY <1>1 DEF Backed, SaveNode, RunsOnCheckpoint, LatestIsNextAsk, WaitsForLatest, ResumeBacked,
           Typed, TypeOK, StreamsOK, Decisions
  <1> QED  BY <1>2, <1>3 DEF Backed

\* Every "allow" approve_node sees is the user's verdict on the call it stands for.
LEMMA AnswersBacked ==
    ASSUME Typed, Backed, NEW s \in Streams, Running(s, "approve")
    PROVE  \A i \in DOMAIN Answers(s) :
              /\ i \in DOMAIN graph[s].asks
              /\ Answers(s)[i] = "allow" => Given(graph[s].asks[i], "allow")
  <1>1. /\ graph[s] = ckpt
        /\ ckpt.answers \in Seq(Decisions) /\ ckpt.asks \in Seq(Nat)
    BY DEF Running, Backed, RunsOnCheckpoint, Typed, TypeOK, DbOK, Graph
  <1>2. CASE Answers(s) = graph[s].answers
    BY <1>1, <1>2 DEF Backed, CheckpointBacked
  <1>3. CASE Answers(s) # graph[s].answers
    <2>1. /\ input[s] \in Decisions /\ Len(ckpt.answers) < Len(ckpt.asks)
          /\ Answers(s) = Append(ckpt.answers, input[s])
      BY <1>1, <1>3 DEF Answers
    <2>2. Given(NextAsk, input[s])
      BY <1>1, <2>1 DEF Running, Backed, ResumeBacked, Open
    <2> DEFINE n == Len(ckpt.answers) + 1
    <2>3. /\ DOMAIN Answers(s) = DOMAIN ckpt.answers \cup {n}
          /\ n \in DOMAIN ckpt.asks /\ Answers(s)[n] = input[s]
          /\ \A i \in DOMAIN ckpt.answers : Answers(s)[i] = ckpt.answers[i]
      BY <1>1, <2>1, AppendProperties, LenProperties
    <2> QED  BY <1>1, <2>2, <2>3 DEF Backed, CheckpointBacked, NextAsk
  <1> QED  BY <1>2, <1>3

\* The steps of the graph.
LEMMA NodeBacked ==
    ASSUME OneStream, Typed, Typed', Backed, NEW s \in Streams, Node(s)
    PROVE  Backed'
  <1>1. \A t \in Streams : t = s
    BY DEF OneStream
  <1>2. pc' \in [Streams -> Steps] /\ pc \in [Streams -> Steps]
    BY DEF Typed, TypeOK, StreamsOK
  <1>3. CASE AgentEnds(s) \/ AgentCallsTools(s) \/ SaveTools(s) \/ CompactNode(s)
    <2>1. PICK node, asks : SaveNode(s, At(node, asks, {}))
      BY <1>3 DEF AgentEnds, AgentCallsTools, SaveTools, CompactNode, Ended
    <2>2. /\ pc[s] \in {"run", "ran"} /\ pc'[s] = "run"
          /\ UNCHANGED <<rows, memory, row, posted, ran>>
      BY <1>2, <1>3 DEF AgentEnds, AgentCallsTools, SaveTools, CompactNode, Running, Goto, history
    <2> QED  BY <1>2, <2>1, <2>2, AtBacked, SaveBacked
  <1>4. CASE ApprovePasses(s)
    <2>1. graph[s].asks \in Seq(Nat) /\ Answers(s) \in Seq(Decisions)
      BY AnswersType DEF Typed, TypeOK, StreamsOK, Graph
    <2>2. DOMAIN graph[s].asks = DOMAIN Answers(s)
      BY <1>4, <2>1, LenProperties DEF ApprovePasses
    <2>3. \A c \in Kept(graph[s].asks, Answers(s)) : Given(c, "allow")
      BY <1>4, <2>2, AnswersBacked DEF ApprovePasses, Kept
    <2>4. GraphBacked(At("tools", <<>>, Kept(graph[s].asks, Answers(s))))
      BY <2>3 DEF GraphBacked, At
    <2> QED  BY <1>2, <1>4, <2>4, SaveBacked DEF ApprovePasses, Running, history
  <1>5. CASE ApproveInterrupts(s)
    <2> DEFINE g == [graph[s] EXCEPT !.answers = Answers(s)]
    <2>1. g.answers = Answers(s) /\ g.asks = graph[s].asks /\ g.kept = graph[s].kept
      BY DEF Typed, TypeOK, StreamsOK, Graph
    <2>2. graph[s] = ckpt
      BY <1>5 DEF ApproveInterrupts, Running, Backed, RunsOnCheckpoint
    <2>3. GraphBacked(g)
      BY <1>5, <2>1, <2>2, AnswersBacked
         DEF ApproveInterrupts, GraphBacked, Backed, CheckpointBacked
    <2>4. pc'[s] = "interrupted"
      BY <1>2, <1>5 DEF ApproveInterrupts, Goto
    <2> QED  BY <1>2, <1>5, <2>3, <2>4, SaveBacked DEF ApproveInterrupts, Running, history
  <1>6. CASE RunTools(s)
    <2>1. graph[s] = ckpt
      BY <1>6 DEF RunTools, Running, Backed, RunsOnCheckpoint
    <2>2. RowsBacked' /\ CheckpointBacked'
      BY <1>6, <2>1 DEF RunTools, Backed, RowsBacked, CheckpointBacked, OnlyAllowedCallsRun,
                        Given, db, memory
    <2>3. ~Open
      BY <1>6, <2>1 DEF RunTools, Running, Open
    <2>4. RunsOnCheckpoint' /\ LatestIsNextAsk' /\ WaitsForLatest' /\ ResumeBacked'
      BY <1>1, <1>2, <1>6, <2>1, <2>3 DEF RunTools, Goto, Backed, RunsOnCheckpoint,
         LatestIsNextAsk, WaitsForLatest, ResumeBacked, Open, db
    <2> QED  BY <2>2, <2>4 DEF Backed
  <1>7. CASE EndRun(s)
    <2>1. ~Open
      BY <1>7 DEF EndRun, Running, Backed, RunsOnCheckpoint, Open
    <2>2. RowsBacked' /\ CheckpointBacked'
      BY <1>7 DEF EndRun, Backed, RowsBacked, CheckpointBacked, OnlyAllowedCallsRun, Given,
                  db, memory, history
    <2>3. RunsOnCheckpoint' /\ LatestIsNextAsk' /\ WaitsForLatest' /\ ResumeBacked'
      BY <1>1, <1>2, <1>7, <2>1 DEF EndRun, Leave, Goto, RunsOnCheckpoint, LatestIsNextAsk,
         WaitsForLatest, ResumeBacked, Open, db
    <2> QED  BY <2>2, <2>3 DEF Backed
  <1> QED  BY <1>3, <1>4, <1>5, <1>6, <1>7 DEF Node

\* A stream that stops waiting has the user's verdict on the call it asked about.
LEMMA StopWaitingBacked ==
    ASSUME OneStream, Typed, Backed, NEW s \in Streams, NEW d, StopWaiting(s, d),
           pc[s] = "wait", Given(rows[row[s]].call, d)
    PROVE  Backed'
  <1>1. \A t \in Streams : t = s
    BY DEF OneStream
  <1>2. Open => Given(NextAsk, d)
    BY <1>1 DEF Backed, LatestIsNextAsk, WaitsForLatest
  <1>3. RowsBacked' /\ CheckpointBacked'
    BY DEF StopWaiting, Backed, RowsBacked, CheckpointBacked, OnlyAllowedCallsRun, Given,
           db, history
  <1>4. RunsOnCheckpoint' /\ LatestIsNextAsk' /\ WaitsForLatest' /\ ResumeBacked'
    BY <1>1, <1>2 DEF StopWaiting, Goto, Backed, RunsOnCheckpoint, LatestIsNextAsk,
       WaitsForLatest, ResumeBacked, Open, NextAsk, Given, Typed, TypeOK, StreamsOK, db, history
  <1> QED  BY <1>3, <1>4 DEF Backed

\* The steps of asking and waiting.
LEMMA WaitBacked ==
    ASSUME OneStream, Typed, Backed, NEW s \in Streams, Wait(s)
    PROVE  Backed'
  <1>1. \A t \in Streams : t = s
    BY DEF OneStream
  <1>2. CASE CreatePending(s)
    <2> DEFINE r == [call |-> graph[s].asks[Len(graph[s].answers) + 1], decision |-> "none"]
    <2>1. graph[s] = ckpt
      BY <1>2 DEF CreatePending, Backed, RunsOnCheckpoint
    <2>2. /\ rows' = Append(rows, r) /\ rows \in Seq([call : Nat, decision : Decisions \cup {"none"}])
          /\ row' = [row EXCEPT ![s] = Len(rows) + 1]
          /\ pc' = [pc EXCEPT ![s] = "asked"]
          /\ UNCHANGED <<ckpt, memory, input, graph, posted, ran>>
      BY <1>2 DEF CreatePending, Goto, Typed, TypeOK, DbOK, history
    <2>3. r.call = NextAsk /\ r.decision = "none"
      BY <2>1 DEF NextAsk
    <2> HIDE DEF r
    <2>4. /\ Len(rows) \in Nat /\ Len(rows') = Len(rows) + 1 /\ rows'[Len(rows) + 1] = r
          /\ DOMAIN rows = 1..Len(rows) /\ DOMAIN rows' = 1..Len(rows) + 1
          /\ \A a \in 1..Len(rows) : rows'[a] = rows[a]
      <3> DEFINE T == {r} \cup [call : Nat, decision : Decisions \cup {"none"}]
      <3>1. rows \in Seq(T) /\ r \in T
        BY <2>2, SeqMonotonic
      <3> HIDE DEF T
      <3> QED  BY <2>2, <3>1, AppendProperties, LenProperties
    <2>5. RowsBacked'
      <3>1. \A w \in wakes : w.row \in 1..Len(rows)
        BY <2>4 DEF Typed, TypeOK, MemoryOK
      <3> QED  BY <2>2, <2>3, <2>4, <3>1 DEF Backed, RowsBacked, Given, memory
    <2>6. CheckpointBacked' /\ RunsOnCheckpoint'
      BY <1>1, <2>2 DEF Backed, CheckpointBacked, RunsOnCheckpoint, OnlyAllowedCallsRun, Given,
                   Typed, TypeOK, StreamsOK
    <2>7. LatestIsNextAsk'
      <3>1. rows' # <<>>
        BY <2>4, EmptySeq
      <3> QED  BY <2>2, <2>3, <2>4, <3>1 DEF LatestIsNextAsk, NextAsk
    <2>8. WaitsForLatest' /\ ResumeBacked'
      BY <1>1, <2>2, <2>4 DEF WaitsForLatest, ResumeBacked, Typed, TypeOK, StreamsOK
    <2> QED  BY <2>5, <2>6, <2>7, <2>8 DEF Backed
  <1>3. CASE RegisterWaiter(s)
    <2>1. RowsBacked' /\ CheckpointBacked'
      BY <1>3 DEF RegisterWaiter, Backed, RowsBacked, CheckpointBacked, OnlyAllowedCallsRun,
                  Given, db, history
    <2>2. waiter'[s] = row[s] /\ fut'[s] = "none"
      BY <1>3 DEF RegisterWaiter, Pop, Typed, TypeOK, MemoryOK
    <2>3. RunsOnCheckpoint' /\ LatestIsNextAsk' /\ WaitsForLatest' /\ ResumeBacked'
      BY <1>1, <1>3, <2>2 DEF RegisterWaiter, Goto, Backed, RunsOnCheckpoint, LatestIsNextAsk,
         WaitsForLatest, ResumeBacked, Open, NextAsk, Typed, TypeOK, StreamsOK, db
    <2> QED  BY <2>1, <2>3 DEF Backed
  <1>4. CASE FutureWakes(s)
    BY <1>4, StopWaitingBacked DEF FutureWakes, Backed, WaitsForLatest
  <1>5. CASE PollFinds(s)
    <2>1. row[s] \in DOMAIN rows
      BY <1>5, LenProperties DEF PollFinds, Typed, TypeOK, DbOK, StreamsOK
    <2> QED  BY <1>5, <2>1, StopWaitingBacked DEF PollFinds, Backed, RowsBacked
  <1> QED  BY <1>2, <1>3, <1>4, <1>5 DEF Wait

\* Steps of users and of dying streams.
LEMMA OtherBacked ==
    ASSUME OneStream, SafeCuts, Typed, Backed,
           \/ \E s \in Streams : Cut(s)
           \/ \E w \in wakes : Wake(w)
           \/ Restart
           \/ UNCHANGED vars
    PROVE  Backed'
  <1>1. ASSUME NEW s \in Streams, Killable(s)
        PROVE  ~(Open /\ pc[s] \in {"run", "interrupted"})
    BY <1>1 DEF Killable, Point, SafeCuts, Open, Backed, RunsOnCheckpoint
  <1>2. ASSUME NEW s \in Streams, Cut(s) PROVE Backed'
    <2>1. \A t \in Streams : t = s
      BY DEF OneStream
    <2>2. RowsBacked' /\ CheckpointBacked'
      BY <1>2 DEF Cut, Backed, RowsBacked, CheckpointBacked, OnlyAllowedCallsRun, Given,
                  db, memory, history
    <2>3. RunsOnCheckpoint' /\ LatestIsNextAsk' /\ WaitsForLatest' /\ ResumeBacked'
      BY <1>1, <1>2, <2>1 DEF Cut, Leave, Goto, Backed, RunsOnCheckpoint, LatestIsNextAsk,
         WaitsForLatest, ResumeBacked, Open, NextAsk, Typed, TypeOK, StreamsOK, db
    <2> QED  BY <2>2, <2>3 DEF Backed
  <1>3. ASSUME NEW w \in wakes, Wake(w) PROVE Backed'
    <2>1. RowsBacked' /\ CheckpointBacked'
      BY <1>3 DEF Wake, Backed, RowsBacked, CheckpointBacked, OnlyAllowedCallsRun, Given,
                  db, history
    <2>2. RunsOnCheckpoint' /\ LatestIsNextAsk' /\ ResumeBacked'
      BY <1>3 DEF Wake, Backed, RunsOnCheckpoint, LatestIsNextAsk, ResumeBacked, Open, NextAsk,
                  Given, db, locals, history
    <2>3. WaitsForLatest'
      <3>1. Given(rows[w.row].call, w.decision)
        BY DEF Backed, RowsBacked
      <3>2. w.row \in 1..Len(rows)
        BY LenProperties DEF Typed, TypeOK, DbOK, MemoryOK
      <3>3. UNCHANGED <<pc, row, rows, posted>>
        BY <1>3 DEF Wake, db, locals, history
      <3>4. ASSUME NEW t \in Streams, pc[t] = "wait"
            PROVE  /\ waiter'[t] \in {0, row[t]}
                   /\ fut'[t] # "none" => Given(rows[row[t]].call, fut'[t])
        <4>1. /\ waiter'[t] = IF waiter[t] = w.row THEN 0 ELSE waiter[t]
              /\ fut'[t] = IF waiter[t] = w.row THEN w.decision ELSE fut[t]
          BY <1>3, <3>4 DEF Wake, Pop
        <4> QED  BY <3>1, <3>2, <3>4, <4>1 DEF Backed, WaitsForLatest
      <3> QED  BY <3>3, <3>4 DEF Backed, WaitsForLatest, Given
    <2> QED  BY <2>1, <2>2, <2>3 DEF Backed
  <1>4. CASE Restart
    <2>1. \A s \in Streams : ~(Open /\ pc[s] \in {"run", "interrupted"})
      BY <1>1, <1>4 DEF Restart
    <2>2. RowsBacked' /\ CheckpointBacked'
      BY <1>4 DEF Restart, Backed, RowsBacked, CheckpointBacked, OnlyAllowedCallsRun, Given,
                  db, history
    <2>3. RunsOnCheckpoint' /\ LatestIsNextAsk' /\ WaitsForLatest' /\ ResumeBacked'
      BY <1>4, <2>1 DEF Restart, Backed, RunsOnCheckpoint, LatestIsNextAsk, WaitsForLatest,
         ResumeBacked, Open, NextAsk, db
    <2> QED  BY <2>2, <2>3 DEF Backed
  <1>5. CASE UNCHANGED vars
    BY <1>5 DEF vars, db, memory, locals, history, Backed, RowsBacked, CheckpointBacked,
       RunsOnCheckpoint, LatestIsNextAsk, WaitsForLatest, ResumeBacked, OnlyAllowedCallsRun,
       Open, NextAsk, Given
  <1> QED  BY <1>2, <1>3, <1>4, <1>5

\* The user's answer.
LEMMA ResolveBacked ==
    ASSUME Typed, Backed, NEW a \in DOMAIN rows, NEW d \in Decisions, Resolve(a, d)
    PROVE  Backed'
  <1>1. /\ rows \in Seq([call : Nat, decision : Decisions \cup {"none"}])
        /\ a \in 1..Len(rows) /\ DOMAIN rows = 1..Len(rows)
    BY LenProperties DEF Typed, TypeOK, DbOK
  <1>2. rows[a] \in [call : Nat, decision : Decisions \cup {"none"}]
    BY <1>1, ElementOfSeq
  <1> DEFINE r == [rows[a] EXCEPT !.decision = d]
  <1>3. /\ r \in [call : Nat, decision : Decisions \cup {"none"}]
        /\ r.call = rows[a].call /\ r.decision = d
    BY <1>2
  <1>4. rows' = [rows EXCEPT ![a] = r]
    BY DEF Resolve
  <1> HIDE DEF r
  <1>5. /\ Len(rows') = Len(rows) /\ DOMAIN rows' = 1..Len(rows) /\ rows' \in Seq([call : Nat, decision : Decisions \cup {"none"}])
        /\ \A b \in 1..Len(rows) : rows'[b] = IF b = a THEN r ELSE rows[b]
    BY <1>1, <1>3, <1>4, ExceptSeq, LenProperties
  <1>6. \A b \in 1..Len(rows) : rows'[b].call = rows[b].call
    BY <1>3, <1>5
  <1>7. posted \subseteq posted' /\ Given(rows[a].call, d)'
    <2>1. [call |-> rows[a].call, decision |-> d] \in posted' /\ posted \subseteq posted'
      BY DEF Resolve
    <2>2. (rows[a].call)' = rows[a].call
      BY <1>1, <1>6
    <2> QED  BY <2>1, <2>2 DEF Given
  <1>8. UNCHANGED <<ckpt, waiter, fut, locals, ran>> /\ wakes' = wakes \cup {[row |-> a, decision |-> d]}
    BY DEF Resolve
  <1>9. RowsBacked'
    <2>1. ASSUME NEW b \in DOMAIN rows', rows'[b].decision # "none"
          PROVE  [call |-> rows'[b].call, decision |-> rows'[b].decision] \in posted'
      <3>1. CASE b = a
        BY <1>1, <1>3, <1>5, <1>7, <3>1 DEF Resolve, Given
      <3>2. CASE b # a
        BY <1>1, <1>5, <1>7, <2>1, <3>2 DEF Backed, RowsBacked, Given
      <3> QED  BY <3>1, <3>2
    <2>2. ASSUME NEW w \in wakes'
          PROVE  [call |-> rows'[w.row].call, decision |-> w.decision] \in posted'
      <3>1. CASE w \in wakes
        BY <1>1, <1>6, <1>7, <3>1 DEF Backed, RowsBacked, Given, Typed, TypeOK, MemoryOK
      <3>2. CASE w = [row |-> a, decision |-> d]
        BY <1>1, <1>6, <3>2 DEF Resolve
      <3> QED  BY <1>8, <3>1, <3>2
    <2> QED  BY <2>1, <2>2 DEF RowsBacked, Given
  <1>10. CheckpointBacked'
    BY <1>7, <1>8 DEF Backed, CheckpointBacked, OnlyAllowedCallsRun, Given
  <1>11. RunsOnCheckpoint' /\ ResumeBacked'
    BY <1>7, <1>8 DEF Backed, RunsOnCheckpoint, ResumeBacked, Open, NextAsk, Given, locals
  <1>12. LatestIsNextAsk'
    <2> SUFFICES ASSUME Open', \A s \in Streams : pc[s] \notin {"run", "interrupted"}
                 PROVE  rows' # <<>> /\ rows'[Len(rows')].call = NextAsk'
      BY <1>8 DEF LatestIsNextAsk, locals
    <2>1. rows # <<>> /\ rows[Len(rows)].call = NextAsk /\ NextAsk' = NextAsk
      BY <1>8 DEF Backed, LatestIsNextAsk, Open, NextAsk
    <2>2. Len(rows) \in 1..Len(rows)
      BY <1>1
    <2>3. rows' # <<>>
      BY <1>5, <2>2, EmptySeq
    <2> QED  BY <1>5, <1>6, <2>1, <2>2, <2>3
  <1>13. WaitsForLatest'
    <2>1. \A s \in Streams : pc[s] = "wait" => row[s] \in 1..Len(rows)
      BY <1>1, LenProperties DEF Typed, TypeOK, StreamsOK
    <2> QED  BY <1>5, <1>6, <1>7, <1>8, <2>1 DEF Backed, WaitsForLatest, Given, locals
  <1> QED  BY <1>9, <1>10, <1>11, <1>12, <1>13 DEF Backed

\* Every step keeps the inductive invariant of OnlyAllowed.
LEMMA BackedStep ==
    ASSUME OneStream, SafeCuts
    PROVE  Typed /\ Typed' /\ Backed /\ [Next]_vars => Backed'
  <1> SUFFICES ASSUME Typed, Typed', Backed, [Next]_vars PROVE Backed'
    OBVIOUS
  <1>1. CASE UNCHANGED vars
    BY <1>1, OtherBacked
  <1>2. CASE Next
    BY <1>2, AttachBacked, NodeBacked, WaitBacked, OtherBacked, ResolveBacked DEF Next, Serve
  <1> QED  BY <1>1, <1>2

\* One stream at a time, no death before the row of an approval is written: an
\* ask call runs only if the user answered "allow" to its own dialog, also when
\* answers are changed later and the server restarts while a dialog is open.
THEOREM OnlyAllowed ==
    ASSUME OneStream, SafeCuts
    PROVE  Spec => []OnlyAllowedCallsRun
  <1>1. Init => Backed
    BY EmptySeq, LenProperties
       DEF Init, Ended, At, Backed, RowsBacked, CheckpointBacked, RunsOnCheckpoint, LatestIsNextAsk,
           WaitsForLatest, ResumeBacked, Open, OnlyAllowedCallsRun
  <1>2. Typed /\ Typed' /\ Backed /\ [Next]_vars => Backed'
    BY BackedStep
  <1>3. Backed => OnlyAllowedCallsRun
    BY DEF Backed, CheckpointBacked
  <1> QED  BY <1>1, <1>2, <1>3, AlwaysTyped, PTL DEF Spec
-----------------------------------------------------------------------------
(***************************************************************************)
(* Nothing twice.  One stream at a time works on the thread's checkpoint,  *)
(* so a call leaves the checkpoint with the step that runs it, and a       *)
(* dialog is opened only for a call the checkpoint has no row for yet.     *)
(***************************************************************************)

\* A running stream works on the thread's checkpoint, wherever streams die.
LEMMA CheckpointStep ==
    ASSUME OneStream, Typed, RunsOnCheckpoint, [Next]_vars
    PROVE  RunsOnCheckpoint'
  <1> USE DEF RunsOnCheckpoint, Typed, TypeOK, StreamsOK
  <1>1. \A s, t \in Streams : s = t
    BY DEF OneStream
  <1>2. ASSUME NEW s \in Streams,
               \/ StartChat(s) \/ LoadState(s) \/ Attach(s) \/ StartRun(s) \/ EndRun(s)
               \/ RunTools(s) \/ Wait(s) \/ Cut(s)
        PROVE  RunsOnCheckpoint'
    BY <1>1, <1>2 DEF StartChat, LoadState, Attach, AcceptMessage, RecordNotFound, AskAgain,
       ResumeDecided, StartRun, EndRun, RunTools, Running, Wait, CreatePending, RegisterWaiter,
       FutureWakes, PollFinds, StopWaiting, Cut, Leave, Goto, db
  <1>3. ASSUME NEW s \in Streams, NEW g, SaveNode(s, g)
        PROVE  RunsOnCheckpoint'
    BY <1>1, <1>3 DEF SaveNode
  <1>4. ASSUME NEW s \in Streams,
               \/ AgentEnds(s) \/ AgentCallsTools(s) \/ ApprovePasses(s) \/ ApproveInterrupts(s)
               \/ SaveTools(s) \/ CompactNode(s)
        PROVE  RunsOnCheckpoint'
    BY <1>3, <1>4 DEF AgentEnds, AgentCallsTools, ApprovePasses, ApproveInterrupts, SaveTools,
       CompactNode
  <1>5. ASSUME NEW a \in DOMAIN rows, NEW d \in Decisions, Resolve(a, d)
        PROVE  RunsOnCheckpoint'
    BY <1>5 DEF Resolve, locals
  <1>6. ASSUME NEW w \in wakes, Wake(w)
        PROVE  RunsOnCheckpoint'
    BY <1>6 DEF Wake, db, locals
  <1>7. CASE Restart
    BY <1>7 DEF Restart
  <1>8. CASE UNCHANGED vars
    BY <1>8 DEF vars, db, locals
  <1> QED  BY <1>2, <1>4, <1>5, <1>6, <1>7, <1>8 DEF Next, Serve, Node

\* The calls the checkpoint still has to ask about or to run have not run, and
\* every call has one of the numbers given so far.
NotYetRun ==
    /\ rerun = {}
    /\ \A c \in ran \cup ckpt.kept : c <= calls
    /\ \A i \in DOMAIN ckpt.asks :
          ckpt.asks[i] <= calls /\ ckpt.asks[i] \notin ran \cup ckpt.kept
    /\ (\A s \in Streams : pc[s] # "ran") => ckpt.kept \cap ran = {}

\* A step that makes, saves and runs no call.
LEMMA QuietNotYetRun ==
    ASSUME NotYetRun, UNCHANGED <<ckpt, calls, ran, rerun>>,
           \A s \in Streams : pc[s] = "ran" => pc'[s] = "ran"
    PROVE  NotYetRun'
  BY DEF NotYetRun

\* Saving a checkpoint without calls.
LEMMA EmptyNotYetRun ==
    ASSUME NotYetRun, NEW node, ckpt' = At(node, <<>>, {}), UNCHANGED <<calls, ran, rerun>>
    PROVE  NotYetRun'
  BY DEF NotYetRun, At

\* The agent's new calls have numbers no earlier call has.
LEMMA NewCallsNotYetRun ==
    ASSUME Typed, NotYetRun, NEW s \in Streams, AgentCallsTools(s)
    PROVE  NotYetRun'
  <1>1. PICK k \in 0..MaxAsks :
           /\ ckpt' = At("approve", [i \in 1..k |-> calls + i], {})
           /\ calls' = calls + k
    BY DEF AgentCallsTools, SaveNode
  <1>2. /\ calls \in Nat /\ k \in Nat /\ ran \subseteq Nat
        /\ UNCHANGED <<ran, rerun>>
    BY BoundsAssumption DEF AgentCallsTools, Typed, TypeOK, CountersOK, HistoryOK, history
  <1>3. ckpt'.kept = {} /\ ckpt'.asks = [i \in 1..k |-> calls + i]
    BY <1>1 DEF At
  <1>4. ASSUME NEW c \in ran
        PROVE  c <= calls'
    <2>1. c \in Nat /\ c <= calls
      BY <1>2 DEF NotYetRun
    <2> QED  BY <1>1, <1>2, <2>1
  <1>5. ASSUME NEW i \in 1..k
        PROVE  calls + i <= calls' /\ calls + i \notin ran
    BY <1>1, <1>2 DEF NotYetRun
  <1> QED  BY <1>2, <1>3, <1>4, <1>5 DEF NotYetRun

\* Every step, if no stream dies between the effects of its calls and the
\* checkpoint that records them.
LEMMA NotYetRunStep ==
    ASSUME OneStream, "ran" \notin CutPoints, Typed, RunsOnCheckpoint, NotYetRun, [Next]_vars
    PROVE  NotYetRun'
  <1>1. \A s, t \in Streams : s = t
    BY DEF OneStream
  <1> USE DEF Typed, TypeOK, StreamsOK
  <1>2. ASSUME NEW s \in Streams,
               StartChat(s) \/ LoadState(s) \/ Attach(s) \/ EndRun(s) \/ Wait(s)
        PROVE  NotYetRun'
    BY <1>2, QuietNotYetRun DEF StartChat, LoadState, Attach, AcceptMessage, RecordNotFound,
       AskAgain, ResumeDecided, EndRun, Running, Wait, CreatePending, RegisterWaiter, FutureWakes,
       PollFinds, StopWaiting, Leave, Goto, db, counters, history
  <1>3. ASSUME NEW s \in Streams, StartRun(s)
        PROVE  NotYetRun'
    <2>1. UNCHANGED <<calls, ran, rerun>> /\ pc[s] = "start" /\ pc' = [pc EXCEPT ![s] = "run"]
      BY <1>3 DEF StartRun, Goto, counters, history
    <2>2. ckpt' = ckpt \/ ckpt' = At("agent", <<>>, {})
      BY <1>3 DEF StartRun
    <2> QED  BY <2>1, <2>2, QuietNotYetRun, EmptyNotYetRun
  <1>4. ASSUME NEW s \in Streams, AgentEnds(s) \/ SaveTools(s) \/ CompactNode(s)
        PROVE  NotYetRun'
    BY <1>4, EmptyNotYetRun
       DEF AgentEnds, SaveTools, CompactNode, SaveNode, Ended, counters, history
  <1>5. ASSUME NEW s \in Streams, ApprovePasses(s)
        PROVE  NotYetRun'
    <2>1. ckpt' = At("tools", <<>>, Kept(ckpt.asks, Answers(s))) /\ pc[s] = "run" /\ pc' = pc
      BY <1>5 DEF ApprovePasses, Running, SaveNode, RunsOnCheckpoint
    <2>2. \A c \in Kept(ckpt.asks, Answers(s)) : c <= calls /\ c \notin ran
      BY DEF Kept, NotYetRun
    <2> QED  BY <1>5, <2>1, <2>2 DEF ApprovePasses, NotYetRun, At, counters, history
  <1>6. ASSUME NEW s \in Streams, ApproveInterrupts(s)
        PROVE  NotYetRun'
    <2>1. ckpt' = [ckpt EXCEPT !.answers = Answers(s)] /\ pc[s] = "run"
      BY <1>6 DEF ApproveInterrupts, Running, SaveNode, RunsOnCheckpoint
    <2>2. ckpt'.asks = ckpt.asks /\ ckpt'.kept = ckpt.kept
      BY <2>1 DEF DbOK, Graph
    <2>3. \A t \in Streams : pc[t] # "ran"
      BY <1>1, <2>1
    <2> QED  BY <1>6, <2>2, <2>3 DEF ApproveInterrupts, NotYetRun, counters, history
  <1>7. ASSUME NEW s \in Streams, RunTools(s)
        PROVE  NotYetRun'
    <2>1. /\ ran' = ran \cup ckpt.kept /\ rerun' = rerun \cup (ckpt.kept \cap ran)
          /\ pc'[s] = "ran" /\ UNCHANGED <<ckpt, calls>>
      BY <1>7 DEF RunTools, Running, Goto, RunsOnCheckpoint, db, counters
    <2>2. ckpt.kept \cap ran = {}
      BY <1>1, <1>7 DEF RunTools, Running, NotYetRun
    <2> QED  BY <2>1, <2>2 DEF NotYetRun
  <1>8. ASSUME NEW s \in Streams, Cut(s)
        PROVE  NotYetRun'
    <2>1. pc[s] # "ran"
      BY <1>8 DEF Cut, Killable, Point
    <2> QED  BY <1>8, <2>1, QuietNotYetRun DEF Cut, Leave, Goto, db, history
  <1>9. ASSUME NEW a \in DOMAIN rows, NEW d \in Decisions, Resolve(a, d)
        PROVE  NotYetRun'
    BY <1>9, QuietNotYetRun DEF Resolve, locals
  <1>10. ASSUME NEW w \in wakes, Wake(w)
         PROVE  NotYetRun'
    BY <1>10, QuietNotYetRun DEF Wake, db, locals, counters, history
  <1>11. CASE Restart
    <2>1. \A s \in Streams : pc[s] # "ran"
      BY <1>11 DEF Restart, Killable, Point
    <2> QED  BY <1>11, <2>1, QuietNotYetRun DEF Restart, db, history
  <1>12. CASE UNCHANGED vars
    BY <1>12, QuietNotYetRun DEF vars, db, locals, counters, history
  <1> QED  BY <1>2, <1>3, <1>4, <1>5, <1>6, <1>7, <1>8, <1>9, <1>10, <1>11, <1>12,
              NewCallsNotYetRun DEF Next, Serve, Node

\* One stream at a time, and no death between the effects of a message's calls
\* and the checkpoint after tools: no ask call is executed twice, wherever else
\* streams die and the server restarts, for all bounds.
THEOREM RunOnce ==
    ASSUME OneStream, "ran" \notin CutPoints
    PROVE  Spec => []RunsAtMostOnce
  <1>1. Init => RunsOnCheckpoint /\ NotYetRun
    BY DEF Init, Ended, At, RunsOnCheckpoint, NotYetRun
  <1>2. Typed /\ RunsOnCheckpoint /\ NotYetRun /\ [Next]_vars
          => (RunsOnCheckpoint /\ NotYetRun)'
    BY CheckpointStep, NotYetRunStep
  <1>3. NotYetRun => RunsAtMostOnce
    BY DEF NotYetRun, RunsAtMostOnce
  <1> QED  BY <1>1, <1>2, <1>3, AlwaysTyped, PTL DEF Spec

\* The thread is about to open a dialog for the next ask call of its checkpoint.
AboutToAsk ==
    \E s \in Streams : \/ pc[s] = "interrupted"
                       \/ pc[s] = "run" /\ input[s] \notin Decisions

\* No row is about an ask call whose dialog is still to come, and two ask calls
\* of a checkpoint never have the same number.
DialogsAreNew ==
    /\ OneDialogPerCall
    /\ \A a \in DOMAIN rows : rows[a].call <= calls
    /\ \A i, j \in DOMAIN ckpt.asks :
          ckpt.asks[i] <= calls /\ (ckpt.asks[i] = ckpt.asks[j] => i = j)
    /\ \A i \in DOMAIN ckpt.asks, a \in DOMAIN rows :
          i > Len(ckpt.answers) + 1 \/ (i = Len(ckpt.answers) + 1 /\ AboutToAsk)
             => rows[a].call # ckpt.asks[i]
    /\ \A s \in Streams : pc[s] = "start" => input[s] # "none"

\* Every row is an approval of a call.
LEMMA RowType ==
    ASSUME Typed, NEW a \in DOMAIN rows
    PROVE  rows[a] \in [call : Nat, decision : Decisions \cup {"none"}]
  <1>1. rows \in Seq([call : Nat, decision : Decisions \cup {"none"}])
    BY DEF Typed, TypeOK, DbOK
  <1>2. a \in 1..Len(rows)
    BY <1>1, LenProperties
  <1> QED  BY <1>1, <1>2, ElementOfSeq

\* A step that changes neither the checkpoint nor which calls the rows are about.
LEMMA QuietDialogs ==
    ASSUME DialogsAreNew, UNCHANGED <<ckpt, calls>>, DOMAIN rows' = DOMAIN rows,
           \A a \in DOMAIN rows : rows'[a].call = rows[a].call,
           AboutToAsk' => AboutToAsk,
           \A s \in Streams : pc'[s] = "start" => input'[s] # "none"
    PROVE  DialogsAreNew'
  BY DEF DialogsAreNew, OneDialogPerCall

\* Saving a checkpoint without ask calls.
LEMMA EmptyDialogs ==
    ASSUME DialogsAreNew, NEW node, NEW kept, ckpt' = At(node, <<>>, kept),
           UNCHANGED <<calls, rows>>,
           \A s \in Streams : pc'[s] = "start" => input'[s] # "none"
    PROVE  DialogsAreNew'
  BY DEF DialogsAreNew, OneDialogPerCall, At

\* The calls of an AIMessage are new: no row is about one of them.
LEMMA NewCallsDialogs ==
    ASSUME Typed, DialogsAreNew, NEW s \in Streams, AgentCallsTools(s)
    PROVE  DialogsAreNew'
  <1>1. PICK k \in 0..MaxAsks :
           /\ ckpt' = At("approve", [i \in 1..k |-> calls + i], {})
           /\ calls' = calls + k
    BY DEF AgentCallsTools, SaveNode
  <1>2. /\ calls \in Nat /\ k \in Nat
        /\ UNCHANGED <<rows, pc>> /\ input' = [input EXCEPT ![s] = "none"] /\ pc[s] = "run"
    BY BoundsAssumption DEF AgentCallsTools, SaveNode, Running, Typed, TypeOK, CountersOK
  <1>3. ckpt'.asks = [i \in 1..k |-> calls + i]
    BY <1>1 DEF At
  <1>4. ASSUME NEW a \in DOMAIN rows
        PROVE  rows[a].call \in Nat /\ rows[a].call <= calls
    BY RowType DEF DialogsAreNew
  <1>5. \A a \in DOMAIN rows : rows[a].call <= calls'
    BY <1>1, <1>2, <1>4
  <1>6. \A i \in 1..k, a \in DOMAIN rows : rows[a].call # calls + i
    BY <1>2, <1>4
  <1>7. \A i, j \in 1..k : calls + i <= calls' /\ (calls + i = calls + j => i = j)
    BY <1>1, <1>2
  <1>8. \A t \in Streams : pc'[t] = "start" => input'[t] # "none"
    BY <1>2 DEF DialogsAreNew, Typed, TypeOK, StreamsOK
  <1>9. OneDialogPerCall'
    BY <1>2 DEF DialogsAreNew, OneDialogPerCall
  <1>10. DOMAIN ckpt'.asks = 1..k /\ \A i \in 1..k : ckpt'.asks[i] = calls + i
    BY <1>3
  <1>11. \A i, j \in DOMAIN ckpt'.asks :
            ckpt'.asks[i] <= calls' /\ (ckpt'.asks[i] = ckpt'.asks[j] => i = j)
    BY <1>7, <1>10
  <1>12. \A i \in DOMAIN ckpt'.asks, a \in DOMAIN rows : rows[a].call # ckpt'.asks[i]
    BY <1>6, <1>10
  <1> QED  BY <1>2, <1>5, <1>8, <1>9, <1>11, <1>12 DEF DialogsAreNew

\* An interrupt keeps the ask calls and records the answer the run was resumed
\* with, if any; the dialog still to come is one call further then.
LEMMA InterruptDialogs ==
    ASSUME OneStream, Typed, RunsOnCheckpoint, DialogsAreNew, NEW s \in Streams,
           ApproveInterrupts(s)
    PROVE  DialogsAreNew'
  <1>1. /\ ckpt' = [ckpt EXCEPT !.answers = Answers(s)] /\ graph[s] = ckpt /\ pc[s] = "run"
        /\ UNCHANGED <<rows, calls>> /\ pc' = [pc EXCEPT ![s] = "interrupted"]
    BY DEF ApproveInterrupts, Running, SaveNode, Goto, RunsOnCheckpoint, counters
  <1>2. /\ ckpt'.asks = ckpt.asks /\ ckpt'.answers = Answers(s)
        /\ ckpt.answers \in Seq(Decisions) /\ ckpt.asks \in Seq(Nat)
    BY <1>1 DEF Typed, TypeOK, DbOK, Graph
  <1>3. \/ Len(Answers(s)) = Len(ckpt.answers) /\ AboutToAsk
        \/ Len(Answers(s)) = Len(ckpt.answers) + 1
    <2>1. CASE input[s] \in Decisions /\ Len(ckpt.answers) < Len(ckpt.asks)
      BY <1>1, <1>2, <2>1, AppendProperties DEF Answers
    <2>2. CASE ~(input[s] \in Decisions /\ Len(ckpt.answers) < Len(ckpt.asks))
      <3>1. Answers(s) = ckpt.answers
        BY <1>1, <2>2 DEF Answers
      <3>2. input[s] \notin Decisions
        BY <1>1, <2>2, <3>1 DEF ApproveInterrupts
      <3> QED  BY <1>1, <3>1, <3>2 DEF AboutToAsk
    <2> QED  BY <2>1, <2>2
  <1>4. ASSUME NEW i \in DOMAIN ckpt.asks, NEW a \in DOMAIN rows, i >= Len(Answers(s)) + 1
        PROVE  rows[a].call # ckpt.asks[i]
    <2>1. Len(ckpt.answers) \in Nat /\ i \in Nat
      BY <1>2, LenProperties
    <2>2. \/ i > Len(ckpt.answers) + 1
          \/ i = Len(ckpt.answers) + 1 /\ AboutToAsk
      BY <1>3, <1>4, <2>1
    <2> QED  BY <2>2 DEF DialogsAreNew
  <1>5. Len(Answers(s)) \in Nat
    BY AnswersType, LenProperties DEF Typed
  <1>6. \A t \in Streams : pc'[t] # "start"
    BY <1>1 DEF OneStream, Typed, TypeOK, StreamsOK
  <1>7. \A i \in DOMAIN ckpt.asks : i \in Nat
    BY <1>2, LenProperties
  <1> QED  BY <1>1, <1>2, <1>4, <1>5, <1>6, <1>7 DEF DialogsAreNew, OneDialogPerCall

\* create_pending opens the dialog of a call no row is about.
LEMMA CreateDialogs ==
    ASSUME OneStream, Typed, RunsOnCheckpoint, DialogsAreNew, NEW s \in Streams,
           CreatePending(s)
    PROVE  DialogsAreNew'
  <1> DEFINE n == Len(ckpt.answers) + 1
             T == [call : Nat, decision : Decisions \cup {"none"}]
  <1>1. /\ rows' = Append(rows, [call |-> ckpt.asks[n], decision |-> "none"])
        /\ UNCHANGED <<ckpt, calls>> /\ pc[s] = "interrupted" /\ pc' = [pc EXCEPT ![s] = "asked"]
    BY DEF CreatePending, RunsOnCheckpoint, Goto, counters
  <1>2. /\ ckpt.answers \in Seq(Decisions) /\ ckpt.asks \in Seq(Nat)
        /\ Len(ckpt.answers) < Len(ckpt.asks) /\ rows \in Seq(T)
    BY <1>1 DEF RunsOnCheckpoint, Typed, TypeOK, DbOK, Graph, StoppedAtAsk
  <1>3. n \in 1..Len(ckpt.asks) /\ n \in DOMAIN ckpt.asks /\ n \in Nat
    BY <1>2, LenProperties
  <1>4. ckpt.asks[n] \in Nat
    BY <1>2, <1>3, ElementOfSeq
  <1> DEFINE r == [call |-> ckpt.asks[n], decision |-> "none"]
  <1>5. r \in T /\ r.call = ckpt.asks[n]
    BY <1>4
  <1> HIDE DEF r, T
  <1>6. /\ DOMAIN rows' = DOMAIN rows \cup {Len(rows) + 1} /\ Len(rows) + 1 \notin DOMAIN rows
        /\ rows'[Len(rows) + 1] = r /\ \A a \in DOMAIN rows : rows'[a] = rows[a]
    BY <1>1, <1>2, <1>5, AppendProperties, LenProperties DEF r
  <1>7. \A a \in DOMAIN rows : rows[a].call # ckpt.asks[n]
    BY <1>1, <1>3 DEF DialogsAreNew, AboutToAsk
  <1>8. OneDialogPerCall'
    BY <1>5, <1>6, <1>7 DEF DialogsAreNew, OneDialogPerCall
  <1>9. \A a \in DOMAIN rows' : rows'[a].call <= calls
    BY <1>3, <1>5, <1>6 DEF DialogsAreNew
  <1>10. ~AboutToAsk' /\ \A t \in Streams : pc'[t] # "start"
    BY <1>1 DEF OneStream, AboutToAsk, Typed, TypeOK, StreamsOK
  <1>11. ASSUME NEW i \in DOMAIN ckpt.asks, NEW a \in DOMAIN rows', i > n
         PROVE  rows'[a].call # ckpt.asks[i]
    <2>1. ckpt.asks[i] # ckpt.asks[n]
      BY <1>3, <1>11 DEF DialogsAreNew
    <2> QED  BY <1>5, <1>6, <1>11, <2>1 DEF DialogsAreNew
  <1> QED  BY <1>1, <1>8, <1>9, <1>10, <1>11 DEF DialogsAreNew

\* Every step.
LEMMA DialogsStep ==
    ASSUME OneStream, Typed, RunsOnCheckpoint, DialogsAreNew, [Next]_vars
    PROVE  DialogsAreNew'
  <1>1. \A s, t \in Streams : s = t
    BY DEF OneStream
  <1>2. /\ pc \in [Streams -> Steps] /\ input \in [Streams -> Decisions \cup {"message", "none"}]
        /\ \A s \in Streams : pc[s] = "start" => input[s] # "none"
    BY DEF Typed, TypeOK, StreamsOK, DialogsAreNew
  <1>3. ASSUME NEW s \in Streams,
               \/ StartChat(s) \/ LoadState(s) \/ AcceptMessage(s) \/ RecordNotFound(s)
               \/ AskAgain(s) \/ RunTools(s) \/ EndRun(s) \/ RegisterWaiter(s) \/ Cut(s)
        PROVE  DialogsAreNew'
    <2>1. UNCHANGED <<ckpt, calls, rows>>
      BY <1>3 DEF StartChat, LoadState, AcceptMessage, RecordNotFound, AskAgain, RunTools, EndRun,
         RegisterWaiter, Cut, db, counters
    <2>2. (AboutToAsk' => AboutToAsk) /\ \A t \in Streams : pc'[t] = "start" => input'[t] # "none"
      BY <1>1, <1>2, <1>3 DEF StartChat, LoadState, AcceptMessage, RecordNotFound, AskAgain,
         RunTools, Running, EndRun, RegisterWaiter, Cut, Leave, Goto, AboutToAsk, Decisions
    <2> QED  BY <2>1, <2>2, QuietDialogs
  <1>4. ASSUME NEW s \in Streams, ResumeDecided(s)
        PROVE  DialogsAreNew'
    <2>1. rows[Len(rows)].decision \in Decisions
      BY <1>4, LastRow DEF ResumeDecided, Typed, TypeOK
    <2>2. /\ UNCHANGED <<ckpt, calls, rows>> /\ pc' = [pc EXCEPT ![s] = "start"]
          /\ input' = [input EXCEPT ![s] = rows[Len(rows)].decision]
      BY <1>4 DEF ResumeDecided, Goto, db, counters
    <2>3. (AboutToAsk' => AboutToAsk) /\ \A t \in Streams : pc'[t] = "start" => input'[t] # "none"
      BY <1>1, <1>2, <2>1, <2>2 DEF AboutToAsk, Decisions
    <2> QED  BY <2>2, <2>3, QuietDialogs
  <1>5. ASSUME NEW s \in Streams, StartRun(s)
        PROVE  DialogsAreNew'
    <2>1. /\ pc[s] = "start" /\ pc' = [pc EXCEPT ![s] = "run"]
          /\ UNCHANGED <<calls, rows, input>>
      BY <1>5 DEF StartRun, Goto, counters
    <2>2. CASE input[s] = "message"
      BY <1>1, <1>2, <1>5, <2>1, <2>2, EmptyDialogs DEF StartRun
    <2>3. CASE input[s] # "message"
      <3>1. ckpt' = ckpt /\ input[s] \in Decisions
        BY <1>2, <1>5, <2>1, <2>3 DEF StartRun
      <3>2. (AboutToAsk' => AboutToAsk) /\ \A t \in Streams : pc'[t] # "start"
        BY <1>1, <1>2, <2>1, <3>1 DEF AboutToAsk
      <3> QED  BY <2>1, <3>1, <3>2, QuietDialogs
    <2> QED  BY <2>2, <2>3
  <1>6. ASSUME NEW s \in Streams,
               AgentEnds(s) \/ ApprovePasses(s) \/ SaveTools(s) \/ CompactNode(s)
        PROVE  DialogsAreNew'
    <2>1. PICK node, kept : ckpt' = At(node, <<>>, kept)
      BY <1>6 DEF AgentEnds, ApprovePasses, SaveTools, CompactNode, SaveNode, Ended
    <2>2. UNCHANGED <<calls, rows>> /\ \A t \in Streams : pc'[t] # "start"
      BY <1>1, <1>2, <1>6
         DEF AgentEnds, ApprovePasses, SaveTools, CompactNode, Running, Goto, counters
    <2> QED  BY <2>1, <2>2, EmptyDialogs
  <1>7. ASSUME NEW s \in Streams, FutureWakes(s) \/ PollFinds(s)
        PROVE  DialogsAreNew'
    <2>1. PICK d : StopWaiting(s, d) /\ d \in Decisions
      <3>1. CASE FutureWakes(s)
        BY <3>1 DEF FutureWakes, Typed, TypeOK, MemoryOK
      <3>2. CASE PollFinds(s)
        <4>1. row[s] \in 1..Len(rows)
          BY <3>2, LenProperties DEF PollFinds, Typed, TypeOK, DbOK, StreamsOK
        <4>2. rows[row[s]] \in [call : Nat, decision : Decisions \cup {"none"}]
          BY <4>1, ElementOfSeq DEF Typed, TypeOK, DbOK
        <4> QED  BY <3>2, <4>2 DEF PollFinds
      <3> QED  BY <1>7, <3>1, <3>2
    <2>2. /\ UNCHANGED <<ckpt, calls, rows>> /\ pc' = [pc EXCEPT ![s] = "start"]
          /\ input' = [input EXCEPT ![s] = d]
      BY <2>1 DEF StopWaiting, Goto, db, counters
    <2>3. (AboutToAsk' => AboutToAsk) /\ \A t \in Streams : pc'[t] = "start" => input'[t] # "none"
      BY <1>1, <1>2, <2>1, <2>2 DEF AboutToAsk, Decisions
    <2> QED  BY <2>2, <2>3, QuietDialogs
  <1>8. ASSUME NEW a \in DOMAIN rows, NEW d \in Decisions, Resolve(a, d)
        PROVE  DialogsAreNew'
    <2>1. /\ rows' = [rows EXCEPT ![a].decision = d] /\ UNCHANGED <<ckpt, calls, pc, input>>
      BY <1>8 DEF Resolve, locals
    <2>2. \A b \in DOMAIN rows : rows[b] \in [call : Nat, decision : Decisions \cup {"none"}]
      BY RowType
    <2>3. DOMAIN rows' = DOMAIN rows /\ \A b \in DOMAIN rows : rows'[b].call = rows[b].call
      BY <2>1, <2>2
    <2>4. AboutToAsk' => AboutToAsk
      BY <2>1 DEF AboutToAsk
    <2> QED  BY <1>2, <2>1, <2>3, <2>4, QuietDialogs
  <1>9. CASE (\E w \in wakes : Wake(w)) \/ UNCHANGED vars
    <2>1. UNCHANGED <<ckpt, calls, rows, pc, input>>
      BY <1>9 DEF Wake, vars, db, locals, counters
    <2>2. AboutToAsk' => AboutToAsk
      BY <2>1 DEF AboutToAsk
    <2> QED  BY <1>2, <2>1, <2>2, QuietDialogs
  <1>10. CASE Restart
    <2>1. UNCHANGED <<ckpt, calls, rows>> /\ ~AboutToAsk' /\ \A t \in Streams : pc'[t] # "start"
      BY <1>10 DEF Restart, AboutToAsk, db
    <2> QED  BY <2>1, QuietDialogs
  <1> QED  BY <1>3, <1>4, <1>5, <1>6, <1>7, <1>8, <1>9, <1>10, NewCallsDialogs, InterruptDialogs,
              CreateDialogs DEF Next, Serve, Attach, Node, Wait

\* One stream at a time: whenever streams die and however the user re-attaches,
\* a call never gets a second dialog, for all bounds.
THEOREM AskOnce ==
    ASSUME OneStream
    PROVE  Spec => []OneDialogPerCall
  <1>1. Init => RunsOnCheckpoint /\ DialogsAreNew
    BY DEF Init, Ended, At, RunsOnCheckpoint, DialogsAreNew, OneDialogPerCall
  <1>2. Typed /\ RunsOnCheckpoint /\ DialogsAreNew /\ [Next]_vars
          => (RunsOnCheckpoint /\ DialogsAreNew)'
    BY CheckpointStep, DialogsStep
  <1>3. DialogsAreNew => OneDialogPerCall
    BY DEF DialogsAreNew
  <1> QED  BY <1>1, <1>2, <1>3, AlwaysTyped, PTL DEF Spec
-----------------------------------------------------------------------------
(***************************************************************************)
(* The thread implements the gate, if users do not answer a decided        *)
(* approval again: a verdict is given once because a call has one row and  *)
(* a verdict stays in its row; calls that run are allowed by Backed.       *)
(***************************************************************************)

\* A verdict stays in a row of its call, and calls are numbered from 1 to the
\* number the bounds permit.
VerdictsInRows ==
    /\ \A p \in posted :
          \E a \in DOMAIN rows : rows[a].call = p.call /\ rows[a].decision # "none"
    /\ \A a \in DOMAIN rows : rows[a].call \in 1..calls
    /\ \A i \in DOMAIN ckpt.asks : ckpt.asks[i] \in 1..calls
    /\ calls <= messages * MaxAsks
    /\ messages <= MaxMessages

\* A step that leaves the calls, the rows and the user's answers alone.
LEMMA QuietVerdicts ==
    ASSUME VerdictsInRows, UNCHANGED <<rows, calls, messages, posted>>,
           ckpt'.asks = ckpt.asks \/ ckpt'.asks = <<>>
    PROVE  VerdictsInRows'
  BY DEF VerdictsInRows

\* One more message of at most MaxAsks calls stays within the bound.
LEMMA CallBound ==
    ASSUME NEW n \in Nat, NEW m \in Nat, NEW k \in Nat, NEW max \in Nat,
           n <= m * max, k <= max
    PROVE  n + k <= (m + 1) * max
  <1>1. (m + 1) * max = m * max + max
    OBVIOUS
  <1> DEFINE p == m * max
  <1>2. p \in Nat /\ n <= p
    OBVIOUS
  <1> HIDE DEF p
  <1>3. n + k <= p + max
    BY <1>2
  <1> QED  BY <1>1, <1>3 DEF p

\* Fewer messages of at most MaxAsks calls.
LEMMA MessageBound ==
    ASSUME NEW m \in Nat, NEW n \in Nat, NEW max \in Nat, m <= n
    PROVE  m * max <= n * max
  OBVIOUS

\* The agent calls tools.
LEMMA NewCallsVerdicts ==
    ASSUME Typed, VerdictsInRows, NEW s \in Streams, AgentCallsTools(s)
    PROVE  VerdictsInRows'
  <1>1. PICK k \in 0..MaxAsks :
           /\ ckpt' = At("approve", [i \in 1..k |-> calls + i], {})
           /\ calls' = calls + k
    BY DEF AgentCallsTools, SaveNode
  <1>2. /\ calls \in Nat /\ k \in Nat /\ messages \in Nat /\ MaxAsks \in Nat /\ k <= MaxAsks
        /\ UNCHANGED <<rows, posted>> /\ messages' = messages + 1 /\ messages < MaxMessages
        /\ MaxMessages \in Nat
    BY BoundsAssumption DEF AgentCallsTools, Typed, TypeOK, CountersOK, history
  <1>3. ckpt'.asks = [i \in 1..k |-> calls + i]
    BY <1>1 DEF At
  <1>4. calls' <= messages' * MaxAsks
    BY <1>1, <1>2, CallBound DEF VerdictsInRows
  <1>5. 1..calls \subseteq 1..calls' /\ \A i \in 1..k : calls + i \in 1..calls'
    BY <1>1, <1>2
  <1>6. messages' <= MaxMessages
    BY <1>2
  <1> QED  BY <1>2, <1>3, <1>4, <1>5, <1>6 DEF VerdictsInRows

\* create_pending writes a row about an ask call of the checkpoint.
LEMMA CreateVerdicts ==
    ASSUME Typed, RunsOnCheckpoint, VerdictsInRows, NEW s \in Streams, CreatePending(s)
    PROVE  VerdictsInRows'
  <1> DEFINE n == Len(ckpt.answers) + 1
             T == [call : Nat, decision : Decisions \cup {"none"}]
  <1>1. /\ rows' = Append(rows, [call |-> ckpt.asks[n], decision |-> "none"])
        /\ UNCHANGED <<ckpt, calls, messages, posted>> /\ pc[s] = "interrupted"
    BY DEF CreatePending, RunsOnCheckpoint, counters, history
  <1>2. /\ ckpt.answers \in Seq(Decisions) /\ ckpt.asks \in Seq(Nat)
        /\ Len(ckpt.answers) < Len(ckpt.asks) /\ rows \in Seq(T)
    BY <1>1 DEF RunsOnCheckpoint, Typed, TypeOK, DbOK, Graph, StoppedAtAsk
  <1>3. n \in 1..Len(ckpt.asks) /\ n \in DOMAIN ckpt.asks
    BY <1>2, LenProperties
  <1> DEFINE r == [call |-> ckpt.asks[n], decision |-> "none"]
  <1>4. r \in T /\ r.call \in 1..calls
    BY <1>2, <1>3, ElementOfSeq DEF VerdictsInRows
  <1> HIDE DEF r, T
  <1>5. /\ DOMAIN rows' = DOMAIN rows \cup {Len(rows) + 1}
        /\ rows'[Len(rows) + 1] = r /\ \A a \in DOMAIN rows : rows'[a] = rows[a]
    BY <1>1, <1>2, <1>4, AppendProperties, LenProperties DEF r
  <1> QED  BY <1>1, <1>4, <1>5 DEF VerdictsInRows

\* The user's answer stays in its row.
LEMMA ResolveVerdicts ==
    ASSUME Typed, VerdictsInRows, NEW a \in DOMAIN rows, NEW d \in Decisions, Resolve(a, d)
    PROVE  VerdictsInRows'
  <1>1. /\ rows' = [rows EXCEPT ![a].decision = d]
        /\ posted' = posted \cup {[call |-> rows[a].call, decision |-> d]}
        /\ UNCHANGED <<ckpt, calls, messages>>
    BY DEF Resolve
  <1>2. \A b \in DOMAIN rows : rows[b] \in [call : Nat, decision : Decisions \cup {"none"}]
    BY RowType
  <1>3. /\ DOMAIN rows' = DOMAIN rows /\ rows'[a].decision = d /\ d # "none"
        /\ \A b \in DOMAIN rows : rows'[b].call = rows[b].call
        /\ \A b \in DOMAIN rows : rows[b].decision # "none" => rows'[b].decision # "none"
    BY <1>1, <1>2 DEF Decisions
  <1> QED  BY <1>1, <1>3 DEF VerdictsInRows

\* Every step.
LEMMA VerdictsStep ==
    ASSUME Typed, RunsOnCheckpoint, VerdictsInRows, [Next]_vars
    PROVE  VerdictsInRows'
  <1>1. ASSUME NEW s \in Streams,
               \/ StartChat(s) \/ LoadState(s) \/ Attach(s) \/ StartRun(s) \/ RunTools(s)
               \/ EndRun(s) \/ RegisterWaiter(s) \/ FutureWakes(s) \/ PollFinds(s) \/ Cut(s)
        PROVE  VerdictsInRows'
    BY <1>1, QuietVerdicts DEF StartChat, LoadState, Attach, AcceptMessage, RecordNotFound,
       AskAgain, ResumeDecided, StartRun, RunTools, EndRun, RegisterWaiter, FutureWakes, PollFinds,
       StopWaiting, Cut, At, db, counters, history
  <1>2. ASSUME NEW s \in Streams,
               AgentEnds(s) \/ ApprovePasses(s) \/ SaveTools(s) \/ CompactNode(s)
        PROVE  VerdictsInRows'
    BY <1>2, QuietVerdicts DEF AgentEnds, ApprovePasses, SaveTools, CompactNode, SaveNode, Ended,
       At, counters, history
  <1>3. ASSUME NEW s \in Streams, ApproveInterrupts(s)
        PROVE  VerdictsInRows'
    <2>1. ckpt' = [ckpt EXCEPT !.answers = Answers(s)]
      BY <1>3 DEF ApproveInterrupts, Running, SaveNode, RunsOnCheckpoint
    <2>2. ckpt'.asks = ckpt.asks
      BY <2>1 DEF Typed, TypeOK, DbOK, Graph
    <2> QED  BY <1>3, <2>2, QuietVerdicts DEF ApproveInterrupts, counters, history
  <1>4. CASE (\E w \in wakes : Wake(w)) \/ Restart \/ UNCHANGED vars
    BY <1>4, QuietVerdicts DEF Wake, Restart, vars, db, counters, history
  <1> QED  BY <1>1, <1>2, <1>3, <1>4, NewCallsVerdicts, CreateVerdicts, ResolveVerdicts
           DEF Next, Serve, Node, Wait

\* A step of the thread is a step of the gate, or changes neither of its variables.
LEMMA GateStep ==
    ASSUME ~Reanswer, Typed, Backed, DialogsAreNew, VerdictsInRows, [Next]_vars
    PROVE  [Gate!Next]_<<posted, ran>>
  <1>1. ASSUME NEW a \in DOMAIN rows, NEW d \in Decisions, Resolve(a, d)
        PROVE  Gate!Next
    <2>1. \A p \in posted : p.call # rows[a].call
      <3> SUFFICES ASSUME NEW p \in posted, p.call = rows[a].call PROVE FALSE
        OBVIOUS
      <3>1. PICK b \in DOMAIN rows : rows[b].call = p.call /\ rows[b].decision # "none"
        BY DEF VerdictsInRows
      <3>2. b = a
        BY <3>1 DEF DialogsAreNew, OneDialogPerCall
      <3> QED  BY <1>1, <3>1, <3>2 DEF Resolve
    <2>2. rows[a].call \in 1..(MaxMessages * MaxAsks)
      <3>1. /\ calls \in Nat /\ messages \in Nat /\ MaxMessages \in Nat /\ MaxAsks \in Nat
            /\ messages <= MaxMessages /\ calls <= messages * MaxAsks /\ rows[a].call \in 1..calls
        BY BoundsAssumption DEF Typed, TypeOK, CountersOK, VerdictsInRows
      <3>2. messages * MaxAsks <= MaxMessages * MaxAsks
        BY <3>1, MessageBound
      <3> QED  BY <3>1, <3>2
    <2>3. Gate!Answer(rows[a].call, d)
      BY <1>1, <2>1 DEF Resolve, Gate!Answer, Gate!Verdict
    <2> QED  BY <2>2, <2>3 DEF Gate!Next, Decisions
  <1>2. ASSUME NEW s \in Streams, RunTools(s)
        PROVE  [Gate!Next]_<<posted, ran>>
    <2>1. ran' = ran \cup ckpt.kept /\ UNCHANGED posted
      BY <1>2 DEF RunTools, Running, Backed, RunsOnCheckpoint
    <2>2. \A c \in ckpt.kept : Gate!Verdict(c, "allow") \in posted
      BY Zenon DEF Backed, CheckpointBacked, Given, Gate!Verdict
    <2> QED  BY <2>1, <2>2 DEF Gate!Next, Gate!RunCalls
  <1>3. ASSUME NEW s \in Streams,
               \/ StartChat(s) \/ LoadState(s) \/ Attach(s) \/ StartRun(s) \/ Wait(s) \/ Cut(s)
               \/ AgentEnds(s) \/ AgentCallsTools(s) \/ ApprovePasses(s) \/ ApproveInterrupts(s)
               \/ SaveTools(s) \/ CompactNode(s) \/ EndRun(s)
        PROVE  UNCHANGED <<posted, ran>>
    BY <1>3 DEF StartChat, LoadState, Attach, AcceptMessage, RecordNotFound, AskAgain,
       ResumeDecided, StartRun, Wait, CreatePending, RegisterWaiter, FutureWakes, PollFinds,
       StopWaiting, Cut, AgentEnds, AgentCallsTools, ApprovePasses, ApproveInterrupts, SaveTools,
       CompactNode, EndRun, history
  <1>4. CASE (\E w \in wakes : Wake(w)) \/ Restart \/ UNCHANGED vars
    BY <1>4 DEF Wake, Restart, vars, history
  <1> QED  BY <1>1, <1>2, <1>3, <1>4 DEF Next, Serve, Node

\* One stream at a time, answers never changed, no death before the row of an
\* approval is written: whatever the streams, the checkpoint and the restarts do,
\* the user gives a call one verdict and only calls with the verdict "allow" run.
THEOREM ImplementsGate ==
    ASSUME OneStream, SafeCuts, ~Reanswer
    PROVE  Spec => GateSpec
  <1>1. Init => Backed /\ DialogsAreNew /\ VerdictsInRows
    <2> SUFFICES ASSUME Init PROVE Backed /\ DialogsAreNew /\ VerdictsInRows
      OBVIOUS
    <2>1. Backed
      BY EmptySeq, LenProperties
         DEF Init, Ended, At, Backed, RowsBacked, CheckpointBacked, RunsOnCheckpoint,
             LatestIsNextAsk, WaitsForLatest, ResumeBacked, Open, OnlyAllowedCallsRun
    <2>2. DialogsAreNew
      BY DEF Init, Ended, At, DialogsAreNew, OneDialogPerCall
    <2>3. VerdictsInRows
      BY BoundsAssumption DEF Init, Ended, At, VerdictsInRows
    <2> QED  BY <2>1, <2>2, <2>3
  <1>2. /\ Typed /\ Typed' /\ Backed /\ DialogsAreNew /\ VerdictsInRows /\ [Next]_vars
          => (Backed /\ DialogsAreNew /\ VerdictsInRows)'
    BY BackedStep, DialogsStep, VerdictsStep DEF Backed
  <1>3. Typed /\ Backed /\ DialogsAreNew /\ VerdictsInRows /\ [Next]_vars
          => [Gate!Next]_<<posted, ran>>
    BY GateStep
  <1>4. Init => Gate!Init
    BY DEF Init, Gate!Init
  <1> QED  BY <1>1, <1>2, <1>3, <1>4, AlwaysTyped, PTL DEF Spec, GateSpec, Gate!Spec
=============================================================================
