----------------------------- MODULE CostLedger -----------------------------
(***************************************************************************)
(* The cost limit: check_cost_limit before a run, the LLM calls of the     *)
(* run, record_run at its end.  A client is a thread inside LLMClient.call *)
(* or .parse (one LLM call per run); a chat is a stream_chat (one check,   *)
(* then as many LLM calls as the agent loop makes).  Amounts are integers. *)
(***************************************************************************)
EXTENDS Integers, FiniteSets

CONSTANTS
    Clients, Chats,   \* what may run at the same time
    DailyLimit,       \* cost.daily_limit_usd
    MonthlyLimit,     \* cost.monthly_limit_usd
    MaxCall,          \* bound: the cost of one LLM call
    MaxCalls,         \* bound: LLM calls of one chat run (see CallReturns)
    MaxLosses         \* bound: runs and calls whose cost is never recorded

ASSUME CostAssumption ==
    /\ IsFiniteSet(Clients) /\ IsFiniteSet(Chats)
    /\ DailyLimit \in Nat \ {0} /\ MonthlyLimit \in Nat \ {0}
    /\ MaxCall \in Nat /\ MaxCalls \in Nat \ {0} /\ MaxLosses \in Nat

Runners == Clients \cup Chats

\* The most one run can cost.
MaxRun == MaxCalls * MaxCall

VARIABLES
    day,      \* recorded cost of the last 24 hours (cost_summary, since_days=1)
    month,    \* recorded cost of the last 30 days
    pc,       \* of a runner: idle, running, finishing
    acc,      \* cost of the LLM calls of its current run
    made,     \* number of LLM calls of its current run
    lost,     \* history: money spent by runs that left no row, or at no known price
    losses    \* history: number of those runs and calls

vars == <<day, month, pc, acc, made, lost, losses>>

Init ==
    /\ day = 0 /\ month = 0
    /\ pc = [r \in Runners |-> "idle"]
    /\ acc = [r \in Runners |-> 0]
    /\ made = [r \in Runners |-> 0]
    /\ lost = 0 /\ losses = 0

\* Mutant: only the month's limit is read.
CheckMonthOnly(r) ==
    /\ pc[r] = "idle"
    /\ month < MonthlyLimit
    /\ pc' = [pc EXCEPT ![r] = "running"]
    /\ UNCHANGED <<day, month, acc, made, lost, losses>>

\* check_cost_limit passes; a run that meets a limit raises and does nothing.
Check(r) ==
    /\ pc[r] = "idle"
    /\ day < DailyLimit
    /\ month < MonthlyLimit
    /\ pc' = [pc EXCEPT ![r] = "running"]
    /\ UNCHANGED <<day, month, acc, made, lost, losses>>

\* An LLM call returns (on_chat_model_end, or messages.create / .parse).  MaxCalls
\* is the model's bound: the recursion limit bounds a chat's calls between two
\* approvals only, as the graph starts to count anew with each Command(resume).
CallReturns(r) ==
    /\ pc[r] = "running"
    /\ made[r] < (IF r \in Chats THEN MaxCalls ELSE 1)
    /\ \E cost \in 0..MaxCall : acc' = [acc EXCEPT ![r] = @ + cost]
    /\ made' = [made EXCEPT ![r] = @ + 1]
    /\ UNCHANGED <<day, month, pc, lost, losses>>

\* An LLM call of a chat returns from a model that has no price: it counts as 0.0.
CallUnpriced(r) ==
    /\ r \in Chats /\ pc[r] = "running"
    /\ made[r] < MaxCalls /\ losses < MaxLosses
    /\ losses' = losses + 1
    /\ \E cost \in 0..MaxCall : lost' = lost + cost
    /\ made' = [made EXCEPT ![r] = @ + 1]
    /\ UNCHANGED <<day, month, pc, acc>>

\* The run ends before any LLM call has cost anything: the request fails, or
\* stream_chat finds no record of the approval it is stopped at and returns.
Abandon(r) ==
    /\ pc[r] = "running"
    /\ made[r] = 0
    /\ pc' = [pc EXCEPT ![r] = "idle"]
    /\ UNCHANGED <<day, month, acc, made, lost, losses>>

\* The run is over: the graph ended or raised (stream_chat catches it and goes
\* on to record_run), or the single call has returned.
Finish(r) ==
    /\ pc[r] = "running"
    /\ r \in Chats \/ made[r] = 1
    /\ pc' = [pc EXCEPT ![r] = "finishing"]
    /\ UNCHANGED <<day, month, acc, made, lost, losses>>

\* The run leaves nothing behind in memory.
Forget(r) ==
    /\ pc' = [pc EXCEPT ![r] = "idle"]
    /\ acc' = [acc EXCEPT ![r] = 0]
    /\ made' = [made EXCEPT ![r] = 0]

\* record_run inserts and commits one row of runs.
Record(r) ==
    /\ pc[r] = "finishing"
    /\ day' = day + acc[r]
    /\ month' = month + acc[r]
    /\ Forget(r)
    /\ UNCHANGED <<lost, losses>>

\* The run ends before its row is there: the client of a chat disconnects
\* (CancelledError passes by both except clauses), record_run fails and the
\* failure is swallowed, an LLM answer cannot be parsed or priced (_finish is
\* never reached or raises), the process dies.
Lose(r) ==
    /\ pc[r] # "idle"
    /\ losses < MaxLosses
    /\ losses' = losses + 1
    /\ lost' = lost + acc[r]
    /\ Forget(r)
    /\ UNCHANGED <<day, month>>

\* Time passes: rows leave the windows of 24 hours and 30 days.
Age ==
    /\ \E d \in 0..day, m \in 0..month : d <= m /\ day' = d /\ month' = m
    /\ UNCHANGED <<pc, acc, made, lost, losses>>

Next ==
    \/ \E r \in Runners :
          \/ Check(r) \/ CallReturns(r) \/ CallUnpriced(r) \/ Abandon(r)
          \/ Finish(r) \/ Record(r) \/ Lose(r)
    \/ Age

Spec == Init /\ [][Next]_vars

-----------------------------------------------------------------------------
\* Types; a run has cost at most MaxCall for each call it has made, and a runner
\* that is idle keeps nothing.
TypeOK ==
    /\ day \in Nat /\ month \in Nat
    /\ pc \in [Runners -> {"idle", "running", "finishing"}]
    /\ acc \in [Runners -> Nat]
    /\ made \in [Runners -> 0..MaxCalls]
    /\ \A r \in Runners : acc[r] <= made[r] * MaxCall
    /\ \A r \in Runners : pc[r] = "idle" => made[r] = 0
    /\ lost \in Nat /\ losses \in Nat

\* A runner that has passed the check and not yet recorded.
Active == {r \in Runners : pc[r] # "idle"}

\* What can be spent by the runs that may be under way together, by the runs that
\* were lost and by the calls without a price.
Slack == (Cardinality(Runners) + losses) * MaxRun

\* The limits are read once, before a run (check_cost_limit, shared by both kinds
\* of runs), so they can be passed; but what the ledger shows, what it never saw
\* and what the runs under way may still spend together stay below the limit plus
\* Slack.
SpendBounded ==
    /\ day + lost + Cardinality(Active) * MaxRun < DailyLimit + Slack
    /\ month + lost + Cardinality(Active) * MaxRun < MonthlyLimit + Slack
=============================================================================
