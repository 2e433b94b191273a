---------------------------- MODULE ApprovalGate ----------------------------
(***************************************************************************)
(* What the approval gate of the agent promises, without threads,          *)
(* checkpoints or streams: the user gives each ask call at most one        *)
(* verdict, and only calls whose verdict is "allow" ever run, each once.   *)
(***************************************************************************)
CONSTANT Calls      \* the ask calls of a conversation

VARIABLES posted,   \* the verdicts given: records [call, decision]
          ran       \* the calls that have run

Verdict(c, d) == [call |-> c, decision |-> d]

Init == posted = {} /\ ran = {}

\* The user answers the dialog of a call that has no verdict yet.
Answer(c, d) ==
    /\ \A v \in posted : v.call # c
    /\ posted' = posted \cup {Verdict(c, d)}
    /\ UNCHANGED ran

\* The tools node runs calls that were allowed and have not run.
RunCalls ==
    /\ ran' # ran
    /\ ran \subseteq ran'
    /\ \A c \in ran' \ ran : Verdict(c, "allow") \in posted
    /\ UNCHANGED posted

Next == (\E c \in Calls, d \in {"allow", "deny"} : Answer(c, d)) \/ RunCalls

Spec == Init /\ [][Next]_<<posted, ran>>
=============================================================================
