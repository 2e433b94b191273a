--------------------------- MODULE SubAgent_proofs ---------------------------
(***************************************************************************)
(* The cost limit holds up to the slack of the runs under way, for every   *)
(* number of runners and every price.  The invariant counts, for each run  *)
(* under way, the most it may still cost: a step of a run only moves money *)
(* from that reserve to the ledger or to the lost runs.  A batch of the    *)
(* sub-agent does to the ledger what single clients do, so the bound       *)
(* carries over; and what it returns answers its ids position by position, *)
(* for any number of workers.                                              *)
(***************************************************************************)
EXTENDS SubAgent, FiniteSetTheorems, TLAPS

(* The ledger *)

\* The constants of the module, as numbers.
LEMMA Constants ==
    /\ IsFiniteSet(Runners) /\ Cardinality(Runners) \in Nat
    /\ MaxRun \in Nat /\ MaxCall \in Nat /\ MaxCalls \in Nat \ {0}
    /\ DailyLimit \in Nat \ {0} /\ MonthlyLimit \in Nat \ {0}
  <1>1. IsFiniteSet(Runners)
    BY CostAssumption, FS_Union DEF Runners
  <1> QED  BY <1>1, CostAssumption, FS_CardinalityType DEF MaxRun

\* n calls of at most MaxCall each cost no more than a whole run.
LEMMA RunBound ==
    ASSUME NEW n \in 0..MaxCalls, NEW a \in Nat, a <= n * MaxCall
    PROVE  a <= MaxRun
  <1>1. n * MaxCall <= MaxCalls * MaxCall
    BY Constants
  <1> QED  BY <1>1, Constants DEF MaxRun

\* The variables keep their types, a run has cost at most MaxCall for each of its
\* calls, and a runner that is idle keeps nothing (_RunAccumulator is the run's own).
THEOREM TypingHolds == Spec => []TypeOK
  <1>1. Init => TypeOK
    BY Constants DEF Init, TypeOK
  <1>2. TypeOK /\ [Next]_vars => TypeOK'
    <2> SUFFICES ASSUME TypeOK, [Next]_vars PROVE TypeOK'
      OBVIOUS
    <2> USE Constants DEF TypeOK
    <2>1. ASSUME NEW r \in Runners, Check(r) PROVE TypeOK'
      BY <2>1 DEF Check
    <2>2. ASSUME NEW r \in Runners, CallReturns(r) PROVE TypeOK'
      <3>1. PICK cost \in 0..MaxCall : acc' = [acc EXCEPT ![r] = @ + cost]
        BY <2>2 DEF CallReturns
      <3>2. made[r] < MaxCalls
        BY <2>2 DEF CallReturns
      <3>3. (made[r] + 1) * MaxCall = made[r] * MaxCall + MaxCall
        OBVIOUS
      <3> QED  BY <2>2, <3>1, <3>2, <3>3 DEF CallReturns
    <2>9. ASSUME NEW r \in Runners, CallUnpriced(r) PROVE TypeOK'
      <3>1. PICK cost \in 0..MaxCall : lost' = lost + cost
        BY <2>9 DEF CallUnpriced
      <3>2. made[r] < MaxCalls
        BY <2>9 DEF CallUnpriced
      <3>3. (made[r] + 1) * MaxCall = made[r] * MaxCall + MaxCall
        OBVIOUS
      <3> QED  BY <2>9, <3>1, <3>2, <3>3 DEF CallUnpriced
    <2>3. ASSUME NEW r \in Runners, Abandon(r) PROVE TypeOK'
      BY <2>3 DEF Abandon
    <2>4. ASSUME NEW r \in Runners, Finish(r) PROVE TypeOK'
      BY <2>4 DEF Finish
    <2>5. ASSUME NEW r \in Runners, Record(r) PROVE TypeOK'
      BY <2>5 DEF Record, Forget
    <2>6. ASSUME NEW r \in Runners, Lose(r) PROVE TypeOK'
      BY <2>6 DEF Lose, Forget
    <2>7. CASE Age
      BY <2>7 DEF Age
    <2>8. CASE UNCHANGED vars
      BY <2>8 DEF vars
    <2> QED  BY <2>1, <2>2, <2>3, <2>4, <2>5, <2>6, <2>7, <2>8, <2>9 DEF Next
  <1> QED  BY <1>1, <1>2, PTL DEF Spec

-----------------------------------------------------------------------------
\* What is lost costs no more than that many whole runs: what makes SpendBounded
\* inductive.
LostBounded == lost <= losses * MaxRun

Inv == TypeOK /\ LostBounded /\ SpendBounded

\* A run that starts reserves one more MaxRun, and there are at most
\* Cardinality(Runners) of them.
LEMMA Reserve ==
    ASSUME NEW r \in Runners, pc \in [Runners -> {"idle", "running", "finishing"}]
    PROVE  /\ Cardinality(Active) \in Nat
           /\ Cardinality(Active) <= Cardinality(Runners)
           /\ pc' = [pc EXCEPT ![r] = "running"] /\ pc[r] = "idle" =>
                 /\ Cardinality(Active') = Cardinality(Active) + 1
                 /\ Cardinality(Active') <= Cardinality(Runners)
           /\ pc' = [pc EXCEPT ![r] = "idle"] /\ pc[r] # "idle" =>
                 Cardinality(Active') + 1 = Cardinality(Active)
  <1>1. Active \subseteq Runners
    BY DEF Active
  <1>2. /\ IsFiniteSet(Active) /\ Cardinality(Active) \in Nat
        /\ Cardinality(Active) <= Cardinality(Runners)
    BY <1>1, Constants, FS_Subset, FS_CardinalityType
  <1>3. ASSUME pc' = [pc EXCEPT ![r] = "running"], pc[r] = "idle"
        PROVE  /\ Cardinality(Active') = Cardinality(Active) + 1
               /\ Cardinality(Active') <= Cardinality(Runners)
    <2>1. Active' = Active \cup {r} /\ r \notin Active
      BY <1>3 DEF Active
    <2>2. Active' \subseteq Runners
      BY <1>1, <2>1
    <2>3. Cardinality(Active') = Cardinality(Active) + 1
      BY <1>2, <2>1, FS_AddElement
    <2> QED  BY <2>2, <2>3, Constants, FS_Subset
  <1>4. ASSUME pc' = [pc EXCEPT ![r] = "idle"], pc[r] # "idle"
        PROVE  Cardinality(Active') + 1 = Cardinality(Active)
    <2>1. Active' = Active \ {r} /\ r \in Active
      BY <1>4 DEF Active
    <2>2. Cardinality(Active') = Cardinality(Active) - 1
      BY <1>2, <2>1, FS_RemoveElement
    <2>3. IsFiniteSet(Active')
      BY <1>2, <2>1, FS_RemoveElement
    <2> QED  BY <1>2, <2>2, <2>3, FS_CardinalityType
  <1> QED  BY <1>2, <1>3, <1>4

\* A step that leaves pc alone leaves the reserve alone.
LEMMA SameReserve == pc' = pc => Active' = Active
  BY DEF Active

\* Every step keeps the strengthened bound: only Check adds to the reserve, and it
\* finds the ledger below both limits; Record and Lose move money out of the reserve.
LEMMA InvStep == Inv /\ TypeOK' /\ [Next]_vars => LostBounded' /\ SpendBounded'
  <1> SUFFICES ASSUME Inv, TypeOK', [Next]_vars PROVE LostBounded' /\ SpendBounded'
    OBVIOUS
  <1> DEFINE n == Cardinality(Active)  N == Cardinality(Runners)
  <1>1. /\ N \in Nat /\ MaxRun \in Nat /\ DailyLimit \in Nat /\ MonthlyLimit \in Nat
        /\ day \in Nat /\ month \in Nat /\ lost \in Nat /\ losses \in Nat
        /\ IsFiniteSet(Active) /\ n \in Nat
        /\ lost <= losses * MaxRun
        /\ day + lost + n * MaxRun < DailyLimit + (N + losses) * MaxRun
        /\ month + lost + n * MaxRun < MonthlyLimit + (N + losses) * MaxRun
    <2>1. IsFiniteSet(Active)
      BY Constants, FS_Subset DEF Active
    <2> QED  BY <2>1, Constants, FS_CardinalityType DEF Inv, TypeOK, LostBounded, SpendBounded, Slack
  <1>2. \A r \in Runners : acc[r] \in Nat /\ acc[r] <= MaxRun
    BY RunBound DEF Inv, TypeOK
  <1>3. pc \in [Runners -> {"idle", "running", "finishing"}]
    BY DEF Inv, TypeOK
  <1>4. ASSUME NEW r \in Runners, Check(r) PROVE LostBounded' /\ SpendBounded'
    <2>1. n' = n + 1 /\ n' <= N
      BY <1>3, <1>4, Reserve DEF Check
    <2>2. n' * MaxRun <= N * MaxRun
      BY <1>1, <2>1
    <2>3. (N + losses) * MaxRun = N * MaxRun + losses * MaxRun
      BY <1>1
    <2>4. /\ day < DailyLimit /\ month < MonthlyLimit
          /\ UNCHANGED <<day, month, lost, losses>>
      BY <1>4 DEF Check
    <2> HIDE DEF n
    <2>5. n' * MaxRun \in Nat /\ N * MaxRun \in Nat /\ losses * MaxRun \in Nat
      BY <1>1, <2>1
    <2> QED  BY <1>1, <2>2, <2>3, <2>4, <2>5 DEF n, LostBounded, SpendBounded, Slack
  <1>5. ASSUME NEW r \in Runners, CallReturns(r) \/ Finish(r)
        PROVE  LostBounded' /\ SpendBounded'
    <2>1. UNCHANGED <<day, month, lost, losses>>
      BY <1>5 DEF CallReturns, Finish
    <2>2. Active' = Active
      <3>1. CASE CallReturns(r)
        BY <3>1, SameReserve DEF CallReturns
      <3>2. CASE Finish(r)
        BY <1>3, <3>2 DEF Finish, Active
      <3> QED  BY <1>5, <3>1, <3>2
    <2> QED  BY <1>1, <2>1, <2>2 DEF LostBounded, SpendBounded, Slack
  <1>9. ASSUME NEW r \in Runners, CallUnpriced(r)
        PROVE  LostBounded' /\ SpendBounded'
    <2>1. PICK cost \in 0..MaxCall : lost' = lost + cost
      BY <1>9 DEF CallUnpriced
    <2>2. cost \in Nat /\ cost <= MaxRun
      <3>1. cost \in Nat /\ cost <= 1 * MaxCall /\ 1 \in 0..MaxCalls
        BY Constants
      <3> QED  BY <3>1, RunBound
    <2>3. losses' = losses + 1 /\ UNCHANGED <<day, month>> /\ Active' = Active
      BY <1>9, SameReserve DEF CallUnpriced
    <2>4. /\ (N + losses + 1) * MaxRun = (N + losses) * MaxRun + MaxRun
          /\ (losses + 1) * MaxRun = losses * MaxRun + MaxRun
      BY <1>1
    <2>5. n * MaxRun \in Nat /\ (N + losses) * MaxRun \in Nat /\ losses * MaxRun \in Nat
      <3>1. \A k \in Nat : k * MaxRun \in Nat
        BY <1>1
      <3> QED  BY <1>1, <3>1
    <2> QED  BY <1>1, <2>1, <2>2, <2>3, <2>4, <2>5 DEF LostBounded, SpendBounded, Slack
  <1>6. ASSUME NEW r \in Runners, Abandon(r) \/ Record(r) \/ Lose(r)
        PROVE  LostBounded' /\ SpendBounded'
    <2>1. n' \in Nat /\ n = n' + 1
      <3>1. pc' = [pc EXCEPT ![r] = "idle"] /\ pc[r] # "idle"
        BY <1>6 DEF Abandon, Record, Lose, Forget
      <3>2. n' + 1 = n
        BY <1>3, <3>1, Reserve
      <3>3. IsFiniteSet(Active')
        BY Constants, FS_Subset DEF Active
      <3> QED  BY <3>2, <3>3, FS_CardinalityType
    <2>2. n * MaxRun = n' * MaxRun + MaxRun
      BY <1>1, <2>1
    <2>3. /\ (N + losses + 1) * MaxRun = (N + losses) * MaxRun + MaxRun
          /\ (losses + 1) * MaxRun = losses * MaxRun + MaxRun
      BY <1>1
    <2>4. acc[r] \in Nat /\ acc[r] <= MaxRun
      BY <1>2
    <2>5. \/ UNCHANGED <<day, month, lost, losses>>
          \/ day' = day + acc[r] /\ month' = month + acc[r] /\ UNCHANGED <<lost, losses>>
          \/ lost' = lost + acc[r] /\ losses' = losses + 1 /\ UNCHANGED <<day, month>>
      BY <1>6 DEF Abandon, Record, Lose
    <2>6. /\ n' * MaxRun \in Nat /\ (N + losses) * MaxRun \in Nat
          /\ losses * MaxRun \in Nat
      <3>1. \A k \in Nat : k * MaxRun \in Nat
        BY <1>1
      <3>2. N + losses \in Nat
        BY <1>1
      <3> QED  BY <1>1, <2>1, <3>1, <3>2
    <2> HIDE DEF n
    <2> QED  BY <1>1, <2>2, <2>3, <2>4, <2>5, <2>6 DEF n, LostBounded, SpendBounded, Slack
  <1>7. CASE Age
    <2>1. day' <= day /\ month' <= month /\ day' \in Nat /\ month' \in Nat
      BY <1>1, <1>7 DEF Age
    <2>2. UNCHANGED <<lost, losses>> /\ Active' = Active
      BY <1>7, SameReserve DEF Age
    <2> QED  BY <1>1, <2>1, <2>2 DEF LostBounded, SpendBounded, Slack
  <1>8. CASE UNCHANGED vars
    BY <1>1, <1>8, SameReserve DEF vars, LostBounded, SpendBounded, Slack
  <1> QED  BY <1>4, <1>5, <1>6, <1>7, <1>8, <1>9 DEF Next

\* Whatever runs concurrently and whatever is lost, spending stays below the
\* limit plus the slack (check_cost_limit before every run).
THEOREM Bounded == Spec => []SpendBounded
  <1>1. Init => LostBounded /\ SpendBounded
    <2> SUFFICES ASSUME Init PROVE LostBounded /\ SpendBounded
      OBVIOUS
    <2>1. Active = {}
      BY DEF Init, Active
    <2>2. Cardinality(Active) = 0
      BY <2>1, FS_EmptySet
    <2>3. Cardinality(Runners) * MaxRun \in Nat
      BY Constants
    <2> QED  BY <2>2, <2>3, Constants DEF Init, LostBounded, SpendBounded, Slack
  <1> QED  BY <1>1, TypingHolds, InvStep, PTL DEF Spec, Inv

-----------------------------------------------------------------------------
(* The fan-out *)

\* Every step of the sub-agent is a step of the ledger or leaves it alone.
LEMMA LedgerStep == [SubNext]_subspecvars => [Next]_vars
  <1> SUFFICES ASSUME [SubNext]_subspecvars PROVE [Next]_vars
    OBVIOUS
  <1>0. \A n \in Workers : n \in Runners
    BY SubAgentAssumption DEF Workers, Runners
  <1>1. ASSUME NEW k \in 0..MaxIds, NEW ids \in [1..k -> Videos], Request(ids) PROVE UNCHANGED vars
    BY <1>1 DEF Request
  <1>2. ASSUME NEW n \in Workers, Worker(n) PROVE Next \/ UNCHANGED vars
    <2>1. CASE Lookup(n)
      BY <2>1 DEF Lookup
    <2>2. CASE Refused(n)
      BY <2>2 DEF Refused
    <2>3. CASE Calls(n)
      BY <2>3, <1>0 DEF Calls, Next
    <2>4. CASE Answered(n)
      BY <2>4, <1>0 DEF Answered, Next
    <2>5. CASE Raises(n)
      BY <2>5, <1>0 DEF Raises, Next
    <2> QED  BY <1>2, <2>1, <2>2, <2>3, <2>4, <2>5 DEF Worker
  <1>3. ASSUME NEW n \in Workers, Collect(n) PROVE UNCHANGED vars
    BY <1>3 DEF Collect
  <1>4. CASE Return
    BY <1>4 DEF Return
  <1>5. CASE Others
    BY <1>5 DEF Others, Next
  <1>6. CASE UNCHANGED subspecvars
    BY <1>6 DEF subspecvars
  <1> QED  BY <1>1, <1>2, <1>3, <1>4, <1>5, <1>6 DEF SubNext

\* So what holds of the ledger holds while batches are under way.
LEMMA KeepsLedger == SubSpec => Spec
  <1>1. SubInit => Init
    BY DEF SubInit
  <1> QED  BY <1>1, LedgerStep, PTL DEF SubSpec, Spec

\* Five workers that pass the check before any of them has recorded do not get
\* beyond the slack that the ledger grants to its runners.
THEOREM BatchBounded == SubSpec => []SpendBounded
  BY KeepsLedger, Bounded, PTL

-----------------------------------------------------------------------------
\* What the properties need to know of a batch that is under way: a worker's
\* future is about its own id and true, and the supervisor's list holds futures
\* in their places.
FutureTells(n) ==
    /\ future[n].video = asked[n]
    /\ future[n].status = "ok" => asked[n] \in Stored /\ n \in billed
    /\ future[n].status = "NOT_FOUND" => asked[n] \notin Stored

BatchInv ==
    /\ asked \in Seq(Videos) /\ Positions \subseteq Workers
    /\ stage \in [Workers -> {"off", "queued", "calling", "done"}]
    /\ DOMAIN future = Workers
    /\ results = [n \in Positions |-> results[n]]
    /\ \A n \in Workers : stage[n] # "off" => n \in Positions
    /\ \A n \in Workers : stage[n] = "calling" => asked[n] \in Stored
    /\ \A n \in Workers : stage[n] = "done" => FutureTells(n)
    /\ \A n \in Positions : results[n] # None => stage[n] = "done" /\ results[n] = future[n]
    /\ asked # <<>> /\ ~open => \A n \in Positions : results[n] # None

\* A worker that returns leaves the list and the other workers' futures alone.
LEMMA DoneKeeps ==
    ASSUME BatchInv, NEW n \in Workers, NEW status,
           stage[n] \in {"queued", "calling"}, Done(n, status), billed \subseteq billed',
           status = "ok" => asked[n] \in Stored /\ n \in billed',
           status = "NOT_FOUND" => asked[n] \notin Stored
    PROVE  BatchInv'
  <1> USE DEF BatchInv, Positions
  <1>1. /\ stage' = [stage EXCEPT ![n] = "done"]
        /\ future' = [future EXCEPT ![n] = [video |-> asked[n], status |-> status]]
        /\ UNCHANGED <<asked, results, open, batches>>
    BY DEF Done
  <1>2. \A m \in Workers : stage'[m] = "done" => FutureTells(m)'
    <2> SUFFICES ASSUME NEW m \in Workers, stage'[m] = "done" PROVE FutureTells(m)'
      OBVIOUS
    <2>1. CASE m = n
      BY <1>1, <2>1 DEF FutureTells
    <2>2. CASE m # n
      BY <1>1, <2>2 DEF FutureTells
    <2> QED  BY <2>1, <2>2
  <1>3. \A m \in Positions : results[m] # None => m # n
    OBVIOUS
  <1>4. \A m \in Positions : results'[m] # None => stage'[m] = "done" /\ results'[m] = future'[m]
    BY <1>1, <1>3
  <1>5. n \in Positions
    OBVIOUS
  <1> QED  BY <1>1, <1>2, <1>4, <1>5

\* Cutting the ids off leaves a sequence of ids no longer than the pool.
LEMMA FirstIdsFit ==
    ASSUME NEW k \in 0..MaxIds, NEW ids \in [1..k -> Videos]
    PROVE  /\ FirstIds(ids) \in Seq(Videos)
           /\ DOMAIN FirstIds(ids) \subseteq Workers
           /\ ids = <<>> => FirstIds(ids) = <<>>
  <1>1. ids \in Seq(Videos) /\ Len(ids) = k /\ k \in Nat
    BY SubAgentAssumption
  <1>2. PICK m \in 0..MaxVideoIds : m <= k /\ FirstIds(ids) = SubSeq(ids, 1, m)
    <2>1. CASE k < MaxVideoIds
      BY <1>1, <2>1, SubAgentAssumption DEF FirstIds
    <2>2. CASE ~(k < MaxVideoIds)
      BY <1>1, <2>2, SubAgentAssumption DEF FirstIds
    <2> QED  BY <2>1, <2>2
  <1>3. FirstIds(ids) \in Seq(Videos) /\ Len(FirstIds(ids)) = m
    BY <1>1, <1>2
  <1>4. DOMAIN FirstIds(ids) = 1..m
    BY <1>3
  <1>5. ids = <<>> => FirstIds(ids) = <<>>
    BY <1>1, <1>2, <1>3
  <1> QED  BY <1>2, <1>3, <1>4, <1>5, SubAgentAssumption DEF Workers

LEMMA BatchAlways == SubSpec => []BatchInv
  <1>1. SubInit => BatchInv
    BY DEF SubInit, BatchInv, Positions
  <1>2. BatchInv /\ [SubNext]_subspecvars => BatchInv'
    <2> SUFFICES ASSUME BatchInv, [SubNext]_subspecvars PROVE BatchInv'
      OBVIOUS
    <2>1. ASSUME NEW k \in 0..MaxIds, NEW ids \in [1..k -> Videos], Request(ids) PROVE BatchInv'
      <3>1. asked' \in Seq(Videos) /\ DOMAIN asked' \subseteq Workers /\ (asked' # <<>> => open')
        BY <2>1, FirstIdsFit DEF Request
      <3>2. stage' = [n \in Workers |-> IF n \in DOMAIN asked' THEN "queued" ELSE "off"]
        BY <2>1 DEF Request
      <3>3. results' = [n \in DOMAIN asked' |-> None] /\ DOMAIN future' = Workers
        BY <2>1 DEF Request
      <3> QED  BY <3>1, <3>2, <3>3 DEF BatchInv, Positions
    <2>2. ASSUME NEW n \in Workers, Worker(n) PROVE BatchInv'
      <3>1. CASE Lookup(n)
        <4>1. CASE asked[n] \in Stored /\ stage' = [stage EXCEPT ![n] = "calling"]
                   /\ UNCHANGED <<asked, future, results, open, batches>>
          BY <3>1, <4>1 DEF Lookup, BatchInv, Positions, FutureTells
        <4>2. CASE asked[n] \notin Stored /\ Done(n, "NOT_FOUND")
          BY <3>1, <4>2, DoneKeeps DEF Lookup
        <4>3. CASE Done(n, "error")
          BY <3>1, <4>3, DoneKeeps DEF Lookup
        <4> QED  BY <3>1, <4>1, <4>2, <4>3 DEF Lookup
      <3>2. CASE Refused(n)
        BY <3>2, DoneKeeps DEF Refused
      <3>3. CASE Calls(n)
        BY <3>3 DEF Calls, subvars, BatchInv, Positions, FutureTells
      <3>4. CASE Answered(n)
        <4>1. asked[n] \in Stored /\ n \in billed' /\ billed \subseteq billed'
          BY <3>4 DEF Answered, BatchInv
        <4>2. Done(n, "ok") \/ Done(n, "error")
          BY <3>4 DEF Answered
        <4> QED  BY <3>4, <4>1, <4>2, DoneKeeps DEF Answered
      <3>5. CASE Raises(n)
        BY <3>5, DoneKeeps DEF Raises
      <3> QED  BY <2>2, <3>1, <3>2, <3>3, <3>4, <3>5 DEF Worker
    <2>3. ASSUME NEW n \in Workers, Collect(n) PROVE BatchInv'
      BY <2>3 DEF Collect, BatchInv, Positions, FutureTells
    <2>4. CASE Return
      BY <2>4 DEF Return, BatchInv, Positions, FutureTells
    <2>5. CASE Others
      BY <2>5 DEF Others, subvars, BatchInv, Positions, FutureTells
    <2>6. CASE UNCHANGED subspecvars
      BY <2>6 DEF subspecvars, subvars, BatchInv, Positions, FutureTells
    <2> QED  BY <2>1, <2>2, <2>3, <2>4, <2>5, <2>6 DEF SubNext
  <1> QED  BY <1>1, <1>2, PTL DEF SubSpec

\* The list summarize_videos_subagent returns answers its ids position by
\* position, an answer is about a stored video and recorded in the ledger, and
\* whatever a worker raises stays in its own place.
THEOREM EachAnswers == SubSpec => []EachAnswersItsVideo
  <1>1. BatchInv => EachAnswersItsVideo
    BY DEF BatchInv, EachAnswersItsVideo, FutureTells, Positions
  <1> QED  BY <1>1, BatchAlways, PTL

-----------------------------------------------------------------------------
\* The workers' bookkeeping, next to BatchInv.
WorkersInv ==
    /\ open \in BOOLEAN /\ batches \in 0..MaxBatches
    /\ \A n \in Workers :
          /\ n \in Positions => stage[n] # "off"
          /\ IF stage[n] = "done" THEN future[n] \in Answers ELSE future[n] = None
          /\ pc[n] # "idle" => stage[n] = "calling"

\* A worker that returns has let go of the ledger.
LEMMA DoneTyped ==
    ASSUME BatchInv, WorkersInv, NEW n \in Workers,
           NEW status \in {"ok", "NOT_FOUND", "COST_LIMIT_EXCEEDED", "error"},
           stage[n] \in {"queued", "calling"}, Done(n, status), pc'[n] = "idle",
           \A m \in Workers \ {n} : pc'[m] = pc[m]
    PROVE  WorkersInv'
  <1>1. /\ stage' = [stage EXCEPT ![n] = "done"]
        /\ future' = [future EXCEPT ![n] = [video |-> asked[n], status |-> status]]
        /\ UNCHANGED <<asked, results, open, batches>>
    BY DEF Done
  <1>2. asked[n] \in Videos
    BY DEF BatchInv, Positions
  <1>3. future'[n] \in Answers
    BY <1>1, <1>2 DEF Answers, BatchInv
  <1> QED  BY <1>1, <1>3 DEF WorkersInv, BatchInv, Positions

\* Steps of the ledger that change a worker's pc.
LEMMA LedgerPc ==
    ASSUME TypeOK, NEW n \in Runners
    PROVE  /\ Check(n) \/ CallReturns(n) \/ Finish(n) \/ Abandon(n) \/ Record(n) \/ Lose(n) =>
                 \A m \in Runners \ {n} : pc'[m] = pc[m]
           /\ CallUnpriced(n) => pc' = pc
           /\ Abandon(n) \/ Record(n) \/ Lose(n) => pc'[n] = "idle"
  BY DEF TypeOK, Check, CallReturns, CallUnpriced, Finish, Abandon, Record, Lose, Forget

\* Every worker of the pool has one state, and its place in the ledger, its future
\* and its row in the database agree with it.
THEOREM BatchTyped == SubSpec => []SubTypeOK
  <1>0. \A n \in Workers : n \in Runners
    BY SubAgentAssumption DEF Workers, Runners
  <1>1. SubInit => WorkersInv
    <2> SUFFICES ASSUME SubInit PROVE WorkersInv
      OBVIOUS
    <2>1. open \in BOOLEAN
      BY DEF SubInit
    <2>2. ASSUME NEW n \in Workers PROVE n \notin Positions /\ stage[n] = "off" /\ future[n] = None /\ pc[n] = "idle"
      BY <1>0 DEF SubInit, Init, Positions
    <2>3. batches = 0 /\ MaxBatches \in Nat
      BY SubAgentAssumption DEF SubInit
    <2>4. batches \in 0..MaxBatches
      BY <2>3
    <2> QED  BY <2>1, <2>2, <2>4 DEF WorkersInv
  <1>2. BatchInv /\ TypeOK /\ WorkersInv /\ [SubNext]_subspecvars => WorkersInv'
    <2> SUFFICES ASSUME BatchInv, TypeOK, WorkersInv, [SubNext]_subspecvars PROVE WorkersInv'
      OBVIOUS
    <2>1. ASSUME NEW k \in 0..MaxIds, NEW ids \in [1..k -> Videos], Request(ids) PROVE WorkersInv'
      <3>1. \A n \in Workers : stage[n] # "calling"
        BY <2>1 DEF Request, BatchInv, Positions
      <3>2. /\ stage' = [n \in Workers |-> IF n \in DOMAIN asked' THEN "queued" ELSE "off"]
            /\ future' = [n \in Workers |-> None] /\ pc' = pc
        BY <2>1 DEF Request, vars
      <3>3. batches' \in 0..MaxBatches /\ open' \in BOOLEAN
        BY <2>1, SubAgentAssumption DEF Request, WorkersInv
      <3> QED  BY <3>1, <3>2, <3>3 DEF WorkersInv, Positions
    <2>2. ASSUME NEW n \in Workers, Worker(n) PROVE WorkersInv'
      <3>1. CASE Lookup(n)
        <4>1. pc' = pc /\ pc[n] = "idle" /\ stage[n] = "queued"
          BY <3>1, <1>0 DEF Lookup, vars, WorkersInv
        <4>2. CASE /\ stage' = [stage EXCEPT ![n] = "calling"]
                   /\ UNCHANGED <<asked, future, results, open, batches>>
          BY <4>1, <4>2 DEF WorkersInv, BatchInv, Positions
        <4>3. CASE Done(n, "NOT_FOUND") \/ Done(n, "error")
          BY <4>1, <4>3, DoneTyped
        <4> QED  BY <3>1, <4>2, <4>3 DEF Lookup
      <3>2. CASE Refused(n)
        BY <3>2, DoneTyped DEF Refused, vars
      <3>3. CASE Calls(n)
        <4>1. stage[n] = "calling" /\ \A m \in Runners \ {n} : pc'[m] = pc[m]
          BY <3>3, <1>0, LedgerPc DEF Calls
        <4>2. UNCHANGED subvars
          BY <3>3 DEF Calls
        <4> QED  BY <1>0, <4>1, <4>2 DEF subvars, WorkersInv, Positions
      <3>4. CASE Answered(n) \/ Raises(n)
        <4>1. stage[n] = "calling" /\ (Record(n) \/ Abandon(n) \/ Lose(n))
          BY <3>4 DEF Answered, Raises
        <4>2. pc'[n] = "idle" /\ \A m \in Workers \ {n} : pc'[m] = pc[m]
          BY <1>0, <4>1, LedgerPc
        <4>3. Done(n, "ok") \/ Done(n, "error")
          BY <3>4 DEF Answered, Raises
        <4> QED  BY <4>1, <4>2, <4>3, DoneTyped
      <3> QED  BY <2>2, <3>1, <3>2, <3>3, <3>4 DEF Worker
    <2>3. ASSUME NEW n \in Workers, Collect(n) PROVE WorkersInv'
      BY <2>3 DEF Collect, vars, WorkersInv, Positions
    <2>4. CASE Return
      BY <2>4 DEF Return, vars, WorkersInv, Positions
    <2>5. CASE Others
      <3>1. UNCHANGED subvars
        BY <2>5 DEF Others
      <3>2. CASE Age
        BY <3>1, <3>2 DEF Age, subvars, WorkersInv, Positions
      <3>3. ASSUME NEW r \in Runners \ Workers,
                   Check(r) \/ CallReturns(r) \/ CallUnpriced(r) \/ Abandon(r) \/ Finish(r) \/ Record(r) \/ Lose(r)
            PROVE  WorkersInv'
        <4>1. \A m \in Workers : pc'[m] = pc[m]
          BY <1>0, <3>3, LedgerPc
        <4> QED  BY <3>1, <4>1 DEF subvars, WorkersInv, Positions
      <3> QED  BY <2>5, <3>2, <3>3 DEF Others
    <2>6. CASE UNCHANGED subspecvars
      BY <2>6 DEF subspecvars, subvars, vars, WorkersInv, Positions
    <2> QED  BY <2>1, <2>2, <2>3, <2>4, <2>5, <2>6 DEF SubNext
  <1>3. BatchInv /\ TypeOK /\ WorkersInv => SubTypeOK
    <2> SUFFICES ASSUME BatchInv, TypeOK, WorkersInv PROVE SubTypeOK
      OBVIOUS
    <2>1. results \in [Positions -> Answers \cup {None}]
      <3>1. \A n \in Positions : results[n] \in Answers \cup {None}
        BY DEF BatchInv, WorkersInv, Positions
      <3> QED  BY <3>1 DEF BatchInv
    <2> QED  BY <2>1 DEF SubTypeOK, BatchInv, WorkersInv
  <1> QED  BY <1>1, <1>2, <1>3, BatchAlways, KeepsLedger, TypingHolds, PTL DEF SubSpec
=============================================================================
