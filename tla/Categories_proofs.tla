-------------------------- MODULE Categories_proofs --------------------------
(***************************************************************************)
(* Whoever sorts channels and whoever imports them: the user's categories  *)
(* stay, the model's are up for review, and no later run pays again.       *)
(***************************************************************************)
EXTENDS Categories, FiniteSetTheorems, TLAPS

\* The processes that have selected a channel and not yet got its answer.
Waiting(c) == {p \in Sorters : c \in todo[p] \cup current[p]}

\* A channel that has been put into a category is not selected again, so every
\* further answer takes one process out of those that wait.
Settles(c) ==
    settled[c] > 0 =>
       /\ c \in locked \/ RowsOf(c, assigned) # {}
       /\ settled[c] + Cardinality(Waiting(c)) <= Cardinality(Sorters)

TablesInv == TypeOK /\ UserChoiceKept /\ AutoIsReviewed
PaidInv == TypeOK /\ \A c \in Channels : Settles(c)

-----------------------------------------------------------------------------
LEMMA InitTables == Init => TablesInv
  BY CategoriesAssumption DEF Init, TablesInv, TypeOK, UserChoiceKept, AutoIsReviewed, RowsOf, Rows

\* An answer adds rows for categories the channel is not in yet, by "auto".
LEMMA ApplyKeeps ==
    ASSUME TablesInv, NEW p \in Sorters, Apply(p)
    PROVE  TablesInv'
  <1>1. PICK c \in current[p], answer \in SUBSET Slugs :
          /\ categories' = categories \cup answer
          /\ assigned' = assigned \cup
                {[channel |-> c, category |-> s, by |-> "auto"] :
                    s \in answer \ CategoriesOf(c, assigned)}
          /\ review' = review \cup {c}
          /\ settled' = IF answer = {} THEN settled ELSE [settled EXCEPT ![c] = @ + 1]
    BY DEF Apply
  <1> DEFINE added == {[channel |-> c, category |-> s, by |-> "auto"] :
                          s \in answer \ CategoriesOf(c, assigned)}
  <1>2. c \in channels /\ c \in Channels
    BY <1>1 DEF TablesInv, TypeOK
  <1>3. /\ UNCHANGED <<channels, locked, todo, chosen, runs, aborts>>
        /\ current' = [current EXCEPT ![p] = {}] /\ pc' = [pc EXCEPT ![p] = "loop"]
    BY DEF Apply, Goto
  <1>4. /\ \A row \in added : /\ row \in Rows /\ row.channel = c /\ row.by = "auto"
                              /\ row.category \in answer
                              /\ row.category \notin CategoriesOf(c, assigned)
        /\ \A r1, r2 \in added : r1.category = r2.category => r1 = r2
    BY <1>2 DEF Rows
  <1>5. assigned' = assigned \cup added
    BY <1>1
  <1> HIDE DEF added
  <1>6. settled' \in [Channels -> Nat]
    BY <1>1, <1>2 DEF TablesInv, TypeOK
  <1>7. \A r1, r2 \in assigned' :
           r1.channel = r2.channel /\ r1.category = r2.category => r1 = r2
    <2>1. \A r \in assigned : r.channel = c => r.category \in CategoriesOf(c, assigned)
      BY DEF CategoriesOf, RowsOf
    <2> QED  BY <1>4, <1>5, <2>1 DEF TablesInv, TypeOK
  <1>8. TypeOK'
    BY <1>1, <1>2, <1>3, <1>4, <1>5, <1>6, <1>7 DEF TablesInv, TypeOK
  <1>9. UserChoiceKept'
    <2>1. \A d : {r \in RowsOf(d, assigned') : r.by = "user"} = {r \in RowsOf(d, assigned) : r.by = "user"}
      BY <1>4, <1>5 DEF RowsOf
    <2> QED  BY <1>3, <2>1 DEF TablesInv, UserChoiceKept
  <1>10. AutoIsReviewed'
    BY <1>1, <1>4, <1>5 DEF TablesInv, AutoIsReviewed
  <1> QED  BY <1>8, <1>9, <1>10 DEF TablesInv

\* The user's word replaces every row of the channel.
LEMMA AssignKeeps ==
    ASSUME TablesInv, NEW c \in Channels, NEW choice \in SUBSET Slugs, Assign(c, choice)
    PROVE  TablesInv'
  <1> DEFINE put == {[channel |-> c, category |-> s, by |-> "user"] : s \in choice}
  <1>1. /\ c \in channels /\ choice \subseteq categories
        /\ assigned' = (assigned \ RowsOf(c, assigned)) \cup put
        /\ locked' = locked \cup {c} /\ review' = review \ {c}
        /\ chosen' = [chosen EXCEPT ![c] = choice]
        /\ UNCHANGED <<channels, categories, pc, todo, current, settled, runs, aborts>>
    BY DEF Assign
  <1>2. /\ \A row \in put : row \in Rows /\ row.channel = c /\ row.by = "user" /\ row.category \in choice
        /\ \A r1, r2 \in put : r1.category = r2.category => r1 = r2
        /\ {row.category : row \in put} = choice
    <2>1. \A row \in put : \E s \in choice : row = [channel |-> c, category |-> s, by |-> "user"]
      OBVIOUS
    <2>2. \A s \in choice : [channel |-> c, category |-> s, by |-> "user"] \in put
      OBVIOUS
    <2>3. \A s \in choice : \E row \in put : row.category = s
      BY <2>2
    <2> HIDE DEF put
    <2>4. \A row \in put : row \in Rows /\ row.channel = c /\ row.by = "user" /\ row.category \in choice
      BY <2>1 DEF Rows
    <2>5. \A r1, r2 \in put : r1.category = r2.category => r1 = r2
      BY <2>1
    <2> QED  BY <2>3, <2>4, <2>5
  <1> HIDE DEF put
  <1>3. \A row \in assigned \ RowsOf(c, assigned) : row \in assigned /\ row.channel # c
    BY DEF RowsOf
  <1>4. TypeOK'
    BY <1>1, <1>2, <1>3 DEF TablesInv, TypeOK
  <1>5. UserChoiceKept'
    <2>1. RowsOf(c, assigned') = put
      BY <1>1, <1>2, <1>3 DEF RowsOf
    <2>2. {r \in RowsOf(c, assigned') : r.by = "user"} = put
      BY <1>2, <2>1
    <2>3. \A d \in Channels \ {c} : RowsOf(d, assigned') = RowsOf(d, assigned)
      BY <1>1, <1>2, <1>3 DEF RowsOf
    <2>4. chosen'[c] = choice /\ \A d \in Channels \ {c} : chosen'[d] = chosen[d]
      BY <1>1 DEF TablesInv, TypeOK
    <2> QED  BY <1>1, <1>2, <2>2, <2>3, <2>4 DEF TablesInv, UserChoiceKept
  <1>6. AutoIsReviewed'
    BY <1>1, <1>2, <1>3 DEF TablesInv, AutoIsReviewed
  <1> QED  BY <1>4, <1>5, <1>6 DEF TablesInv

\* The steps that write no rows.
LEMMA OthersKeep ==
    ASSUME TablesInv,
           \/ \E p \in Sorters : EnsureDefault(p) \/ SelectPending(p) \/ Ask(p) \/ Done(p) \/ Abort(p)
           \/ \E found \in SUBSET Channels : Import(found)
           \/ UNCHANGED vars
    PROVE  TablesInv'
  <1> USE DEF TablesInv, TypeOK, UserChoiceKept, AutoIsReviewed
  <1>1. ASSUME NEW p \in Sorters, EnsureDefault(p) PROVE TablesInv'
    BY <1>1, CategoriesAssumption DEF EnsureDefault, Goto, history
  <1>2. ASSUME NEW p \in Sorters, SelectPending(p) PROVE TablesInv'
    BY <1>2 DEF SelectPending, Goto, tables, history
  <1>3. ASSUME NEW p \in Sorters, Ask(p) PROVE TablesInv'
    BY <1>3 DEF Ask, Goto, tables, history
  <1>4. ASSUME NEW p \in Sorters, Done(p) PROVE TablesInv'
    BY <1>4 DEF Done, Goto, tables, history
  <1>5. ASSUME NEW p \in Sorters, Abort(p) PROVE TablesInv'
    BY <1>5, CategoriesAssumption DEF Abort, Goto, tables, history
  <1>6. ASSUME NEW found \in SUBSET Channels, Import(found) PROVE TablesInv'
    BY <1>6 DEF Import, tables, history
  <1>7. CASE UNCHANGED vars
    BY <1>7 DEF vars, tables, history
  <1> QED  BY <1>1, <1>2, <1>3, <1>4, <1>5, <1>6, <1>7

\* The tables are sound, the user's choices stay and the model's are reviewed.
LEMMA TablesHold == Spec => []TablesInv
  <1>1. TablesInv /\ [Next]_vars => TablesInv'
    BY ApplyKeeps, AssignKeeps, OthersKeep DEF Next
  <1> QED  BY InitTables, <1>1, PTL DEF Spec

\* The primary key and the foreign keys of channel_categories hold although the
\* model's is_new is not trusted and the known ids were read earlier.
THEOREM TablesTyped == Spec => []TypeOK
  <1>1. TablesInv => TypeOK
    BY DEF TablesInv
  <1> QED  BY TablesHold, <1>1, PTL

\* Whatever runs are under way and whatever is imported, the user's categories and
\* lock stay (assign_category_to_channel).
THEOREM ChoiceStays == Spec => []UserChoiceKept
  <1>1. TablesInv => UserChoiceKept
    BY DEF TablesInv
  <1> QED  BY TablesHold, <1>1, PTL

\* What _apply_assignments has written is up for review.
THEOREM AutoReviewed == Spec => []AutoIsReviewed
  <1>1. TablesInv => AutoIsReviewed
    BY DEF TablesInv
  <1> QED  BY TablesHold, <1>1, PTL

-----------------------------------------------------------------------------
\* Sets of sorters are finite, and a smaller set has fewer members.
LEMMA Fewer ==
    ASSUME NEW S \in SUBSET Sorters, NEW T \in SUBSET S
    PROVE  /\ Cardinality(S) \in Nat /\ Cardinality(T) \in Nat
           /\ Cardinality(T) <= Cardinality(S)
           /\ \A p \in S : p \notin T => Cardinality(T) + 1 <= Cardinality(S)
  <1>0. IsFiniteSet(Sorters) /\ S \subseteq Sorters /\ T \subseteq S
    BY CategoriesAssumption
  <1>1. IsFiniteSet(S) /\ IsFiniteSet(T)
    <2>1. IsFiniteSet(S)
      BY <1>0, FS_Subset
    <2> QED  BY <1>0, <2>1, FS_Subset
  <1>2. /\ Cardinality(S) \in Nat /\ Cardinality(T) \in Nat
        /\ Cardinality(T) <= Cardinality(S)
    BY <1>1, FS_CardinalityType, FS_Subset
  <1>3. ASSUME NEW p \in S, p \notin T PROVE Cardinality(T) + 1 <= Cardinality(S)
    <2>1. T \subseteq S /\ T # S
      BY <1>3
    <2>2. Cardinality(T) # Cardinality(S)
      BY <1>1, <2>1, FS_Subset
    <2> QED  BY <1>2, <2>2
  <1> QED  BY <1>2, <1>3

\* While nobody joins those who wait, and the answers and rows stay, nothing is lost.
LEMMA StillSettled ==
    ASSUME NEW c \in Channels, Settles(c), settled'[c] = settled[c], settled[c] \in Nat,
           c \in locked' \/ (RowsOf(c, assigned))' # {},
           Waiting(c)' \subseteq Waiting(c)
    PROVE  Settles(c)'
  <1>1. Waiting(c) \in SUBSET Sorters
    BY DEF Waiting
  <1>2. /\ Cardinality(Waiting(c)) \in Nat /\ Cardinality(Waiting(c)') \in Nat
        /\ Cardinality(Waiting(c)') <= Cardinality(Waiting(c))
    BY <1>1, Fewer
  <1>3. Cardinality(Sorters) \in Nat
    BY Fewer
  <1> QED  BY <1>2, <1>3 DEF Settles

\* What no answer has settled yet needs nothing.
LEMMA NotSettled ==
    ASSUME NEW c \in Channels, settled'[c] = 0
    PROVE  Settles(c)'
  BY DEF Settles

\* The process whose answer settles a channel leaves those who wait for it.
LEMMA ApplySettles ==
    ASSUME PaidInv, NEW p \in Sorters, Apply(p), NEW d \in Channels
    PROVE  Settles(d)'
  <1>1. PICK c \in current[p], answer \in SUBSET Slugs :
          /\ assigned' = assigned \cup
                {[channel |-> c, category |-> s, by |-> "auto"] :
                    s \in answer \ CategoriesOf(c, assigned)}
          /\ settled' = IF answer = {} THEN settled ELSE [settled EXCEPT ![c] = @ + 1]
    BY DEF Apply
  <1>2. current' = [current EXCEPT ![p] = {}] /\ UNCHANGED <<todo, locked>>
    BY DEF Apply
  <1>3. c \in Channels /\ settled[d] \in Nat /\ settled[c] \in Nat
    BY DEF PaidInv, TypeOK
  <1>4. Waiting(d)' \subseteq Waiting(d) /\ Waiting(d) \in SUBSET Sorters
    BY <1>2 DEF Waiting, PaidInv, TypeOK
  <1>5. RowsOf(d, assigned) \subseteq RowsOf(d, assigned)'
    BY <1>1 DEF RowsOf
  <1>6. CASE d # c \/ answer = {}
    <2>1. settled'[d] = settled[d]
      BY <1>1, <1>3, <1>6 DEF PaidInv, TypeOK
    <2>2. CASE settled[d] = 0
      BY <2>1, <2>2, NotSettled
    <2>3. CASE settled[d] > 0
      <3>1. Settles(d)
        BY DEF PaidInv
      <3>2. d \in locked' \/ (RowsOf(d, assigned))' # {}
        BY <1>2, <1>5, <2>3, <3>1 DEF Settles
      <3> QED  BY <1>3, <1>4, <2>1, <3>1, <3>2, StillSettled
    <2> QED  BY <1>3, <2>2, <2>3
  <1>7. CASE d = c /\ answer # {}
    <2>1. settled'[d] = settled[d] + 1
      BY <1>1, <1>3, <1>7 DEF PaidInv, TypeOK
    <2>2. p \in Waiting(d) /\ p \notin Waiting(d)'
      BY <1>1, <1>2, <1>7 DEF Waiting, PaidInv, TypeOK
    <2>3. /\ Cardinality(Waiting(d)) \in Nat /\ Cardinality(Waiting(d)') \in Nat
          /\ Cardinality(Waiting(d)') + 1 <= Cardinality(Waiting(d))
      BY <1>4, <2>2, Fewer
    <2>4. Cardinality(Waiting(d)) <= Cardinality(Sorters) /\ Cardinality(Sorters) \in Nat
      BY <1>4, Fewer
    <2>5. (RowsOf(d, assigned))' # {}
      <3>1. PICK s \in answer : TRUE
        BY <1>7
      <3>2. CASE s \in CategoriesOf(c, assigned)
        BY <1>5, <1>7, <3>2 DEF CategoriesOf
      <3>3. CASE s \notin CategoriesOf(c, assigned)
        <4>1. [channel |-> c, category |-> s, by |-> "auto"] \in assigned'
          BY <1>1, <3>3
        <4> QED  BY <1>7, <4>1 DEF RowsOf
      <3> QED  BY <3>2, <3>3
    <2>6. settled[d] = 0 \/ settled[d] + Cardinality(Waiting(d)) <= Cardinality(Sorters)
      BY <1>3 DEF PaidInv, Settles
    <2>7. settled'[d] + Cardinality(Waiting(d)') <= Cardinality(Sorters)
      BY <1>3, <2>1, <2>3, <2>4, <2>6
    <2> QED  BY <2>5, <2>7 DEF Settles
  <1> QED  BY <1>6, <1>7

\* The user's word empties a channel's rows at most together with locking it.
LEMMA AssignSettles ==
    ASSUME PaidInv, NEW c \in Channels, NEW choice \in SUBSET Slugs, Assign(c, choice),
           NEW d \in Channels
    PROVE  Settles(d)'
  <1>1. /\ locked' = locked \cup {c} /\ UNCHANGED <<todo, current, settled>>
        /\ assigned' = (assigned \ RowsOf(c, assigned)) \cup
              {[channel |-> c, category |-> s, by |-> "user"] : s \in choice}
    BY DEF Assign
  <1>2. settled'[d] = settled[d] /\ settled[d] \in Nat /\ Waiting(d)' = Waiting(d)
    BY <1>1 DEF PaidInv, TypeOK, Waiting
  <1>3. d # c => RowsOf(d, assigned) \subseteq RowsOf(d, assigned)'
    BY <1>1 DEF RowsOf
  <1>4. CASE settled[d] = 0
    BY <1>2, <1>4, NotSettled
  <1>5. CASE settled[d] > 0
    <2>1. Settles(d)
      BY DEF PaidInv
    <2>2. d \in locked' \/ (RowsOf(d, assigned))' # {}
      BY <1>1, <1>3, <1>5, <2>1 DEF Settles
    <2> QED  BY <1>2, <2>1, <2>2, StillSettled
  <1> QED  BY <1>2, <1>4, <1>5

\* A run takes channels that are neither locked nor in a category, and none else
\* begins to wait.
LEMMA SelectSettles ==
    ASSUME PaidInv, NEW p \in Sorters, SelectPending(p), NEW d \in Channels
    PROVE  Settles(d)'
  <1>1. PICK rows \in SUBSET {c \in channels \ locked : RowsOf(c, assigned) = {}} :
           todo' = [todo EXCEPT ![p] = rows]
    BY DEF SelectPending
  <1>2. UNCHANGED <<assigned, locked, current, settled>>
    BY DEF SelectPending, tables, history
  <1>3. settled'[d] = settled[d] /\ settled[d] \in Nat
    BY <1>2 DEF PaidInv, TypeOK
  <1>4. CASE settled[d] = 0
    BY <1>3, <1>4, NotSettled
  <1>5. CASE settled[d] > 0
    <2>1. Settles(d) /\ (d \in locked \/ RowsOf(d, assigned) # {})
      BY <1>5 DEF PaidInv, Settles
    <2>2. d \notin rows
      BY <1>1, <2>1
    <2>3. Waiting(d)' \subseteq Waiting(d)
      BY <1>1, <1>2, <2>2 DEF Waiting, PaidInv, TypeOK
    <2> QED  BY <1>2, <1>3, <2>1, <2>3, StillSettled
  <1> QED  BY <1>3, <1>4, <1>5

\* All other steps take processes out of those who wait, or change nothing here.
LEMMA OthersSettle ==
    ASSUME PaidInv, NEW d \in Channels,
           \/ \E p \in Sorters : EnsureDefault(p) \/ Ask(p) \/ Done(p) \/ Abort(p)
           \/ \E found \in SUBSET Channels : Import(found)
           \/ UNCHANGED vars
    PROVE  Settles(d)'
  <1>1. UNCHANGED <<assigned, locked, settled>>
    BY DEF EnsureDefault, Ask, Done, Abort, Import, vars, tables, history
  <1>2. Waiting(d)' \subseteq Waiting(d)
    <2> USE DEF PaidInv, TypeOK, Waiting
    <2>1. ASSUME NEW p \in Sorters, EnsureDefault(p) \/ Done(p) PROVE Waiting(d)' \subseteq Waiting(d)
      BY <2>1 DEF EnsureDefault, Done
    <2>2. ASSUME NEW p \in Sorters, Ask(p) PROVE Waiting(d)' \subseteq Waiting(d)
      BY <2>2 DEF Ask
    <2>3. ASSUME NEW p \in Sorters, Abort(p) PROVE Waiting(d)' \subseteq Waiting(d)
      BY <2>3 DEF Abort
    <2>4. ASSUME NEW found \in SUBSET Channels, Import(found) PROVE Waiting(d)' \subseteq Waiting(d)
      BY <2>4 DEF Import
    <2>5. CASE UNCHANGED vars
      BY <2>5 DEF vars
    <2> QED  BY <2>1, <2>2, <2>3, <2>4, <2>5
  <1>3. settled'[d] = settled[d] /\ settled[d] \in Nat
    BY <1>1 DEF PaidInv, TypeOK
  <1>4. CASE settled[d] = 0
    BY <1>3, <1>4, NotSettled
  <1>5. CASE settled[d] > 0
    <2>1. Settles(d)
      BY DEF PaidInv
    <2>2. d \in locked' \/ (RowsOf(d, assigned))' # {}
      BY <1>1, <1>5, <2>1 DEF Settles
    <2> QED  BY <1>2, <1>3, <2>1, <2>2, StillSettled
  <1> QED  BY <1>3, <1>4, <1>5

\* Every later run passes over a channel that has a category, or that the user has
\* locked: however many runs there are, no channel is paid for with a useful answer
\* more often than there are processes (categorize_all_pending's docstring).
THEOREM NeverPaidAgain == Spec => []PaidOnce
  <1>1. Init => \A c \in Channels : Settles(c)
    BY DEF Init, Settles
  <1>2. TypeOK /\ TypeOK' /\ (\A c \in Channels : Settles(c)) /\ [Next]_vars
           => (\A c \in Channels : Settles(c))'
    <2> SUFFICES ASSUME PaidInv, [Next]_vars, NEW d \in Channels PROVE Settles(d)'
      BY DEF PaidInv
    <2> QED  BY ApplySettles, AssignSettles, SelectSettles, OthersSettle DEF Next
  <1>3. TypeOK /\ (\A c \in Channels : Settles(c)) => PaidOnce
    <2> SUFFICES ASSUME TypeOK, NEW c \in Channels, Settles(c) PROVE settled[c] <= Cardinality(Sorters)
      BY DEF PaidOnce
    <2>1. Waiting(c) \in SUBSET Sorters
      BY DEF Waiting
    <2>2. Cardinality(Waiting(c)) \in Nat /\ Cardinality(Sorters) \in Nat /\ settled[c] \in Nat
      BY <2>1, Fewer DEF TypeOK
    <2> QED  BY <2>2 DEF Settles
  <1> QED  BY <1>1, <1>2, <1>3, TablesTyped, PTL DEF Spec
=============================================================================
