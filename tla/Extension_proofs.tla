-------------------------- MODULE Extension_proofs --------------------------
(***************************************************************************)
(* The two parts of the extension.  Content script: whatever runs of       *)
(* handleNavigation, clicks, answers and changes of the page come between  *)
(* each other, badges come once, late cards are not forgotten, and the     *)
(* filter hides what it should and nothing else.  Side panel: whatever the *)
(* user does to the page while a stream is read, events stand in order and *)
(* the conversation goes on in its thread.                                 *)
(***************************************************************************)
EXTENDS ContentScript, SidePanel, SequenceTheorems, TLAPS

(* The content script *)

PageInv == TypeOK /\ BadgedOnce /\ LateCardsBadged /\ FilterHonest

USE DEF PageInv

-----------------------------------------------------------------------------
\* A step of the bound's counter keeps it a counter.
LEMMA Counts ==
    ASSUME TypeOK, NEW what \in {"navigations", "changes", "clicks"}, NEW max, Count(what, max)
    PROVE  steps' \in [{"navigations", "changes", "clicks"} -> Nat]
  BY DEF TypeOK, Count

\* Badging the cards again neither doubles a badge nor misses a card that is known.
LEMMA BadgesAdd ==
    ASSUME NEW count \in [Videos -> Nat], NEW shown \in SUBSET Videos, NEW known
    PROVE  LET new == Badged(count, shown, known) IN
           /\ new \in [Videos -> Nat]
           /\ \A v \in Videos : /\ count[v] = 1 => new[v] = 1
                                /\ count[v] <= 1 => new[v] <= 1
                                /\ new[v] = 1 => count[v] = 1 \/ v \in shown
                                /\ v \in shown \cap known /\ count[v] <= 1 => new[v] = 1
  BY DEF Badged

LEMMA InitPage == Init => PageInv
  <1> SUFFICES ASSUME Init PROVE PageInv
    OBVIOUS
  <1>1. pc \in [Runs -> {"idle", "load", "answered", "bar", "grid"}]
    BY DEF Init
  <1>2. steps \in [{"navigations", "changes", "clicks"} -> Nat]
    <2>1. steps = [navigations |-> 0, changes |-> 0, clicks |-> 0]
      BY DEF Init
    <2> QED  BY <2>1
  <1>3. badges \in [Videos -> Nat] /\ answer \in [Runs -> SUBSET feed] /\ asking \in [Clicks -> Categories \cup {All}]
    BY DEF Init
  <1>4. TypeOK
    BY <1>1, <1>2, <1>3 DEF Init, TypeOK
  <1>5. BadgedOnce /\ LateCardsBadged /\ FilterHonest
    BY DEF Init, BadgedOnce, LateCardsBadged, FilterHonest
  <1> QED  BY <1>4, <1>5

\* The end of a run, from the tab bar on, badges what the script knows by then.
LEMMA InjectKeeps ==
    ASSUME PageInv, NEW r \in Runs, Inject(r, index'), index' \subseteq feed, bars' \in Nat,
           answer' \in [Runs -> SUBSET feed]
    PROVE  PageInv'
  <1>1. /\ badges' = Badged(badges, cards, index')
        /\ UNCHANGED <<page, dom, cards, feed, active, allowed, hidden, asking, late, steps>>
    BY DEF Inject, dompage, filter
  <1>2. pc' \in [Runs -> {"idle", "load", "answered", "bar", "grid"}] /\ observing' \in BOOLEAN
    BY DEF Inject, TypeOK
  <1>3. dom # "grid" => ~observing'
    BY DEF Inject, TypeOK
  <1>4. TypeOK'
    BY <1>1, <1>2, <1>3, BadgesAdd DEF TypeOK
  <1>5. BadgedOnce' /\ LateCardsBadged'
    BY <1>1, BadgesAdd DEF TypeOK, BadgedOnce, LateCardsBadged
  <1>6. FilterHonest'
    BY <1>1 DEF FilterHonest
  <1> QED  BY <1>4, <1>5, <1>6

\* The steps of a run.
LEMMA RunKeeps ==
    ASSUME PageInv, NEW r \in Runs,
           \/ Answer(r) \/ LoadFails(r) \/ Loaded(r) \/ HeaderFound(r) \/ HeaderMissing(r)
           \/ GridFound(r) \/ GridMissing(r)
    PROVE  PageInv'
  <1>1. CASE Answer(r)
    BY <1>1 DEF Answer, dompage, filter, TypeOK, BadgedOnce, LateCardsBadged, FilterHonest
  <1>2. CASE LoadFails(r)
    BY <1>2 DEF LoadFails, dompage, filter, TypeOK, BadgedOnce, LateCardsBadged, FilterHonest
  <1>3. CASE Loaded(r)
    <2>1. index' = answer[r] /\ answer' = [answer EXCEPT ![r] = {}]
      BY <1>3 DEF Loaded
    <2>2. index' \subseteq feed /\ answer' \in [Runs -> SUBSET feed]
      BY <2>1 DEF TypeOK
    <2>3. CASE bars > 0
      BY <1>3, <2>1, <2>2, <2>3, InjectKeeps DEF Loaded, TypeOK
    <2>4. CASE ~(bars > 0) /\ bars = 0 /\ dom # "nothing"
      <3>1. bars' = 1 /\ Inject(r, index')
        BY <1>3, <2>1, <2>4 DEF Loaded
      <3> QED  BY <2>2, <3>1, InjectKeeps
    <2>5. CASE ~(bars > 0) /\ ~(bars = 0 /\ dom # "nothing")
      <3>1. /\ dom = "nothing" /\ pc' = [pc EXCEPT ![r] = "bar"]
            /\ UNCHANGED <<dompage, badges, bars, filter, observing, late, steps>>
        BY <1>3, <2>5 DEF Loaded, TypeOK
      <3>2. cards = {} /\ late = {}
        BY <3>1 DEF TypeOK
      <3> QED  BY <2>2, <3>1, <3>2 DEF dompage, filter, TypeOK, BadgedOnce, LateCardsBadged, FilterHonest
    <2> QED  BY <2>3, <2>4, <2>5
  <1>4. CASE HeaderFound(r) \/ HeaderMissing(r)
    <2>1. Inject(r, index') /\ index' = index /\ answer' = answer /\ bars' \in {bars, bars + 1}
      BY <1>4 DEF HeaderFound, HeaderMissing
    <2>2. index' \subseteq feed /\ answer' \in [Runs -> SUBSET feed] /\ bars' \in Nat
      BY <2>1 DEF TypeOK
    <2> QED  BY <2>1, <2>2, InjectKeeps
  <1>5. CASE GridFound(r) \/ GridMissing(r)
    <2>1. UNCHANGED <<dompage, index, badges, bars, filter, answer, late, steps>>
      BY <1>5 DEF GridFound, GridMissing
    <2>2. pc' = [pc EXCEPT ![r] = "idle"] /\ observing' \in BOOLEAN /\ (dom # "grid" => ~observing')
      <3>1. CASE GridFound(r)
        BY <3>1 DEF GridFound
      <3>2. CASE GridMissing(r)
        BY <3>2 DEF GridMissing, TypeOK
      <3> QED  BY <1>5, <3>1, <3>2
    <2>3. TypeOK'
      BY <2>1, <2>2 DEF dompage, filter, TypeOK
    <2> QED  BY <2>1, <2>3 DEF dompage, filter, BadgedOnce, LateCardsBadged, FilterHonest
  <1> QED  BY <1>1, <1>2, <1>3, <1>4, <1>5

\* The user: away from the page and back, and from tab to tab.
LEMMA UserKeeps ==
    ASSUME PageInv, Navigate \/ Click \/ \E k \in Clicks : ListComes(k) \/ ListFails(k)
    PROVE  PageInv'
  <1>1. CASE Navigate
    <2>1. steps' \in [{"navigations", "changes", "clicks"} -> Nat]
      BY <1>1, Counts DEF Navigate
    <2>2. /\ page' \in {"subscriptions", "other"}
          /\ pc' \in [Runs -> {"idle", "load", "answered", "bar", "grid"}]
          /\ observing' \in BOOLEAN /\ (~observing => ~observing')
          /\ UNCHANGED <<dom, cards, feed, index, badges, bars, filter, answer, late>>
      <3>1. CASE page' = "other" /\ observing' = FALSE /\ UNCHANGED pc
        BY <1>1, <3>1 DEF Navigate, TypeOK
      <3>2. CASE /\ page' = "subscriptions"
                 /\ \E r \in Runs : pc[r] = "idle" /\ pc' = [pc EXCEPT ![r] = "load"]
                 /\ UNCHANGED observing
        BY <1>1, <3>2 DEF Navigate, TypeOK
      <3> QED  BY <1>1, <3>1, <3>2 DEF Navigate
    <2>3. TypeOK'
      BY <2>1, <2>2 DEF filter, TypeOK
    <2> QED  BY <2>2, <2>3 DEF filter, BadgedOnce, LateCardsBadged, FilterHonest
  <1>2. CASE Click
    <2>1. steps' \in [{"navigations", "changes", "clicks"} -> Nat]
      BY <1>2, Counts DEF Click
    <2>2. UNCHANGED <<dompage, index, badges, bars, observing, pc, answer, late>>
      BY <1>2 DEF Click
    <2>3. /\ active' \in Categories \cup {All}
          /\ asking' \in [Clicks -> Categories \cup {All}]
          /\ \/ allowed' = Videos /\ hidden' = {}
             \/ UNCHANGED <<allowed, hidden>>
      BY <1>2 DEF Click, TypeOK, Hidden
    <2> QED  BY <2>1, <2>2, <2>3 DEF dompage, TypeOK, BadgedOnce, LateCardsBadged, FilterHonest
  <1>3. ASSUME NEW k \in Clicks, ListComes(k) \/ ListFails(k) PROVE PageInv'
    <2>1. UNCHANGED <<dompage, index, badges, bars, active, observing, pc, answer, late, steps>>
      BY <1>3 DEF ListComes, ListFails
    <2>2. allowed' \subseteq Videos /\ hidden' = cards \ allowed' /\ asking' = [asking EXCEPT ![k] = All]
      BY <1>3 DEF ListComes, ListFails, Hidden, TypeOK
    <2> QED  BY <2>1, <2>2 DEF dompage, TypeOK, BadgedOnce, LateCardsBadged, FilterHonest
  <1> QED  BY <1>1, <1>2, <1>3

\* What YouTube renders, adds and takes away, and what the server discovers.
LEMMA PageKeeps ==
    ASSUME PageInv, Render \/ \E v \in Videos : AddCard(v) \/ RemoveCard(v) \/ Discover(v)
    PROVE  PageInv'
  <1>1. CASE Render
    <2>1. UNCHANGED <<page, feed, index, badges, bars, filter, observing, pc, answer, late, steps>>
      BY <1>1 DEF Render
    <2>2. dom # "grid" /\ dom' \in {"header", "grid"} /\ cards' \subseteq Videos /\ (dom' # "grid" => cards' = {})
      BY <1>1 DEF Render, TypeOK
    <2>3. cards = {} /\ hidden = {} /\ late = {} /\ ~observing
      BY <2>2 DEF TypeOK
    <2> QED  BY <2>1, <2>2, <2>3 DEF filter, TypeOK, BadgedOnce, LateCardsBadged, FilterHonest
  <1>2. ASSUME NEW v \in Videos, AddCard(v) PROVE PageInv'
    <2>1. steps' \in [{"navigations", "changes", "clicks"} -> Nat]
      BY <1>2, Counts DEF AddCard
    <2>2. /\ dom = "grid" /\ cards' = cards \cup {v}
          /\ UNCHANGED <<page, dom, feed, index, bars, active, allowed, asking, observing, pc, answer>>
      BY <1>2 DEF AddCard
    <2>3. CASE observing
      <3>1. late' = late \cup {v} /\ badges' = Badged(badges, cards', index) /\ hidden' = cards' \ allowed
        BY <1>2, <2>3 DEF AddCard, Observed, Hidden
      <3>2. TypeOK'
        <4>1. cards' \in SUBSET Videos
          BY <2>2 DEF TypeOK
        <4>2. badges' \in [Videos -> Nat]
          BY <3>1, <4>1, BadgesAdd DEF TypeOK
        <4> QED  BY <2>1, <2>2, <3>1, <4>1, <4>2 DEF TypeOK
      <3>3. BadgedOnce' /\ LateCardsBadged'
        BY <2>2, <3>1, BadgesAdd DEF TypeOK, BadgedOnce, LateCardsBadged
      <3> QED  BY <2>2, <3>1, <3>2, <3>3 DEF TypeOK, FilterHonest
    <2>4. CASE ~observing
      <3>1. UNCHANGED <<late, badges, hidden>>
        BY <1>2, <2>4 DEF AddCard, Observed
      <3> QED  BY <2>1, <2>2, <3>1 DEF TypeOK, BadgedOnce, LateCardsBadged, FilterHonest
    <2> QED  BY <2>3, <2>4
  <1>3. ASSUME NEW v \in Videos, RemoveCard(v) PROVE PageInv'
    <2> DEFINE shown == IF observing THEN cards' ELSE {}
    <2>1. steps' \in [{"navigations", "changes", "clicks"} -> Nat]
      BY <1>3, Counts DEF RemoveCard
    <2>2. /\ v \in cards /\ cards' = cards \ {v} /\ late' = late \ {v}
          /\ badges' = [Badged(badges, shown, index) EXCEPT ![v] = 0]
          /\ hidden' = IF observing THEN cards' \ allowed ELSE hidden \ {v}
          /\ UNCHANGED <<page, dom, feed, index, bars, active, allowed, asking, observing, pc, answer>>
      BY <1>3 DEF RemoveCard, Hidden
    <2>3. shown \subseteq cards' /\ shown \in SUBSET Videos
      BY <2>2 DEF TypeOK
    <2>4. TypeOK'
      BY <2>1, <2>2, <2>3, BadgesAdd DEF TypeOK
    <2>5. BadgedOnce' /\ LateCardsBadged'
      <3> DEFINE new == Badged(badges, shown, index)
      <3>1. /\ new \in [Videos -> Nat]
            /\ \A w \in Videos : /\ badges[w] = 1 => new[w] = 1
                                 /\ badges[w] <= 1 => new[w] <= 1
                                 /\ new[w] = 1 => badges[w] = 1 \/ w \in shown
        <4>1. badges \in [Videos -> Nat]
          BY DEF TypeOK
        <4> HIDE DEF shown
        <4> QED  BY <2>3, <4>1, BadgesAdd
      <3>2. \A w \in Videos : badges'[w] = IF w = v THEN 0 ELSE new[w]
        BY <2>2, <3>1
      <3>3. BadgedOnce'
        BY <2>2, <2>3, <3>1, <3>2 DEF BadgedOnce
      <3>4. LateCardsBadged'
        BY <2>2, <3>1, <3>2 DEF TypeOK, LateCardsBadged
      <3> QED  BY <3>3, <3>4
    <2> QED  BY <2>2, <2>4, <2>5 DEF TypeOK, FilterHonest
  <1>4. ASSUME NEW v \in Videos, Discover(v) PROVE PageInv'
    BY <1>4 DEF Discover, filter, TypeOK, BadgedOnce, LateCardsBadged, FilterHonest
  <1> QED  BY <1>1, <1>2, <1>3, <1>4

LEMMA PageStays == PageInv /\ [Next]_vars => PageInv'
  <1>1. PageInv /\ UNCHANGED vars => PageInv'
    BY DEF vars, dompage, filter, TypeOK, BadgedOnce, LateCardsBadged, FilterHonest
  <1>2. PageInv /\ Next => PageInv'
    BY RunKeeps, UserKeeps, PageKeeps DEF Next
  <1> QED  BY <1>1, <1>2

-----------------------------------------------------------------------------
LEMMA PageAlways == Spec => []PageInv
  BY InitPage, PageStays, PTL DEF Spec

\* The script's state keeps its types, and acts on nothing that is not there.
THEOREM PageTyped == Spec => []TypeOK
  BY PageAlways, PTL

\* No card carries two badges, whatever passes of applyBadgesToAllCards overlap.
THEOREM CardsBadgedOnce == Spec => []BadgedOnce
  BY PageAlways, PTL

\* The observer misses no card that comes while it watches the grid.
THEOREM LateCardsAreBadged == Spec => []LateCardsBadged
  BY PageAlways, PTL

\* The filter hides no card that its list allows, and of the late ones all others.
THEOREM FilterIsHonest == Spec => []FilterHonest
  BY PageAlways, PTL

-----------------------------------------------------------------------------
(* The side panel *)

\* What the panel's sequences hold.
Kinds == {"run_started", "text", "tool_call", "approval_required"}
Messages == [kind : Kinds, of : Nat, number : Nat]
Elements == [shows : Seq(Nat), approval : Nat, answered : BOOLEAN]

\* What the variables hold, past what PanelTypeOK says of them.
PanelTypes ==
    /\ screen \in Seq(Elements) /\ wire \in Seq(Messages)
    /\ server \in [at : {"none", "run", "wait", "ended"}, thread : Nat, approval : Nat]
    /\ stopped \in [1..MaxSends -> Nat] /\ verdicts \in Seq({"none", "allow", "deny"})
    /\ posts \subseteq [approval : Nat, decision : {"allow", "deny"}]
    /\ threads \in Nat /\ events \in Nat /\ fresh \in Nat
    /\ counts \in [sends : 0..MaxSends, troubles : Nat]

\* One if a message is sent that the server has not accepted.
Connecting == IF phase \in {"read", "connect"} THEN 1 ELSE 0

\* Each message begins one thread at most, and lets a thread ask again once at most;
\* there is nothing on the wire before the server has accepted it.
SendsCounted ==
    /\ phase # "stream" => wire = <<>>
    /\ threads + Connecting <= counts.sends
    /\ events + Connecting <= MaxEvents + counts.sends
    /\ server.at # "none" => server.thread \in 1..threads

\* What is on the wire comes after what was read, and run_started before the rest.
WireInOrder ==
    /\ \A n \in DOMAIN wire :
          /\ wire[n].kind = "run_started" => n = 1 /\ wire[n].of \in 1..threads /\ wire[n].number = 0
          /\ wire[n].kind \in {"text", "tool_call"} => wire[n].of = 0
          /\ wire[n].kind = "approval_required" => wire[n].of \in 1..Len(verdicts)
          /\ wire[n].kind # "run_started" => wire[n].number \in 1..events
          /\ wire[n].kind # "run_started" => \A x \in received : x < wire[n].number
    /\ \A m, n \in DOMAIN wire : m < n => wire[m].number < wire[n].number

\* ShownInOrder, of any screen.
ShownBy(s) == UNION {Range(s[n].shows) : n \in DOMAIN s}
InOrder(s) ==
    \A m, n \in DOMAIN s : \A i \in DOMAIN s[m].shows, j \in DOMAIN s[n].shows :
        m < n \/ (m = n /\ i < j) => s[m].shows[i] < s[n].shows[j]

\* No element is empty, and the n-th one shows no event before the n-th.
Grows(s) ==
    \A n \in DOMAIN s :
        Len(s[n].shows) > 0 /\ \A i \in DOMAIN s[n].shows : n <= s[n].shows[i]

\* Only an element of a stream that was torn is off the page.
ScreenGrows == Grows(screen) /\ (bubble = Detached => torn)

Starting == \E e \in Range(wire) : e.kind = "run_started"

\* Where no thread is stored, all of them are accounted for by resets and lost
\* streams, unless the newest is about to be named.
ThreadsCounted ==
    /\ threads <= 1 + fresh
    /\ stored = 0 /\ ~(asked = 0 /\ Starting) => threads <= fresh
    /\ phase = "connect" /\ asked = 0 => threads <= fresh

\* What makes the three invariants of the panel inductive.
PanelInv ==
    /\ PanelTypeOK /\ PanelTypes /\ SendsCounted /\ WireInOrder /\ ScreenGrows
    /\ ShownInOrder /\ ThreadsCounted

-----------------------------------------------------------------------------
LEMMA InitPanel == PanelInit => PanelInv
  <1> SUFFICES ASSUME PanelInit PROVE PanelInv
    OBVIOUS
  <1> USE PanelAssumption DEF PanelInit
  <1>1. screen = <<>> /\ wire = <<>> /\ verdicts = <<>> /\ received = {}
    OBVIOUS
  <1>2. PanelTypes
    BY DEF PanelTypes, Off
  <1>3. SendsCounted
    BY DEF SendsCounted, Connecting, Off
  <1>4. WireInOrder /\ ScreenGrows
    <2>1. Detached # 0 /\ DOMAIN screen = {} /\ DOMAIN wire = {}
      BY DEF Detached, LastEvent
    <2> QED  BY <2>1 DEF WireInOrder, ScreenGrows, Grows, None
  <1>5. ShownInOrder
    BY DEF ShownInOrder
  <1>6. ThreadsCounted
    BY DEF ThreadsCounted
  <1>7. PanelTypeOK
    <2>1. Len(screen) = 0 /\ Len(verdicts) = 0 /\ DOMAIN screen = {} /\ MaxSends \in Nat
      OBVIOUS
    <2>2. server.at = "none" /\ server.approval = 0
      BY DEF Off
    <2>3. \A t \in DOMAIN stopped : stopped[t] \in 0..Len(verdicts)
      BY <2>1
    <2>4. stored \in 0..threads /\ asked \in 0..threads /\ threads <= MaxSends
      BY <2>1
    <2>5. \A n \in DOMAIN screen : screen[n].approval \in 0..Len(verdicts)
      BY <2>1
    <2>6. open /\ open \in BOOLEAN /\ torn \in BOOLEAN /\ spoiled \in BOOLEAN
      OBVIOUS
    <2>7. posts = {} /\ received = {} /\ phase = "idle" /\ bubble = None
      OBVIOUS
    <2> HIDE DEF PanelInit
    <2> QED  BY <2>2, <2>3, <2>4, <2>5, <2>6, <2>7 DEF PanelTypeOK
  <1> QED  BY <1>2, <1>3, <1>4, <1>5, <1>6, <1>7 DEF PanelInv

\* The elements on the screen and the messages on the wire, one by one.
LEMMA ElementFacts ==
    ASSUME PanelTypes, NEW n \in DOMAIN screen
    PROVE  /\ n \in 1..Len(screen) /\ Len(screen) \in Nat
           /\ screen[n] \in Elements
           /\ screen[n].shows \in Seq(Nat)
           /\ DOMAIN screen[n].shows = 1..Len(screen[n].shows) /\ Len(screen[n].shows) \in Nat
           /\ \A i \in DOMAIN screen[n].shows : screen[n].shows[i] \in Nat
  <1>1. n \in 1..Len(screen) /\ Len(screen) \in Nat
    BY LenProperties DEF PanelTypes
  <1>2. screen[n] \in Elements
    BY <1>1, ElementOfSeq DEF PanelTypes
  <1>3. screen[n].shows \in Seq(Nat)
    BY <1>2 DEF Elements
  <1> QED  BY <1>1, <1>2, <1>3, LenProperties, ElementOfSeq

LEMMA MessageFacts ==
    ASSUME PanelTypes
    PROVE  /\ DOMAIN wire = 1..Len(wire) /\ Len(wire) \in Nat
           /\ \A n \in DOMAIN wire : wire[n] \in Messages
           /\ Range(wire) = {wire[n] : n \in DOMAIN wire}
  BY LenProperties, ElementOfSeq DEF PanelTypes, Range

-----------------------------------------------------------------------------
(* The screen *)

\* The elements of a screen, one by one.
LEMMA ShowsFacts ==
    ASSUME NEW s \in Seq(Elements)
    PROVE  /\ DOMAIN s = 1..Len(s) /\ Len(s) \in Nat
           /\ \A n \in 1..Len(s) : s[n] \in Elements
           /\ \A n \in 1..Len(s) : s[n].shows \in Seq(Nat)
           /\ \A n \in 1..Len(s) : DOMAIN s[n].shows = 1..Len(s[n].shows) /\ Len(s[n].shows) \in Nat
           /\ \A n \in 1..Len(s) : \A i \in 1..Len(s[n].shows) : s[n].shows[i] \in Nat
           /\ \A n \in 1..Len(s) : \A i \in 1..Len(s[n].shows) : s[n].shows[i] \in ShownBy(s)
  <1>1. DOMAIN s = 1..Len(s) /\ Len(s) \in Nat /\ \A n \in 1..Len(s) : s[n] \in Elements
    BY LenProperties, ElementOfSeq
  <1>2. \A n \in 1..Len(s) : s[n].shows \in Seq(Nat)
    BY <1>1 DEF Elements
  <1>3. \A n \in 1..Len(s) : DOMAIN s[n].shows = 1..Len(s[n].shows) /\ Len(s[n].shows) \in Nat
    BY <1>2, LenProperties
  <1>4. ASSUME NEW n \in 1..Len(s), NEW i \in 1..Len(s[n].shows) PROVE s[n].shows[i] \in Nat
    BY <1>2, ElementOfSeq
  <1>5. ASSUME NEW n \in 1..Len(s), NEW i \in 1..Len(s[n].shows) PROVE s[n].shows[i] \in ShownBy(s)
    <2>1. s[n].shows[i] \in Range(s[n].shows)
      BY <1>3 DEF Range
    <2> QED  BY <1>1, <2>1 DEF ShownBy
  <1> QED  BY <1>1, <1>2, <1>3, <1>4, <1>5

\* An element for one more event goes to the end of the screen.
LEMMA ElementAdded ==
    ASSUME NEW s \in Seq(Elements), NEW e \in Elements, NEW x \in Nat \ {0}, e.shows = <<x>>,
           \A y \in ShownBy(s) : y < x, InOrder(s), Grows(s), NEW t, t = Append(s, e)
    PROVE  /\ t \in Seq(Elements) /\ Len(t) = Len(s) + 1 /\ InOrder(t) /\ Grows(t)
           /\ ShownBy(t) = ShownBy(s) \cup {x}
  <1>1. Len(e.shows) = 1 /\ DOMAIN e.shows = 1..1 /\ e.shows[1] = x /\ Range(e.shows) = {x}
    BY DEF Range
  <1>2. /\ t \in Seq(Elements) /\ Len(t) = Len(s) + 1 /\ t[Len(s) + 1] = e
        /\ \A n \in 1..Len(s) : t[n] = s[n]
    BY AppendProperties
  <1>3. DOMAIN t = 1..Len(s) + 1 /\ DOMAIN s = 1..Len(s) /\ Len(s) \in Nat
    BY <1>2, LenProperties
  <1>4. Len(s) + 1 <= x
    <2>1. CASE Len(s) = 0
      BY <2>1
    <2>2. CASE Len(s) # 0
      <3>1. Len(s) \in DOMAIN s /\ Len(s) \in 1..Len(s)
        BY <1>3, <2>2
      <3>2. 1 \in 1..Len(s[Len(s)].shows)
        BY <3>1, ShowsFacts DEF Grows
      <3>3. Len(s) <= s[Len(s)].shows[1] /\ s[Len(s)].shows[1] \in Nat /\ s[Len(s)].shows[1] < x
        BY <3>1, <3>2, ShowsFacts DEF Grows
      <3> QED  BY <1>3, <3>3
    <2> QED  BY <2>1, <2>2
  <1>5. ASSUME NEW n \in DOMAIN t
        PROVE  Len(t[n].shows) > 0 /\ \A i \in DOMAIN t[n].shows : n <= t[n].shows[i]
    <2>1. CASE n \in DOMAIN s
      <3>1. t[n] = s[n]
        BY <1>2, <1>3, <2>1
      <3> QED  BY <2>1, <3>1 DEF Grows
    <2>2. CASE n = Len(s) + 1
      <3>1. t[n] = e
        BY <1>2, <2>2
      <3>2. Len(t[n].shows) = 1 /\ DOMAIN t[n].shows = 1..1 /\ t[n].shows[1] = x
        BY <1>1, <3>1, Zenon
      <3>3. n <= x
        BY <1>4, <2>2
      <3> QED  BY <3>2, <3>3
    <2> QED  BY <1>3, <2>1, <2>2
  <1>6. ASSUME NEW m \in DOMAIN t, NEW n \in DOMAIN t, NEW i \in DOMAIN t[m].shows, NEW j \in DOMAIN t[n].shows,
               m < n \/ (m = n /\ i < j)
        PROVE  t[m].shows[i] < t[n].shows[j]
    <2>1. CASE n \in DOMAIN s
      <3>1. m \in DOMAIN s
        BY <1>3, <1>6, <2>1
      <3>2. t[m] = s[m] /\ t[n] = s[n]
        BY <1>2, <1>3, <2>1, <3>1
      <3> QED  BY <1>6, <2>1, <3>1, <3>2 DEF InOrder
    <2>2. CASE n = Len(s) + 1
      <3>1. t[n] = e /\ j = 1
        BY <1>1, <1>2, <2>2
      <3>2. m \in DOMAIN s
        <4>1. m # n
          <5>1. SUFFICES ASSUME m = n PROVE FALSE
            OBVIOUS
          <5>2. i = 1
            BY <1>1, <3>1, <5>1
          <5> QED  BY <1>3, <1>6, <3>1, <5>1, <5>2
        <4> QED  BY <1>3, <2>2, <4>1
      <3>3. t[m] = s[m]
        BY <1>2, <1>3, <3>2
      <3>4. s[m].shows[i] \in ShownBy(s)
        BY <1>3, <3>2, <3>3, ShowsFacts
      <3> QED  BY <1>1, <3>1, <3>3, <3>4
    <2> QED  BY <1>3, <2>1, <2>2
  <1>7. ShownBy(t) = ShownBy(s) \cup {x}
    BY <1>1, <1>2, <1>3 DEF ShownBy
  <1> QED  BY <1>2, <1>5, <1>6, <1>7 DEF InOrder, Grows

\* One more event goes to the end of the last element.
LEMMA TextAdded ==
    ASSUME NEW s \in Seq(Elements), NEW t \in Seq(Elements), NEW x \in Nat, Len(s) # 0, Len(t) = Len(s),
           \A n \in 1..Len(s) : n # Len(s) => t[n].shows = s[n].shows,
           t[Len(s)].shows = Append(s[Len(s)].shows, x),
           \A y \in ShownBy(s) : y < x, InOrder(s), Grows(s)
    PROVE  InOrder(t) /\ Grows(t) /\ ShownBy(t) = ShownBy(s) \cup {x}
  <1> DEFINE last == Len(s)
             old == s[last].shows
             new == t[last].shows
  <1>1. DOMAIN s = 1..last /\ DOMAIN t = 1..last /\ last \in Nat /\ last \in 1..last
    BY ShowsFacts
  <1>2. old \in Seq(Nat) /\ Len(old) \in Nat /\ DOMAIN old = 1..Len(old) /\ Len(old) > 0
    BY <1>1, ShowsFacts DEF Grows
  <1>3. /\ Len(new) = Len(old) + 1 /\ DOMAIN new = 1..Len(old) + 1
        /\ new[Len(old) + 1] = x /\ \A i \in 1..Len(old) : new[i] = old[i]
    <2>1. new = Append(old, x)
      OBVIOUS
    <2> HIDE DEF old, new
    <2>2. new \in Seq(Nat)
      BY <1>2, <2>1, AppendProperties
    <2> QED  BY <1>2, <2>1, <2>2, AppendProperties, LenProperties
  <1>4. \A i \in 1..Len(old) : old[i] \in Nat /\ old[i] < x /\ last <= old[i]
    BY <1>1, <1>2, ShowsFacts DEF Grows
  <1>5. \A n \in 1..last : n # last => t[n].shows = s[n].shows
    OBVIOUS
  <1>6. \A n \in 1..last : \A i \in DOMAIN s[n].shows : s[n].shows[i] \in Nat /\ s[n].shows[i] < x
    BY <1>1, ShowsFacts
  <1>7. Range(new) = Range(old) \cup {x}
    <2> HIDE DEF last, old, new
    <2>1. Range(new) = {new[i] : i \in 1..Len(old) + 1} /\ Range(old) = {old[i] : i \in 1..Len(old)}
      BY <1>2, <1>3 DEF Range
    <2>2. \A i \in 1..Len(old) + 1 : i \in 1..Len(old) \/ i = Len(old) + 1
      BY <1>2
    <2>3. \A i \in 1..Len(old) : i \in 1..Len(old) + 1
      BY <1>2
    <2>4. Len(old) + 1 \in 1..Len(old) + 1
      BY <1>2
    <2>5. Range(new) \subseteq Range(old) \cup {x}
      BY <1>3, <2>1, <2>2
    <2>6. Range(old) \cup {x} \subseteq Range(new)
      BY <1>3, <2>1, <2>3, <2>4
    <2> QED  BY <2>5, <2>6
  <1> HIDE DEF last, old, new
  <1>8. ASSUME NEW n \in DOMAIN t
        PROVE  Len(t[n].shows) > 0 /\ \A i \in DOMAIN t[n].shows : n <= t[n].shows[i]
    <2>1. CASE n # last
      BY <1>1, <1>5, <2>1 DEF Grows
    <2>2. CASE n = last
      <3>1. t[n].shows = new
        BY <2>2 DEF new
      <3>2. ASSUME NEW i \in DOMAIN new PROVE last <= new[i]
        <4>1. CASE i \in 1..Len(old)
          BY <1>3, <1>4, <4>1
        <4>2. CASE i = Len(old) + 1
          <5>1. last <= old[1] /\ old[1] < x /\ old[1] \in Nat
            BY <1>2, <1>4
          <5> QED  BY <1>1, <1>3, <4>2, <5>1
        <4> QED  BY <1>2, <1>3, <4>1, <4>2
      <3> QED  BY <1>2, <1>3, <2>2, <3>1, <3>2
    <2> QED  BY <2>1, <2>2
  <1>9. ASSUME NEW m \in DOMAIN t, NEW n \in DOMAIN t, NEW i \in DOMAIN t[m].shows, NEW j \in DOMAIN t[n].shows,
               m < n \/ (m = n /\ i < j)
        PROVE  t[m].shows[i] < t[n].shows[j]
    <2>1. CASE n # last
      <3>1. m # last
        BY <1>1, <1>9, <2>1
      <3> QED  BY <1>1, <1>5, <1>9, <2>1, <3>1 DEF InOrder
    <2>2. CASE n = last /\ j \in 1..Len(old)
      <3>1. t[n].shows[j] = s[n].shows[j] /\ j \in DOMAIN s[n].shows
        BY <1>2, <1>3, <2>2 DEF old, new
      <3>2. t[m].shows[i] = s[m].shows[i] /\ i \in DOMAIN s[m].shows
        <4>1. CASE m # last
          BY <1>1, <1>5, <1>9, <4>1
        <4>2. CASE m = last
          <5>1. i < j /\ i \in DOMAIN new
            BY <1>1, <1>9, <2>2, <4>2 DEF new
          <5>2. i \in 1..Len(old)
            BY <1>2, <1>3, <2>2, <5>1
          <5> QED  BY <1>2, <1>3, <4>2, <5>2 DEF old, new
        <4> QED  BY <4>1, <4>2
      <3> QED  BY <1>1, <1>9, <3>1, <3>2 DEF InOrder
    <2>3. CASE n = last /\ j = Len(old) + 1
      <3>1. t[n].shows[j] = x
        BY <1>3, <2>3 DEF new
      <3>2. t[m].shows[i] < x
        <4>1. CASE m # last
          BY <1>1, <1>5, <1>6, <1>9, <4>1
        <4>2. CASE m = last
          <5>1. i < j /\ i \in DOMAIN new
            BY <1>1, <1>9, <2>3, <4>2 DEF new
          <5>2. i \in 1..Len(old)
            BY <1>2, <1>3, <2>3, <5>1
          <5> QED  BY <1>3, <1>4, <4>2, <5>2 DEF new
        <4> QED  BY <4>1, <4>2
      <3> QED  BY <3>1, <3>2
    <2>4. n = last => j \in 1..Len(old) \/ j = Len(old) + 1
      BY <1>2, <1>3, <1>9 DEF new
    <2> QED  BY <2>1, <2>2, <2>3, <2>4
  <1>10. ShownBy(t) = ShownBy(s) \cup {x}
    <2>1. \A n \in 1..last : Range(t[n].shows) = IF n = last THEN Range(s[n].shows) \cup {x} ELSE Range(s[n].shows)
      BY <1>5, <1>7 DEF old, new
    <2> QED  BY <1>1, <2>1 DEF ShownBy
  <1> QED  BY <1>8, <1>9, <1>10 DEF InOrder, Grows

\* There are never more elements than events.
LEMMA ScreenShort ==
    ASSUME NEW s \in Seq(Elements), Grows(s), NEW n \in Nat, ShownBy(s) \subseteq 1..n
    PROVE  Len(s) <= n
  <1>1. CASE Len(s) = 0
    BY <1>1
  <1>2. CASE Len(s) # 0
    <2>1. Len(s) \in 1..Len(s) /\ Len(s) \in DOMAIN s /\ Len(s) \in Nat
      BY <1>2, ShowsFacts
    <2>2. 1 \in 1..Len(s[Len(s)].shows) /\ 1 \in DOMAIN s[Len(s)].shows
      BY <2>1, ShowsFacts DEF Grows
    <2>3. Len(s) <= s[Len(s)].shows[1] /\ s[Len(s)].shows[1] \in 1..n
      BY <2>1, <2>2, ShowsFacts DEF Grows
    <2> QED  BY <2>1, <2>3
  <1> QED  BY <1>1, <1>2

LEMMA BubbleOnScreen ==
    ASSUME PanelInv
    PROVE  Len(screen) <= events /\ events < Detached /\ {Len(screen), events, Detached} \subseteq Nat /\ Detached # 0
  <1>1. screen \in Seq(Elements) /\ Grows(screen) /\ ShownBy(screen) \subseteq 1..events /\ events \in Nat
    BY DEF PanelInv, PanelTypes, ScreenGrows, ShownInOrder, ShownBy, PanelTypeOK
  <1>2. Len(screen) <= events
    BY <1>1, ScreenShort
  <1>3. events <= MaxEvents + counts.sends /\ counts.sends \in 0..MaxSends
    BY <1>1, PanelAssumption DEF PanelInv, PanelTypes, SendsCounted, Connecting
  <1>4. events < Detached
    BY <1>1, <1>3, PanelAssumption DEF Detached, LastEvent
  <1> QED  BY <1>1, <1>2, <1>4, ShowsFacts, PanelAssumption DEF Detached, LastEvent

\* Where the page is left alone it stays in order; so it does where it is emptied.
LEMMA ScreenKept ==
    ASSUME PanelInv, UNCHANGED messages
    PROVE  ScreenGrows' /\ ShownInOrder'
  <1>1. Detached' = Detached
    BY DEF Detached, LastEvent
  <1>2. ScreenGrows'
    BY <1>1 DEF PanelInv, ScreenGrows, messages, Grows
  <1> QED  BY <1>2 DEF PanelInv, ShownInOrder, messages

LEMMA ScreenEmptied ==
    ASSUME PanelInv, screen' = <<>>, received' = {}, bubble' = Detached => torn'
    PROVE  ScreenGrows' /\ ShownInOrder' /\ screen' \in Seq(Elements) /\ Len(screen') = 0
  <1>1. DOMAIN screen' = {} /\ Len(screen') = 0 /\ screen' \in Seq(Elements)
    BY EmptySeq
  <1>2. Detached' = Detached
    BY DEF Detached, LastEvent
  <1> QED  BY <1>1, <1>2 DEF ScreenGrows, Grows, ShownInOrder

-----------------------------------------------------------------------------
(* The wire *)

LEMMA WireKept ==
    ASSUME PanelInv, UNCHANGED <<wire, received, events, threads>>, Len(verdicts') = Len(verdicts)
    PROVE  WireInOrder'
  BY DEF PanelInv, WireInOrder

LEMMA WireEmptied ==
    ASSUME wire' = <<>>
    PROVE  WireInOrder' /\ wire' \in Seq(Messages) /\ ~Starting'
  <1>1. DOMAIN wire' = {} /\ wire' \in Seq(Messages) /\ Range(wire') = {}
    BY EmptySeq DEF Range
  <1> QED  BY <1>1 DEF WireInOrder, Starting

\* Emptying the screen forgets what was received: the wire stays in order.
LEMMA WireLeft ==
    ASSUME PanelInv, UNCHANGED <<wire, events, threads, verdicts>>, received' = {}
    PROVE  WireInOrder'
  BY DEF PanelInv, WireInOrder

LEMMA Emitted ==
    ASSUME PanelInv, NEW kind \in Kinds \ {"run_started"}, NEW of \in Nat, Emit(kind, of),
           UNCHANGED <<received, threads>>, Len(verdicts) \in Nat, Len(verdicts') \in Nat, Len(verdicts') >= Len(verdicts),
           IF kind = "approval_required" THEN of \in 1..Len(verdicts') ELSE of = 0
    PROVE  wire' \in Seq(Messages) /\ WireInOrder' /\ (Starting' <=> Starting)
  <1> DEFINE e == Event(kind, of, events + 1)
  <1>1. events \in Nat /\ events' = events + 1 /\ wire' = Append(wire, e) /\ wire \in Seq(Messages)
    BY DEF Emit, PanelInv, PanelTypes
  <1>2. e \in Messages /\ e.kind = kind /\ e.of = of /\ e.number = events + 1
    BY <1>1 DEF Event, Messages
  <1> HIDE DEF e
  <1>3. /\ wire' \in Seq(Messages) /\ Len(wire') = Len(wire) + 1 /\ wire'[Len(wire) + 1] = e
        /\ \A n \in 1..Len(wire) : wire'[n] = wire[n]
    BY <1>1, <1>2, AppendProperties
  <1>4. DOMAIN wire = 1..Len(wire) /\ DOMAIN wire' = 1..Len(wire) + 1 /\ Len(wire) \in Nat
    BY <1>1, <1>3, LenProperties
  <1>5. \A n \in DOMAIN wire : wire[n].number \in Nat /\ wire[n].number <= events
    <2>1. \A n \in DOMAIN wire : wire[n] \in Messages
      BY <1>1, <1>4, ElementOfSeq
    <2>2. \A n \in DOMAIN wire : wire[n].kind = "run_started" \/ wire[n].kind # "run_started"
      OBVIOUS
    <2> QED  BY <1>1, <2>1, <2>2 DEF PanelInv, WireInOrder, Messages
  <1>6. received \subseteq 1..events
    BY DEF PanelInv, PanelTypeOK
  <1>7. ASSUME NEW n \in DOMAIN wire'
        PROVE  /\ wire'[n].kind = "run_started" => n = 1 /\ wire'[n].of \in 1..threads' /\ wire'[n].number = 0
               /\ wire'[n].kind \in {"text", "tool_call"} => wire'[n].of = 0
               /\ wire'[n].kind = "approval_required" => wire'[n].of \in 1..Len(verdicts')
               /\ wire'[n].kind # "run_started" => wire'[n].number \in 1..events'
               /\ wire'[n].kind # "run_started" => \A x \in received' : x < wire'[n].number
    <2>1. CASE n \in DOMAIN wire
      <3>1. wire'[n] = wire[n]
        BY <1>3, <1>4, <2>1
      <3>2. wire[n].kind = "approval_required" => wire[n].of \in 1..Len(verdicts')
        <4>1. wire[n].kind = "approval_required" => wire[n].of \in 1..Len(verdicts)
          BY <2>1 DEF PanelInv, WireInOrder
        <4> QED  BY <4>1
      <3>3. wire[n].kind # "run_started" => wire[n].number \in 1..events'
        <4>1. wire[n].kind # "run_started" => wire[n].number \in 1..events
          BY <2>1 DEF PanelInv, WireInOrder
        <4> QED  BY <1>1, <4>1
      <3> QED  BY <2>1, <3>1, <3>2, <3>3 DEF PanelInv, WireInOrder
    <2>2. CASE n = Len(wire) + 1
      <3>1. wire'[n] = e
        BY <1>3, <2>2
      <3>2. \A x \in received : x < events + 1
        BY <1>1, <1>6
      <3>3. events + 1 \in 1..events'
        BY <1>1
      <3>4. /\ kind # "run_started"
            /\ kind \in {"text", "tool_call"} => of = 0
            /\ kind = "approval_required" => of \in 1..Len(verdicts')
        OBVIOUS
      <3> QED  BY <1>2, <3>1, <3>2, <3>3, <3>4
    <2> QED  BY <1>4, <2>1, <2>2
  <1>8. ASSUME NEW m \in DOMAIN wire', NEW n \in DOMAIN wire', m < n
        PROVE  wire'[m].number < wire'[n].number
    <2>1. m \in DOMAIN wire /\ wire'[m] = wire[m]
      BY <1>3, <1>4, <1>8
    <2>2. CASE n \in DOMAIN wire
      <3>1. wire'[n] = wire[n]
        BY <1>3, <1>4, <2>2
      <3> QED  BY <1>8, <2>1, <2>2, <3>1 DEF PanelInv, WireInOrder
    <2>3. CASE n = Len(wire) + 1
      <3>1. wire'[n].number = events + 1
        BY <1>2, <1>3, <2>3
      <3> QED  BY <1>1, <1>5, <2>1, <3>1
    <2> QED  BY <1>4, <2>2, <2>3
  <1>9. Starting' <=> Starting
    <2>1. Range(wire') = {wire'[n] : n \in 1..Len(wire) + 1} /\ Range(wire) = {wire[n] : n \in 1..Len(wire)}
      BY <1>4 DEF Range
    <2>2. ASSUME Starting' PROVE Starting
      <3>1. PICK n \in 1..Len(wire) + 1 : wire'[n].kind = "run_started"
        BY <2>1, <2>2 DEF Starting
      <3>2. n \in 1..Len(wire)
        BY <1>2, <1>3, <1>4, <3>1
      <3> QED  BY <1>3, <2>1, <3>1, <3>2 DEF Starting
    <2>3. ASSUME Starting PROVE Starting'
      <3>1. PICK n \in 1..Len(wire) : wire[n].kind = "run_started"
        BY <2>1, <2>3 DEF Starting
      <3>2. n \in 1..Len(wire) + 1
        BY <1>4
      <3> QED  BY <1>3, <2>1, <3>1, <3>2 DEF Starting
    <2> QED  BY <2>2, <2>3
  <1> QED  BY <1>3, <1>7, <1>8, <1>9 DEF WireInOrder

-----------------------------------------------------------------------------
(* sendMessage *)

LEMMA SendKeeps == PanelInv /\ Send => PanelInv'
  <1> SUFFICES ASSUME PanelInv, Send PROVE PanelInv'
    OBVIOUS
  <1>1. /\ phase = "idle" /\ phase' = "read" /\ bubble' = None /\ spoiled' = FALSE /\ open
        /\ UNCHANGED <<open, stored, asked, screen, received, torn, remote, posts, fresh>>
    BY DEF Send
  <1>2. counts' \in [sends : 0..MaxSends, troubles : Nat] /\ counts'.sends = counts.sends + 1
    <2>1. counts' = [counts EXCEPT !.sends = @ + 1] /\ counts.sends < MaxSends
      BY DEF Send
    <2>2. counts \in [sends : 0..MaxSends, troubles : Nat]
      BY DEF PanelInv, PanelTypes
    <2>3. counts.sends + 1 \in 0..MaxSends
      BY <2>1, <2>2, PanelAssumption
    <2> QED  BY <2>1, <2>2, <2>3
  <1>3. PanelTypes'
    BY <1>1, <1>2 DEF PanelInv, PanelTypes, remote
  <1>4. PanelTypeOK'
    BY <1>1 DEF PanelInv, PanelTypeOK, remote
  <1>5. SendsCounted'
    BY <1>1, <1>2, PanelAssumption DEF PanelInv, PanelTypes, SendsCounted, Connecting, remote
  <1>6. WireInOrder'
    BY <1>1, WireKept DEF remote
  <1>7. ScreenGrows' /\ ShownInOrder'
    <2>1. Detached' = Detached /\ Detached # None
      <3>1. Detached' = Detached
        BY DEF Detached, LastEvent
      <3> QED  BY <3>1, BubbleOnScreen DEF None
    <2>2. ScreenGrows'
      BY <1>1, <2>1 DEF PanelInv, ScreenGrows, Grows
    <2> QED  BY <1>1, <2>2 DEF PanelInv, ShownInOrder
  <1>8. ThreadsCounted'
    BY <1>1 DEF PanelInv, ThreadsCounted, Starting, remote
  <1> QED  BY <1>3, <1>4, <1>5, <1>6, <1>7, <1>8 DEF PanelInv

LEMMA ReadThreadKeeps == PanelInv /\ ReadThread => PanelInv'
  <1> SUFFICES ASSUME PanelInv, ReadThread PROVE PanelInv'
    OBVIOUS
  <1>1. /\ phase = "read" /\ phase' = "connect" /\ asked' = stored
        /\ UNCHANGED <<open, stored, messages, remote, posts, counts, fresh, spoiled>>
    BY DEF ReadThread
  <1>2. PanelTypes'
    BY <1>1 DEF PanelInv, PanelTypes, remote, messages
  <1>3. PanelTypeOK'
    BY <1>1 DEF PanelInv, PanelTypeOK, remote, messages
  <1>4. SendsCounted'
    BY <1>1 DEF PanelInv, SendsCounted, Connecting, remote
  <1>5. WireInOrder'
    BY <1>1, WireKept DEF remote, messages
  <1>6. ScreenGrows' /\ ShownInOrder'
    BY <1>1, ScreenKept
  <1>7. ThreadsCounted'
    <2>1. wire = <<>>
      BY <1>1 DEF PanelInv, SendsCounted
    <2>2. ~Starting /\ (Starting' <=> Starting)
      BY <1>1, <2>1 DEF Starting, remote, Range
    <2> QED  BY <1>1, <2>2 DEF PanelInv, ThreadsCounted, remote
  <1> QED  BY <1>2, <1>3, <1>4, <1>5, <1>6, <1>7 DEF PanelInv

\* The end of a stream, or of an attempt to open one.
LEMMA OverKeeps ==
    ASSUME PanelInv, Over, UNCHANGED <<stored, asked, posts>>,
           counts' \in [sends : 0..MaxSends, troubles : Nat], counts'.sends = counts.sends
    PROVE  /\ SendsCounted' /\ WireInOrder' /\ ThreadsCounted'
           /\ wire' \in Seq(Messages) /\ fresh' \in Nat /\ server' = Off
           /\ UNCHANGED <<stopped, verdicts, threads, events>> /\ phase' = "idle"
  <1>1. /\ phase' = "idle" /\ wire' = <<>> /\ server' = Off
        /\ fresh' = IF asked = 0 /\ Starting THEN fresh + 1 ELSE fresh
        /\ UNCHANGED <<stopped, verdicts, threads, events>>
    BY DEF Over, Starting
  <1>2. WireInOrder' /\ wire' \in Seq(Messages) /\ ~Starting'
    BY <1>1, WireEmptied
  <1>3. fresh \in Nat /\ threads \in Nat /\ fresh' \in Nat
    BY <1>1 DEF PanelInv, PanelTypes
  <1>4. ThreadsCounted'
    <2>1. threads' <= 1 + fresh'
      BY <1>1, <1>3 DEF PanelInv, ThreadsCounted
    <2>2. stored' = 0 => threads' <= fresh'
      BY <1>1, <1>3 DEF PanelInv, ThreadsCounted
    <2> QED  BY <1>1, <2>1, <2>2 DEF ThreadsCounted
  <1>5. SendsCounted'
    <2>1. threads + Connecting <= counts.sends /\ events + Connecting <= MaxEvents + counts.sends
      BY DEF PanelInv, SendsCounted
    <2>2. threads \in Nat /\ events \in Nat /\ counts.sends \in Nat /\ MaxEvents \in Nat /\ Connecting \in {0, 1}
      BY PanelAssumption DEF PanelInv, PanelTypes, Connecting
    <2>3. threads <= counts.sends /\ events <= MaxEvents + counts.sends
      BY <2>1, <2>2
    <2> QED  BY <1>1, <2>2, <2>3 DEF SendsCounted, Connecting, Off
  <1> QED  BY <1>1, <1>2, <1>3, <1>4, <1>5

LEMMA TroubleCounts ==
    ASSUME PanelInv, Trouble
    PROVE  counts' \in [sends : 0..MaxSends, troubles : Nat] /\ counts'.sends = counts.sends
  <1>1. counts' = [counts EXCEPT !.troubles = @ + 1]
    BY DEF Trouble
  <1>2. counts \in [sends : 0..MaxSends, troubles : Nat]
    BY DEF PanelInv, PanelTypes
  <1> QED  BY <1>1, <1>2

LEMMA StreamOverKeeps == PanelInv /\ (Fails \/ StreamEnds) => PanelInv'
  <1> SUFFICES ASSUME PanelInv, Fails \/ StreamEnds PROVE PanelInv'
    OBVIOUS
  <1>1. /\ Over /\ UNCHANGED <<open, stored, asked, messages, posts, spoiled>>
        /\ Trouble \/ UNCHANGED counts
    BY DEF Fails, StreamEnds
  <1>2. counts' \in [sends : 0..MaxSends, troubles : Nat] /\ counts'.sends = counts.sends
    BY <1>1, TroubleCounts DEF PanelInv, PanelTypes
  <1>3. /\ SendsCounted' /\ WireInOrder' /\ ThreadsCounted'
        /\ wire' \in Seq(Messages) /\ fresh' \in Nat /\ server' = Off
        /\ UNCHANGED <<stopped, verdicts, threads, events>> /\ phase' = "idle"
    BY <1>1, <1>2, OverKeeps
  <1>4. PanelTypes'
    BY <1>1, <1>2, <1>3 DEF PanelInv, PanelTypes, messages, Off
  <1>5. PanelTypeOK'
    BY <1>1, <1>3 DEF PanelInv, PanelTypeOK, messages, Off
  <1>6. ScreenGrows' /\ ShownInOrder'
    BY <1>1, ScreenKept
  <1> QED  BY <1>3, <1>4, <1>5, <1>6 DEF PanelInv

\* What reading an event does to the screen.
LEMMA EventShown ==
    ASSUME PanelInv, NEW e \in Messages, e.kind # "run_started", HandleEvent(e),
           e.number \in 1..events, \A x \in received : x < e.number
    PROVE  /\ screen' \in Seq(Elements) /\ ScreenGrows' /\ ShownInOrder'
           /\ bubble' \in {None, Len(screen'), Detached}
           /\ \A n \in DOMAIN screen' : screen'[n].approval \in 0..Len(verdicts) \/ screen'[n].approval = e.of
           /\ received' = received \cup {e.number} /\ UNCHANGED <<torn, stored>>
  <1>1. received' = received \cup {e.number} /\ UNCHANGED <<torn, stored>>
    BY DEF HandleEvent, ThreadId
  <1>2. /\ screen \in Seq(Elements) /\ Grows(screen) /\ InOrder(screen) /\ ShownBy(screen) \subseteq received
        /\ ~torn => ShownBy(screen) = received
        /\ bubble = Detached => torn
        /\ bubble \in {None, Len(screen), Detached}
        /\ received \subseteq 1..events /\ events \in Nat
    BY DEF PanelInv, PanelTypes, PanelTypeOK, ScreenGrows, ShownInOrder, ShownBy, InOrder
  <1>3. Detached' = Detached
    BY DEF Detached, LastEvent
  <1>4. e.number \in Nat \ {0} /\ \A y \in ShownBy(screen) : y < e.number
    <2>1. e.number \in Nat \ {0}
      BY <1>2
    <2> QED  BY <1>2, <2>1
  <1>5. \A n \in DOMAIN screen : screen[n].approval \in 0..Len(verdicts)
    BY DEF PanelInv, PanelTypeOK
  <1>6. ASSUME screen' = Append(screen, Element(e)), bubble' \in {None, Len(screen')}
        PROVE  /\ screen' \in Seq(Elements) /\ ScreenGrows' /\ ShownInOrder'
               /\ \A n \in DOMAIN screen' : screen'[n].approval \in 0..Len(verdicts) \/ screen'[n].approval = e.of
    <2>1. Element(e) \in Elements /\ Element(e).shows = <<e.number>> /\ Element(e).approval = e.of
      BY <1>4 DEF Element, Elements, Messages
    <2>2. /\ screen' \in Seq(Elements) /\ Len(screen') = Len(screen) + 1 /\ InOrder(screen') /\ Grows(screen')
          /\ ShownBy(screen') = ShownBy(screen) \cup {e.number}
      BY <1>2, <1>4, <1>6, <2>1, ElementAdded
    <2>3. Len(screen') <= events
      BY <1>2, <2>2, ScreenShort
    <2>4. bubble' # Detached
      <3>1. Len(screen') \in Nat /\ events < Detached /\ Detached \in Nat /\ Detached # 0
        BY <1>2, <2>2, BubbleOnScreen, ShowsFacts
      <3> QED  BY <1>2, <1>6, <2>3, <3>1 DEF None
    <2>5. ScreenGrows'
      BY <1>3, <2>2, <2>4 DEF ScreenGrows
    <2>6. ShownInOrder'
      BY <1>1, <1>2, <2>2 DEF ShownInOrder, InOrder, ShownBy
    <2>7. ASSUME NEW n \in DOMAIN screen'
          PROVE  screen'[n].approval \in 0..Len(verdicts) \/ screen'[n].approval = e.of
      <3>1. /\ DOMAIN screen' = 1..Len(screen) + 1 /\ DOMAIN screen = 1..Len(screen) /\ Len(screen) \in Nat
            /\ screen'[Len(screen) + 1] = Element(e) /\ \A m \in 1..Len(screen) : screen'[m] = screen[m]
        BY <1>2, <1>6, <2>1, <2>2, AppendProperties, ShowsFacts
      <3>2. n \in DOMAIN screen \/ n = Len(screen) + 1
        BY <3>1
      <3> QED  BY <1>5, <2>1, <3>1, <3>2
    <2> QED  BY <2>2, <2>5, <2>6, <2>7
  <1>7. CASE e.kind = "text" /\ bubble = None
    <2>1. screen' = Append(screen, Element(e)) /\ bubble' = Len(screen')
      <3>1. None # Detached
        BY BubbleOnScreen DEF None
      <3> QED  BY <1>7, <3>1 DEF HandleEvent, OnText
    <2> QED  BY <1>1, <1>6, <2>1
  <1>8. CASE e.kind = "text" /\ bubble = Detached
    <2>1. UNCHANGED <<screen, bubble>>
      BY <1>8, BubbleOnScreen DEF HandleEvent, OnText, None
    <2>2. ScreenGrows'
      BY <1>1, <1>2, <1>3, <2>1 DEF ScreenGrows
    <2>3. ShownInOrder'
      BY <1>1, <1>2, <1>8, <2>1 DEF ShownInOrder, InOrder, ShownBy
    <2> QED  BY <1>1, <1>2, <1>5, <2>1, <2>2, <2>3
  <1>9. CASE e.kind = "text" /\ bubble # None /\ bubble # Detached
    <2>1. bubble = Len(screen) /\ Len(screen) # 0
      BY <1>2, <1>9 DEF None
    <2>2. bubble' = bubble /\ screen' = [screen EXCEPT ![Len(screen)].shows = Append(@, e.number)]
      BY <1>9, <2>1 DEF HandleEvent, OnText
    <2> DEFINE last == Len(screen)
               new == Append(screen[last].shows, e.number)
               element == [screen[last] EXCEPT !.shows = new]
    <2>3. last \in 1..last /\ screen[last] \in Elements /\ screen[last].shows \in Seq(Nat) /\ DOMAIN screen = 1..last
      BY <1>2, <2>1, ShowsFacts
    <2>4. screen' = [screen EXCEPT ![last] = element]
      BY <2>2, <2>3
    <2>5. new \in Seq(Nat)
      BY <1>4, <2>3, AppendProperties
    <2> HIDE DEF new
    <2>6. element \in Elements /\ element.shows = new /\ element.approval = screen[last].approval
      BY <2>3, <2>5 DEF Elements
    <2> HIDE DEF element
    <2>7. /\ screen' \in Seq(Elements) /\ Len(screen') = Len(screen)
          /\ \A n \in 1..Len(screen) : screen'[n] = IF n = Len(screen) THEN element ELSE screen[n]
      BY <1>2, <2>3, <2>4, <2>6, ExceptSeq
    <2>8. InOrder(screen') /\ Grows(screen') /\ ShownBy(screen') = ShownBy(screen) \cup {e.number}
      <3>1. screen'[Len(screen)].shows = Append(screen[Len(screen)].shows, e.number)
        BY <2>3, <2>6, <2>7 DEF new
      <3>2. \A n \in 1..Len(screen) : n # Len(screen) => screen'[n].shows = screen[n].shows
        BY <2>7
      <3> HIDE DEF last
      <3> QED  BY <1>2, <1>4, <2>1, <2>7, <3>1, <3>2, TextAdded
    <2>9. ScreenGrows'
      BY <1>1, <1>2, <1>3, <2>2, <2>8 DEF ScreenGrows
    <2>10. ShownInOrder'
      BY <1>1, <1>2, <2>8 DEF ShownInOrder, InOrder, ShownBy
    <2>11. \A n \in DOMAIN screen' : screen'[n].approval \in 0..Len(verdicts)
      <3>1. DOMAIN screen' = 1..Len(screen)
        BY <2>7, ShowsFacts
      <3> QED  BY <1>5, <2>3, <2>6, <2>7, <3>1
    <2> QED  BY <1>1, <2>1, <2>2, <2>7, <2>9, <2>10, <2>11
  <1>10. CASE e.kind # "text"
    <2>1. screen' = Append(screen, Element(e)) /\ bubble' = None
      BY <1>10 DEF HandleEvent, OnToolCall, OnApprovalRequired, Messages, Kinds
    <2> QED  BY <1>1, <1>6, <2>1
  <1> QED  BY <1>7, <1>8, <1>9, <1>10

\* Reading takes the head from the wire; all that is left comes later.
LEMMA ReadKeeps == PanelInv /\ Read => PanelInv'
  <1> SUFFICES ASSUME PanelInv, Read PROVE PanelInv'
    OBVIOUS
  <1> DEFINE e == Head(wire)
  <1>1. /\ phase = "stream" /\ wire # <<>> /\ HandleEvent(e) /\ wire' = Tail(wire)
        /\ UNCHANGED <<open, phase, asked, server, stopped, verdicts, threads, events, posts, counts, fresh, spoiled>>
    BY DEF Read
  <1>2. wire \in Seq(Messages) /\ Len(wire) \in Nat \ {0} /\ DOMAIN wire = 1..Len(wire)
    BY <1>1, EmptySeq, LenProperties DEF PanelInv, PanelTypes
  <1>3. e \in Messages /\ e = wire[1]
    BY <1>1, <1>2, HeadTailProperties
  <1>4. /\ wire' \in Seq(Messages) /\ Len(wire') = Len(wire) - 1 /\ DOMAIN wire' = 1..Len(wire) - 1
        /\ \A n \in 1..Len(wire) - 1 : wire'[n] = wire[n + 1] /\ n + 1 \in DOMAIN wire /\ n + 1 # 1
    <2>1. wire' \in Seq(Messages) /\ Len(wire') = Len(wire) - 1 /\ \A n \in 1..Len(wire') : wire'[n] = wire[n + 1]
      BY <1>1, <1>2, HeadTailProperties
    <2>2. DOMAIN wire' = 1..Len(wire) - 1
      BY <2>1, LenProperties
    <2>3. \A n \in 1..Len(wire) - 1 : n + 1 \in DOMAIN wire /\ n + 1 # 1
      BY <1>2
    <2> QED  BY <2>1, <2>2, <2>3
  <1>5. /\ e.kind = "run_started" => e.of \in 1..threads
        /\ e.kind \in {"text", "tool_call"} => e.of = 0
        /\ e.kind = "approval_required" => e.of \in 1..Len(verdicts)
        /\ e.kind # "run_started" => e.number \in 1..events
        /\ e.kind # "run_started" => \A x \in received : x < e.number
    <2>1. 1 \in DOMAIN wire
      BY <1>2
    <2> QED  BY <1>3, <2>1 DEF PanelInv, WireInOrder
  <1> HIDE DEF e
  <1>6. received' = IF e.kind = "run_started" THEN received ELSE received \cup {e.number}
    BY <1>1 DEF HandleEvent, messages
  <1>7. \A n \in DOMAIN wire' : wire'[n].kind # "run_started"
    BY <1>4 DEF PanelInv, WireInOrder
  <1>8. WireInOrder'
    <2>1. ASSUME NEW n \in DOMAIN wire'
          PROVE  /\ wire'[n].kind \in {"text", "tool_call"} => wire'[n].of = 0
                 /\ wire'[n].kind = "approval_required" => wire'[n].of \in 1..Len(verdicts)
                 /\ wire'[n].number \in 1..events
                 /\ \A x \in received' : x < wire'[n].number
      <3>1. /\ n + 1 \in DOMAIN wire /\ wire'[n] = wire[n + 1] /\ wire[n + 1].kind # "run_started"
            /\ 1 \in DOMAIN wire /\ 1 < n + 1
        BY <1>2, <1>4, <1>7
      <3>2. wire[1].number < wire[n + 1].number
        BY <3>1 DEF PanelInv, WireInOrder
      <3>3. \A x \in received : x < wire[n + 1].number
        BY <3>1 DEF PanelInv, WireInOrder
      <3>4. \A x \in received' : x < wire'[n].number
        BY <1>3, <1>6, <3>1, <3>2, <3>3
      <3> QED  BY <3>1, <3>4 DEF PanelInv, WireInOrder
    <2>2. ASSUME NEW m \in DOMAIN wire', NEW n \in DOMAIN wire', m < n PROVE wire'[m].number < wire'[n].number
      <3>1. m + 1 \in DOMAIN wire /\ n + 1 \in DOMAIN wire /\ wire'[m] = wire[m + 1] /\ wire'[n] = wire[n + 1]
        BY <1>4
      <3>2. m + 1 < n + 1
        BY <1>2, <1>4, <2>2
      <3> QED  BY <3>1, <3>2 DEF PanelInv, WireInOrder
    <2> QED  BY <1>1, <1>7, <2>1, <2>2 DEF WireInOrder
  <1>9. ~Starting'
    BY <1>7 DEF Starting, Range
  <1>10. /\ screen' \in Seq(Elements) /\ ScreenGrows' /\ ShownInOrder'
         /\ bubble' \in {None, Len(screen'), Detached}
         /\ \A n \in DOMAIN screen' : screen'[n].approval \in 0..Len(verdicts)
         /\ torn' = torn /\ received' \subseteq 1..events
    <2>0. received \subseteq 1..events /\ \A n \in DOMAIN screen : screen[n].approval \in 0..Len(verdicts)
      BY DEF PanelInv, PanelTypeOK
    <2>1. CASE e.kind = "run_started"
      <3>1. UNCHANGED messages
        BY <1>1, <2>1 DEF HandleEvent
      <3>2. ScreenGrows' /\ ShownInOrder'
        BY <3>1, ScreenKept
      <3>3. UNCHANGED <<screen, bubble, received, torn>>
        BY <3>1 DEF messages
      <3>4. screen \in Seq(Elements) /\ bubble \in {None, Len(screen), Detached}
        BY DEF PanelInv, PanelTypes, PanelTypeOK
      <3> QED  BY <2>0, <3>2, <3>3, <3>4
    <2>2. CASE e.kind # "run_started"
      <3>1. /\ screen' \in Seq(Elements) /\ ScreenGrows' /\ ShownInOrder'
            /\ bubble' \in {None, Len(screen'), Detached}
            /\ \A n \in DOMAIN screen' : screen'[n].approval \in 0..Len(verdicts) \/ screen'[n].approval = e.of
            /\ torn' = torn
        BY <1>1, <1>3, <1>5, <2>2, EventShown
      <3>2. Len(verdicts) \in Nat
        BY LenProperties DEF PanelInv, PanelTypes
      <3>3. e.of \in 0..Len(verdicts)
        BY <1>3, <1>5, <2>2, <3>2 DEF Messages, Kinds
      <3> QED  BY <1>5, <1>6, <2>0, <2>2, <3>1, <3>3
    <2> QED  BY <2>1, <2>2
  <1>11. stored' = IF e.kind = "run_started" THEN e.of ELSE stored
    BY <1>1 DEF HandleEvent, ThreadId
  <1>12. threads \in Nat /\ fresh \in Nat
    BY DEF PanelInv, PanelTypes
  <1>13. stored' \in 0..threads
    BY <1>5, <1>11, <1>12 DEF PanelInv, PanelTypeOK
  <1>14. ThreadsCounted'
    <2>1. CASE e.kind = "run_started"
      <3>1. stored' # 0
        BY <1>5, <1>11, <2>1
      <3> QED  BY <1>1, <3>1 DEF PanelInv, ThreadsCounted
    <2>2. CASE e.kind # "run_started"
      <3>1. ~Starting
        <4>1. \A n \in DOMAIN wire : wire[n].kind # "run_started"
          BY <1>3, <2>2 DEF PanelInv, WireInOrder
        <4> QED  BY <4>1 DEF Starting, Range
      <3> QED  BY <1>1, <1>11, <2>2, <3>1 DEF PanelInv, ThreadsCounted
    <2> QED  BY <2>1, <2>2
  <1>15. PanelTypes'
    BY <1>1, <1>4, <1>10 DEF PanelInv, PanelTypes
  <1>16. PanelTypeOK'
    <2>1. open
      BY <1>1 DEF PanelInv, PanelTypeOK
    <2> QED  BY <1>1, <1>10, <1>13, <2>1 DEF PanelInv, PanelTypeOK
  <1>17. SendsCounted'
    BY <1>1 DEF PanelInv, SendsCounted, Connecting
  <1> QED  BY <1>8, <1>10, <1>14, <1>15, <1>16, <1>17 DEF PanelInv

-----------------------------------------------------------------------------
(* The user *)

LEMMA RespondKeeps ==
    ASSUME PanelInv, NEW n \in 1..LastEvent, NEW d \in {"allow", "deny"}, Respond(n, d)
    PROVE  PanelInv'
  <1>1. /\ open /\ n \in DOMAIN screen /\ screen[n].approval # 0
        /\ screen' = [screen EXCEPT ![n].answered = TRUE]
        /\ posts' = posts \cup {[approval |-> screen[n].approval, decision |-> d]}
        /\ UNCHANGED <<open, phase, stored, asked, bubble, received, torn, remote, counts, fresh, spoiled>>
    BY DEF Respond, Sent, Decision
  <1> DEFINE element == [screen[n] EXCEPT !.answered = TRUE]
  <1>2. /\ screen \in Seq(Elements) /\ n \in 1..Len(screen) /\ DOMAIN screen = 1..Len(screen)
        /\ screen[n] \in Elements
    <2>1. screen \in Seq(Elements)
      BY DEF PanelInv, PanelTypes
    <2> QED  BY <1>1, <2>1, ShowsFacts
  <1>3. element \in Elements /\ element.shows = screen[n].shows /\ element.approval = screen[n].approval
    BY <1>2 DEF Elements
  <1>4. screen' = [screen EXCEPT ![n] = element]
    BY <1>1
  <1> HIDE DEF element
  <1>5. /\ screen' \in Seq(Elements) /\ Len(screen') = Len(screen) /\ DOMAIN screen' = DOMAIN screen
        /\ \A m \in DOMAIN screen : screen'[m].shows = screen[m].shows /\ screen'[m].approval = screen[m].approval
    <2>1. /\ screen' \in Seq(Elements) /\ Len(screen') = Len(screen)
          /\ \A m \in 1..Len(screen) : screen'[m] = IF m = n THEN element ELSE screen[m]
      BY <1>2, <1>3, <1>4, ExceptSeq
    <2>2. DOMAIN screen' = DOMAIN screen
      BY <1>2, <2>1, LenProperties
    <2> QED  BY <1>2, <1>3, <2>1, <2>2
  <1>6. ScreenGrows'
    <2>1. Detached' = Detached
      BY DEF Detached, LastEvent
    <2> QED  BY <1>1, <1>5, <2>1 DEF PanelInv, ScreenGrows, Grows
  <1>7. ShownInOrder'
    <2>1. ShownBy(screen') = ShownBy(screen)
      BY <1>5 DEF ShownBy
    <2>2. InOrder(screen')
      BY <1>5 DEF InOrder, PanelInv, ShownInOrder
    <2> QED  BY <1>1, <2>1, <2>2 DEF PanelInv, ShownInOrder, ShownBy, InOrder
  <1>8. screen[n].approval \in 1..Len(verdicts) /\ DOMAIN verdicts = 1..Len(verdicts) /\ Len(verdicts) \in Nat
    <2>1. screen[n].approval \in 0..Len(verdicts) /\ DOMAIN verdicts = 1..Len(verdicts) /\ Len(verdicts) \in Nat
      BY <1>1, LenProperties DEF PanelInv, PanelTypes, PanelTypeOK
    <2> QED  BY <1>1, <2>1
  <1>9. PanelTypes'
    <2>1. [approval |-> screen[n].approval, decision |-> d] \in [approval : Nat, decision : {"allow", "deny"}]
      BY <1>8
    <2>2. posts' \subseteq [approval : Nat, decision : {"allow", "deny"}]
      BY <1>1, <2>1 DEF PanelInv, PanelTypes
    <2> QED  BY <1>1, <1>5, <2>2 DEF PanelInv, PanelTypes, remote
  <1>10. PanelTypeOK'
    <2>1. \A p \in posts' : p.approval \in DOMAIN verdicts
      BY <1>1, <1>8 DEF PanelInv, PanelTypeOK
    <2>2. screen' = <<>> \/ open
      BY <1>1
    <2>3. bubble' \in {None, Len(screen'), Detached}
      BY <1>1, <1>5 DEF PanelInv, PanelTypeOK
    <2>4. \A m \in DOMAIN screen' : screen'[m].approval \in 0..Len(verdicts)
      BY <1>5 DEF PanelInv, PanelTypeOK
    <2> QED  BY <1>1, <2>1, <2>2, <2>3, <2>4 DEF PanelInv, PanelTypeOK, remote
  <1>11. WireInOrder'
    BY <1>1, WireKept DEF remote
  <1>12. SendsCounted' /\ ThreadsCounted'
    BY <1>1 DEF PanelInv, SendsCounted, Connecting, ThreadsCounted, Starting, remote
  <1> QED  BY <1>6, <1>7, <1>9, <1>10, <1>11, <1>12 DEF PanelInv

LEMMA ResetKeeps == PanelInv /\ Reset => PanelInv'
  <1> SUFFICES ASSUME PanelInv, Reset PROVE PanelInv'
    OBVIOUS
  <1>1. /\ Trouble /\ stored' = 0 /\ Empty /\ torn' = (phase # "idle") /\ fresh' = fresh + 1
        /\ bubble' = IF phase # "idle" /\ bubble # None THEN Detached ELSE None
        /\ UNCHANGED <<open, phase, asked, remote, posts>>
    BY DEF Reset
  <1>2. counts' \in [sends : 0..MaxSends, troubles : Nat] /\ counts'.sends = counts.sends
    BY <1>1, TroubleCounts
  <1>3. screen' = <<>> /\ received' = {} /\ spoiled' \in BOOLEAN
    BY <1>1 DEF Empty, PanelInv, PanelTypeOK
  <1>4. bubble' = Detached => torn'
    BY <1>1, BubbleOnScreen DEF None
  <1>5. ScreenGrows' /\ ShownInOrder' /\ screen' \in Seq(Elements) /\ DOMAIN screen' = {}
    BY <1>3, <1>4, ScreenEmptied
  <1>6. PanelTypes'
    BY <1>1, <1>2, <1>5 DEF PanelInv, PanelTypes, remote
  <1>7. PanelTypeOK'
    <2>1. bubble' \in {None, Detached} /\ torn' \in BOOLEAN /\ Detached' = Detached
      BY <1>1 DEF Detached, LastEvent
    <2>2. threads \in Nat
      BY DEF PanelInv, PanelTypes
    <2> QED  BY <1>1, <1>3, <1>5, <2>1, <2>2 DEF PanelInv, PanelTypeOK, remote
  <1>8. WireInOrder'
    BY <1>1, <1>3, WireLeft DEF remote
  <1>9. SendsCounted'
    BY <1>1, <1>2 DEF PanelInv, SendsCounted, Connecting, remote
  <1>10. ThreadsCounted'
    <2>1. threads \in Nat /\ fresh \in Nat /\ threads <= 1 + fresh
      BY DEF PanelInv, PanelTypes, ThreadsCounted
    <2> QED  BY <1>1, <2>1 DEF ThreadsCounted, remote
  <1> QED  BY <1>5, <1>6, <1>7, <1>8, <1>9, <1>10 DEF PanelInv

LEMMA CloseKeeps == PanelInv /\ Close => PanelInv'
  <1> SUFFICES ASSUME PanelInv, Close PROVE PanelInv'
    OBVIOUS
  <1>1. /\ Trouble /\ Over /\ Empty /\ bubble' = None /\ torn' = FALSE /\ open' = FALSE
        /\ UNCHANGED <<stored, asked, posts>>
    BY DEF Close
  <1>2. counts' \in [sends : 0..MaxSends, troubles : Nat] /\ counts'.sends = counts.sends
    BY <1>1, TroubleCounts
  <1>3. /\ SendsCounted' /\ WireInOrder' /\ ThreadsCounted'
        /\ wire' \in Seq(Messages) /\ fresh' \in Nat /\ server' = Off
        /\ UNCHANGED <<stopped, verdicts, threads, events>> /\ phase' = "idle"
    BY <1>1, <1>2, OverKeeps
  <1>4. screen' = <<>> /\ received' = {} /\ spoiled' \in BOOLEAN
    BY <1>1 DEF Empty, PanelInv, PanelTypeOK
  <1>5. ScreenGrows' /\ ShownInOrder' /\ screen' \in Seq(Elements) /\ DOMAIN screen' = {}
    BY <1>1, <1>4, ScreenEmptied, BubbleOnScreen DEF None
  <1>6. PanelTypes'
    BY <1>1, <1>2, <1>3, <1>5 DEF PanelInv, PanelTypes, Off
  <1>7. PanelTypeOK'
    BY <1>1, <1>3, <1>4, <1>5 DEF PanelInv, PanelTypeOK, Off
  <1> QED  BY <1>3, <1>5, <1>6, <1>7 DEF PanelInv

LEMMA OpenKeeps == PanelInv /\ Open => PanelInv'
  <1> SUFFICES ASSUME PanelInv, Open PROVE PanelInv'
    OBVIOUS
  <1>1. /\ open' = TRUE
        /\ UNCHANGED <<phase, stored, asked, messages, remote, posts, counts, fresh, spoiled>>
    BY DEF Open
  <1>2. ScreenGrows' /\ ShownInOrder'
    BY <1>1, ScreenKept
  <1>3. WireInOrder'
    BY <1>1, WireKept DEF remote, messages
  <1>4. PanelTypes'
    BY <1>1 DEF PanelInv, PanelTypes, remote, messages
  <1>5. PanelTypeOK'
    BY <1>1 DEF PanelInv, PanelTypeOK, remote, messages
  <1>6. SendsCounted' /\ ThreadsCounted'
    BY <1>1 DEF PanelInv, SendsCounted, Connecting, ThreadsCounted, Starting, remote
  <1> QED  BY <1>2, <1>3, <1>4, <1>5, <1>6 DEF PanelInv

-----------------------------------------------------------------------------
(* The server *)

LEMMA VerdictFacts ==
    ASSUME PanelInv
    PROVE  /\ verdicts \in Seq({"none", "allow", "deny"}) /\ Len(verdicts) \in Nat /\ DOMAIN verdicts = 1..Len(verdicts)
           /\ DOMAIN stopped = 1..MaxSends /\ \A t \in 1..MaxSends : stopped[t] \in 0..Len(verdicts)
           /\ threads \in Nat /\ events \in Nat /\ MaxSends \in Nat /\ threads <= MaxSends
  <1>1. verdicts \in Seq({"none", "allow", "deny"}) /\ threads \in Nat /\ events \in Nat /\ DOMAIN stopped = 1..MaxSends
    BY DEF PanelInv, PanelTypes
  <1> QED  BY <1>1, LenProperties, PanelAssumption DEF PanelInv, PanelTypeOK

\* A stream begins: its thread, and perhaps one event more.
LEMMA AcceptKeeps ==
    ASSUME PanelInv, NEW t \in 1..MaxSends, NEW again \in BOOLEAN, NEW second \in Messages,
           NEW at \in {"run", "wait", "ended"}, NEW a \in 0..Len(verdicts),
           second.number = events + 1, second.kind \in {"text", "approval_required"},
           second.kind = "text" => second.of = 0,
           again /\ second.kind = "approval_required" => second.of \in 1..Len(verdicts),
           at = "wait" <=> a # 0,
           Accept(t, IF again THEN <<second>> ELSE <<>>, at, a)
    PROVE  PanelInv'
  <1> DEFINE first == Event("run_started", t, 0)
             more == IF again THEN <<second>> ELSE <<>>
  <1>1. /\ phase = "connect" /\ phase' = "stream"
        /\ t = (IF asked = 0 THEN threads + 1 ELSE asked)
        /\ threads' = IF asked = 0 THEN t ELSE threads
        /\ events' = IF again THEN events + 1 ELSE events
        /\ wire' = <<first>> \o IF again THEN <<second>> ELSE <<>>
        /\ server' = [at |-> at, thread |-> t, approval |-> a]
        /\ UNCHANGED <<open, stored, asked, messages, stopped, verdicts, posts, counts, fresh, spoiled>>
    <2>1. Len(more) = IF again THEN 1 ELSE 0
      OBVIOUS
    <2>2. events' = events + Len(more)
      BY DEF Accept
    <2>3. events' = IF again THEN events + 1 ELSE events
      BY <2>1, <2>2, VerdictFacts
    <2> QED  BY <2>3 DEF Accept
  <1>2. /\ threads + 1 <= counts.sends /\ events + 1 <= MaxEvents + counts.sends
        /\ counts.sends \in 0..MaxSends /\ MaxEvents \in Nat /\ asked \in 0..threads
    BY <1>1, PanelAssumption DEF PanelInv, PanelTypes, PanelTypeOK, SendsCounted, Connecting
  <1>3. t \in 1..threads' /\ threads' \in Nat /\ threads <= threads' /\ threads' <= counts.sends
    <2>1. CASE asked = 0
      BY <1>1, <1>2, <2>1, VerdictFacts
    <2>2. CASE asked # 0
      BY <1>1, <1>2, <2>2, VerdictFacts
    <2> QED  BY <2>1, <2>2
  <1>4. a \in Nat
    BY VerdictFacts
  <1>5. events' \in Nat /\ events <= events' /\ events' <= MaxEvents + counts.sends
    BY <1>1, <1>2, VerdictFacts
  <1>6. first \in Messages /\ first.kind = "run_started" /\ first.of = t /\ first.number = 0
    BY <1>3, VerdictFacts DEF Event, Messages, Kinds
  <1> HIDE DEF first, more
  <1>7. <<first>> \in Seq(Messages) /\ Len(<<first>>) = 1 /\ <<first>>[1] = first
    BY <1>6
  <1>8. /\ wire' \in Seq(Messages) /\ wire'[1] = first /\ Len(wire') \in 1..2 /\ DOMAIN wire' = 1..Len(wire')
        /\ Len(wire') = 2 => again /\ wire'[2] = second
    <2>1. CASE ~again
      <3>1. wire' = <<first>> \o <<>>
        BY <1>1, <2>1
      <3>2. wire' = <<first>>
        BY <1>7, <3>1, ConcatEmptySeq
      <3> QED  BY <1>7, <3>2, LenProperties
    <2>2. CASE again
      <3>1. <<second>> \in Seq(Messages) /\ Len(<<second>>) = 1 /\ <<second>>[1] = second
        OBVIOUS
      <3>2. wire' = <<first>> \o <<second>>
        BY <1>1, <2>2
      <3>3. wire' \in Seq(Messages) /\ Len(wire') = 2 /\ wire'[1] = first /\ wire'[2] = second
        BY <1>7, <3>1, <3>2, ConcatProperties
      <3> QED  BY <2>2, <3>3, LenProperties
    <2> QED  BY <2>1, <2>2
  <1>9. Starting'
    BY <1>6, <1>8 DEF Starting, Range
  <1>10. received' = received /\ received \subseteq 1..events
    BY <1>1 DEF messages, PanelInv, PanelTypeOK
  <1>11. WireInOrder'
    <2>1. ASSUME NEW n \in DOMAIN wire'
          PROVE  /\ wire'[n].kind = "run_started" => n = 1 /\ wire'[n].of \in 1..threads' /\ wire'[n].number = 0
                 /\ wire'[n].kind \in {"text", "tool_call"} => wire'[n].of = 0
                 /\ wire'[n].kind = "approval_required" => wire'[n].of \in 1..Len(verdicts')
                 /\ wire'[n].kind # "run_started" => wire'[n].number \in 1..events'
                 /\ wire'[n].kind # "run_started" => \A x \in received' : x < wire'[n].number
      <3>1. CASE n = 1
        BY <1>3, <1>6, <1>8, <3>1
      <3>2. CASE n = 2
        <4>1. again /\ wire'[n] = second
          BY <1>8, <2>1, <3>2
        <4>2. /\ events' = events + 1 /\ events' \in 1..events'
              /\ second.kind = "approval_required" => second.of \in 1..Len(verdicts')
          BY <1>1, <4>1, VerdictFacts
        <4>3. \A x \in received' : x < events + 1
          BY <1>10, VerdictFacts
        <4> QED  BY <1>6, <4>1, <4>2, <4>3
      <3> QED  BY <1>8, <3>1, <3>2
    <2>2. ASSUME NEW m \in DOMAIN wire', NEW n \in DOMAIN wire', m < n PROVE wire'[m].number < wire'[n].number
      <3>1. m = 1 /\ n = 2
        BY <1>8, <2>2
      <3> QED  BY <1>6, <1>8, <2>2, <3>1, VerdictFacts
    <2> QED  BY <2>1, <2>2 DEF WireInOrder
  <1>12. PanelTypes'
    <2>1. server' \in [at : {"none", "run", "wait", "ended"}, thread : Nat, approval : Nat]
      BY <1>1, <1>3, <1>4, VerdictFacts
    <2> QED  BY <1>1, <1>3, <1>5, <1>8, <2>1 DEF PanelInv, PanelTypes, messages
  <1>13. PanelTypeOK'
    <2>1. stored' \in 0..threads' /\ asked' \in 0..threads' /\ threads' <= MaxSends
      BY <1>1, <1>2, <1>3, VerdictFacts DEF PanelInv, PanelTypeOK
    <2>2. received' \subseteq 1..events'
      BY <1>5, <1>10, VerdictFacts
    <2>3. /\ server'.at \in {"none", "run", "wait", "ended"} /\ server'.at # "none"
          /\ server'.at = "wait" <=> server'.approval # 0
      BY <1>1
    <2>4. open'
      BY <1>1 DEF PanelInv, PanelTypeOK
    <2>5. UNCHANGED <<open, screen, bubble, torn, spoiled, stopped, posts, verdicts>> /\ Detached' = Detached
      BY <1>1 DEF messages, Detached, LastEvent
    <2>6. /\ \A n \in DOMAIN screen : screen[n].approval \in 0..Len(verdicts)
          /\ bubble \in {None, Len(screen), Detached} /\ torn \in BOOLEAN /\ spoiled \in BOOLEAN
          /\ \A u \in DOMAIN stopped : stopped[u] \in 0..Len(verdicts)
          /\ \A p \in posts : p.approval \in DOMAIN verdicts
      BY DEF PanelInv, PanelTypeOK
    <2> QED  BY <1>1, <2>1, <2>2, <2>3, <2>4, <2>5, <2>6 DEF PanelTypeOK
  <1>14. SendsCounted'
    <2>1. server'.thread \in 1..threads' /\ Connecting' = 0 /\ counts' = counts
      BY <1>1, <1>3 DEF Connecting
    <2> QED  BY <1>1, <1>2, <1>3, <1>5, <2>1 DEF SendsCounted
  <1>15. ScreenGrows' /\ ShownInOrder'
    BY <1>1, ScreenKept
  <1>16. ThreadsCounted'
    <2>1. CASE asked = 0
      <3>1. threads <= fresh /\ fresh \in Nat /\ threads' = threads + 1
        BY <1>1, <2>1 DEF PanelInv, PanelTypes, ThreadsCounted
      <3> QED  BY <1>1, <1>9, <2>1, <3>1, VerdictFacts DEF ThreadsCounted
    <2>2. CASE asked # 0
      <3>1. threads' = threads
        BY <1>1, <2>2
      <3> QED  BY <1>1, <2>2, <3>1 DEF PanelInv, ThreadsCounted
    <2> QED  BY <2>1, <2>2
  <1> QED  BY <1>11, <1>12, <1>13, <1>14, <1>15, <1>16 DEF PanelInv

LEMMA ServeKeeps == PanelInv /\ Serve => PanelInv'
  <1> SUFFICES ASSUME PanelInv, Serve PROVE PanelInv'
    OBVIOUS
  <1>1. PICK t \in 1..MaxSends :
            LET a == stopped[t]
                again == a # 0 /\ verdicts[a] = "none"
            IN  Accept(t, IF again THEN <<Event("approval_required", a, events + 1)>> ELSE <<>>,
                       IF a = 0 THEN "run" ELSE "wait", a)
    BY DEF Serve
  <1> DEFINE a == stopped[t]
             again == a # 0 /\ verdicts[a] = "none"
             second == Event("approval_required", a, events + 1)
             at == IF a = 0 THEN "run" ELSE "wait"
  <1>2. a \in 0..Len(verdicts) /\ a \in Nat
    BY VerdictFacts
  <1>3. /\ at \in {"run", "wait", "ended"} /\ (at = "wait" <=> a # 0) /\ again \in BOOLEAN
        /\ again => a \in 1..Len(verdicts)
    BY <1>2, VerdictFacts
  <1>4. /\ second \in Messages /\ second.kind = "approval_required" /\ second.of = a
        /\ second.number = events + 1
    BY <1>2, VerdictFacts DEF Event, Messages, Kinds
  <1>5. Accept(t, IF again THEN <<second>> ELSE <<>>, at, a)
    BY <1>1
  <1> HIDE DEF a, again, second, at
  <1> QED  BY <1>2, <1>3, <1>4, <1>5, AcceptKeeps

LEMMA RefuseKeeps == PanelInv /\ Refuse => PanelInv'
  <1> SUFFICES ASSUME PanelInv, Refuse PROVE PanelInv'
    OBVIOUS
  <1> DEFINE second == Event("text", 0, events + 1)
  <1>1. PICK t \in 1..MaxSends : Accept(t, <<second>>, "ended", 0)
    BY DEF Refuse
  <1>2. /\ second \in Messages /\ second.kind = "text" /\ second.of = 0
        /\ second.number = events + 1
    BY VerdictFacts DEF Event, Messages, Kinds
  <1>3. 0 \in 0..Len(verdicts)
    BY VerdictFacts
  <1> HIDE DEF second
  <1>4. Accept(t, IF TRUE THEN <<second>> ELSE <<>>, "ended", 0)
    BY <1>1
  <1> QED  BY <1>2, <1>3, <1>4, AcceptKeeps

\* Another event is sent: a text, a note, or a question.
LEMMA EventSent ==
    ASSUME PanelInv, NEW kind \in Kinds \ {"run_started"}, NEW of \in Nat, Emit(kind, of),
           UNCHANGED <<phase, stored, asked, received, threads, counts, fresh>>, server'.thread = server.thread, server.at # "none",
           Len(verdicts) \in Nat, Len(verdicts') \in Nat, Len(verdicts') >= Len(verdicts),
           IF kind = "approval_required" THEN of \in 1..Len(verdicts') ELSE of = 0
    PROVE  /\ wire' \in Seq(Messages) /\ WireInOrder' /\ SendsCounted' /\ ThreadsCounted'
           /\ events' \in Nat /\ received' \subseteq 1..events'
  <1>1. wire' \in Seq(Messages) /\ WireInOrder' /\ (Starting' <=> Starting)
    BY Emitted
  <1>2. events < MaxEvents /\ events' = events + 1 /\ events \in Nat /\ MaxEvents \in Nat /\ counts.sends \in Nat
    BY PanelAssumption DEF Emit, PanelInv, PanelTypes
  <1>3. phase = "stream" /\ Connecting' = 0 /\ Connecting = 0
    BY DEF PanelInv, PanelTypeOK, Connecting
  <1>4. received \subseteq 1..events
    BY DEF PanelInv, PanelTypeOK
  <1>5. SendsCounted'
    BY <1>2, <1>3 DEF PanelInv, SendsCounted
  <1>6. ThreadsCounted'
    BY <1>1 DEF PanelInv, ThreadsCounted
  <1> QED  BY <1>1, <1>2, <1>4, <1>5, <1>6

LEMMA TellKeeps == PanelInv /\ Tell => PanelInv'
  <1> SUFFICES ASSUME PanelInv, Tell PROVE PanelInv'
    OBVIOUS
  <1>1. /\ server.at = "run"
        /\ UNCHANGED <<open, phase, stored, asked, messages, server, stopped, verdicts, threads, posts, counts, fresh, spoiled>>
    BY DEF Tell
  <1>2. PICK kind \in {"text", "tool_call"} : Emit(kind, 0)
    BY DEF Tell
  <1>3. /\ wire' \in Seq(Messages) /\ WireInOrder' /\ SendsCounted' /\ ThreadsCounted'
        /\ events' \in Nat /\ received' \subseteq 1..events'
    <2>1. kind \in Kinds \ {"run_started"} /\ kind # "approval_required" /\ UNCHANGED received
      BY <1>1 DEF Kinds, messages
    <2> QED  BY <1>1, <1>2, <2>1, VerdictFacts, EventSent
  <1>4. ScreenGrows' /\ ShownInOrder'
    BY <1>1, ScreenKept
  <1>5. PanelTypes'
    BY <1>1, <1>3 DEF PanelInv, PanelTypes, messages
  <1>6. PanelTypeOK'
    BY <1>1, <1>3 DEF PanelInv, PanelTypeOK, messages
  <1> QED  BY <1>3, <1>4, <1>5, <1>6 DEF PanelInv

LEMMA AskKeeps == PanelInv /\ Ask => PanelInv'
  <1> SUFFICES ASSUME PanelInv, Ask PROVE PanelInv'
    OBVIOUS
  <1> DEFINE new == Len(verdicts')
  <1>1. /\ server.at = "run" /\ verdicts' = Append(verdicts, "none")
        /\ Emit("approval_required", new)
        /\ stopped' = [stopped EXCEPT ![server.thread] = new]
        /\ server' = [server EXCEPT !.at = "wait", !.approval = new]
        /\ UNCHANGED <<open, phase, stored, asked, messages, threads, posts, counts, fresh, spoiled>>
    BY DEF Ask
  <1>2. verdicts' \in Seq({"none", "allow", "deny"}) /\ new = Len(verdicts) + 1 /\ new \in Nat /\ DOMAIN verdicts' = 1..new
    BY <1>1, VerdictFacts, AppendProperties, LenProperties
  <1>3. server \in [at : {"none", "run", "wait", "ended"}, thread : Nat, approval : Nat]
    BY DEF PanelInv, PanelTypes
  <1> HIDE DEF new
  <1>4. /\ server' \in [at : {"none", "run", "wait", "ended"}, thread : Nat, approval : Nat]
        /\ server'.at = "wait" /\ server'.approval = new /\ server'.thread = server.thread
    BY <1>1, <1>2, <1>3
  <1>5. /\ wire' \in Seq(Messages) /\ WireInOrder' /\ SendsCounted' /\ ThreadsCounted'
        /\ events' \in Nat /\ received' \subseteq 1..events'
    <2>1. "approval_required" \in Kinds \ {"run_started"} /\ UNCHANGED received /\ new \in 1..new /\ new >= Len(verdicts)
      BY <1>1, <1>2, VerdictFacts DEF Kinds, messages
    <2> QED  BY <1>1, <1>2, <1>4, <2>1, VerdictFacts, EventSent DEF new
  <1>6. ScreenGrows' /\ ShownInOrder'
    BY <1>1, ScreenKept
  <1>7. stopped' \in [1..MaxSends -> Nat] /\ \A u \in DOMAIN stopped' : stopped'[u] \in 0..new
    <2>1. stopped \in [1..MaxSends -> Nat] /\ \A u \in 1..MaxSends : stopped[u] \in 0..Len(verdicts)
      BY VerdictFacts DEF PanelInv, PanelTypes
    <2>2. \A u \in 1..MaxSends : stopped'[u] \in {stopped[u], new}
      BY <1>1, <2>1
    <2>3. stopped' \in [1..MaxSends -> Nat]
      BY <1>1, <1>2, <2>1
    <2>4. \A u \in 1..MaxSends : stopped'[u] \in 0..new
      BY <1>2, <2>1, <2>2, VerdictFacts
    <2> QED  BY <2>3, <2>4
  <1>8. PanelTypes'
    BY <1>1, <1>2, <1>4, <1>5, <1>7 DEF PanelInv, PanelTypes, messages
  <1>9. PanelTypeOK'
    <2>1. \A n \in DOMAIN screen : screen[n].approval \in 0..new
      <3>1. \A n \in DOMAIN screen : screen[n].approval \in 0..Len(verdicts)
        BY DEF PanelInv, PanelTypeOK
      <3> QED  BY <1>2, <3>1, VerdictFacts
    <2>2. \A p \in posts : p.approval \in DOMAIN verdicts'
      <3>1. \A p \in posts : p.approval \in DOMAIN verdicts
        BY DEF PanelInv, PanelTypeOK
      <3> QED  BY <1>2, <3>1, VerdictFacts
    <2>3. phase = "stream" /\ new # 0
      BY <1>1, <1>2, VerdictFacts DEF PanelInv, PanelTypeOK
    <2>4. UNCHANGED <<screen, bubble, torn>> /\ Detached' = Detached
      BY <1>1 DEF messages, Detached, LastEvent
    <2> QED  BY <1>1, <1>4, <1>5, <1>7, <2>1, <2>2, <2>3, <2>4 DEF PanelInv, PanelTypeOK, new
  <1> QED  BY <1>5, <1>6, <1>8, <1>9 DEF PanelInv

\* The rest neither sends nor shows anything.
LEMMA QuietKeeps ==
    ASSUME PanelInv,
           UNCHANGED <<open, phase, stored, asked, messages, wire, threads, events, fresh>>,
           counts' \in [sends : 0..MaxSends, troubles : Nat], counts'.sends = counts.sends,
           verdicts' \in Seq({"none", "allow", "deny"}), Len(verdicts') = Len(verdicts),
           server' \in [at : {"none", "run", "wait", "ended"}, thread : Nat, approval : Nat],
           server'.thread = server.thread, server'.at = "none" <=> server.at = "none",
           server'.at = "wait" <=> server'.approval # 0,
           stopped' \in [1..MaxSends -> Nat], \A t \in 1..MaxSends : stopped'[t] \in {0, stopped[t]},
           posts' \subseteq posts, spoiled' \in BOOLEAN
    PROVE  PanelInv'
  <1>1. ScreenGrows' /\ ShownInOrder'
    BY ScreenKept
  <1>2. WireInOrder'
    BY WireKept DEF messages
  <1>3. SendsCounted' /\ ThreadsCounted'
    BY DEF PanelInv, SendsCounted, Connecting, ThreadsCounted, Starting
  <1>4. PanelTypes'
    BY DEF PanelInv, PanelTypes, messages
  <1>5. PanelTypeOK'
    <2>1. DOMAIN verdicts' = DOMAIN verdicts
      BY VerdictFacts, LenProperties
    <2>2. ASSUME NEW t \in DOMAIN stopped' PROVE stopped'[t] \in 0..Len(verdicts')
      <3>1. t \in 1..MaxSends /\ stopped'[t] \in {0, stopped[t]}
        OBVIOUS
      <3> QED  BY <3>1, VerdictFacts
    <2>3. UNCHANGED <<screen, bubble, torn, received>> /\ Detached' = Detached
      BY DEF messages, Detached, LastEvent
    <2> QED  BY <2>1, <2>2, <2>3 DEF PanelInv, PanelTypeOK
  <1> QED  BY <1>1, <1>2, <1>3, <1>4, <1>5 DEF PanelInv

LEMMA ServerTypes ==
    ASSUME PanelInv
    PROVE  /\ server \in [at : {"none", "run", "wait", "ended"}, thread : Nat, approval : Nat]
           /\ stopped \in [1..MaxSends -> Nat] /\ counts \in [sends : 0..MaxSends, troubles : Nat]
           /\ spoiled \in BOOLEAN /\ (server.at = "wait" <=> server.approval # 0)
  BY DEF PanelInv, PanelTypes, PanelTypeOK

LEMMA ResumeKeeps == PanelInv /\ Resume => PanelInv'
  <1> SUFFICES ASSUME PanelInv, Resume PROVE PanelInv'
    OBVIOUS
  <1>1. /\ server.at = "wait" /\ stopped' = [stopped EXCEPT ![server.thread] = 0]
        /\ server' = [server EXCEPT !.at = "run", !.approval = 0]
        /\ UNCHANGED <<open, phase, stored, asked, messages, wire, verdicts, threads, events, posts, counts, fresh, spoiled>>
    BY DEF Resume
  <1>2. /\ server' \in [at : {"none", "run", "wait", "ended"}, thread : Nat, approval : Nat]
        /\ server'.at = "run" /\ server'.approval = 0 /\ server'.thread = server.thread
    BY <1>1, ServerTypes
  <1>3. stopped' \in [1..MaxSends -> Nat] /\ \A t \in 1..MaxSends : stopped'[t] \in {0, stopped[t]}
    BY <1>1, ServerTypes
  <1> QED  BY <1>1, <1>2, <1>3, ServerTypes, VerdictFacts, QuietKeeps

LEMMA FinishKeeps == PanelInv /\ Finish => PanelInv'
  <1> SUFFICES ASSUME PanelInv, Finish PROVE PanelInv'
    OBVIOUS
  <1>1. /\ server.at = "run" /\ server' = [server EXCEPT !.at = "ended"]
        /\ UNCHANGED <<open, phase, stored, asked, messages, wire, stopped, verdicts, threads, events, posts, counts, fresh, spoiled>>
    BY DEF Finish
  <1>2. /\ server' \in [at : {"none", "run", "wait", "ended"}, thread : Nat, approval : Nat]
        /\ server'.at = "ended" /\ server'.approval = server.approval /\ server'.thread = server.thread
    BY <1>1, ServerTypes
  <1> QED  BY <1>1, <1>2, ServerTypes, VerdictFacts, QuietKeeps

LEMMA PostKeeps ==
    ASSUME PanelInv, NEW p \in posts, Arrives(p) \/ Lost(p)
    PROVE  PanelInv'
  <1>1. CASE Arrives(p)
    <2>1. /\ posts' = posts \ {p} /\ verdicts' = [verdicts EXCEPT ![p.approval] = p.decision]
          /\ UNCHANGED <<open, phase, stored, asked, messages, wire, server, stopped, threads, events, counts, fresh, spoiled>>
      BY <1>1 DEF Arrives
    <2>2. p.approval \in 1..Len(verdicts) /\ p.decision \in {"none", "allow", "deny"}
      <3>1. p.approval \in DOMAIN verdicts /\ p \in [approval : Nat, decision : {"allow", "deny"}]
        BY DEF PanelInv, PanelTypeOK, PanelTypes
      <3> QED  BY <3>1, VerdictFacts
    <2>3. verdicts' \in Seq({"none", "allow", "deny"}) /\ Len(verdicts') = Len(verdicts)
      BY <2>1, <2>2, VerdictFacts, ExceptSeq
    <2> QED  BY <2>1, <2>3, ServerTypes, QuietKeeps
  <1>2. CASE Lost(p)
    <2>1. /\ Trouble /\ posts' = posts \ {p} /\ spoiled' \in BOOLEAN
          /\ UNCHANGED <<open, phase, stored, asked, messages, remote, fresh>>
      BY <1>2, ServerTypes DEF Lost
    <2>2. UNCHANGED <<wire, server, stopped, verdicts, threads, events>>
      BY <2>1 DEF remote
    <2> QED  BY <2>1, <2>2, TroubleCounts, ServerTypes, VerdictFacts, QuietKeeps
  <1> QED  BY <1>1, <1>2

LEMMA PanelStep == PanelInv /\ [PanelNext]_panelVars => PanelInv'
  <1> SUFFICES ASSUME PanelInv, [PanelNext]_panelVars PROVE PanelInv'
    OBVIOUS
  <1>1. CASE Panel
    BY <1>1, ReadThreadKeeps, ReadKeeps, StreamOverKeeps DEF Panel
  <1>2. CASE Server
    BY <1>2, ServeKeeps, RefuseKeeps, TellKeeps, AskKeeps, ResumeKeeps, FinishKeeps DEF Server
  <1>3. CASE Send \/ Fails \/ Reset \/ Close \/ Open
    BY <1>3, SendKeeps, StreamOverKeeps, ResetKeeps, CloseKeeps, OpenKeeps
  <1>4. CASE \E n \in 1..LastEvent, d \in {"allow", "deny"} : Respond(n, d)
    BY <1>4, RespondKeeps
  <1>5. CASE \E p \in posts : Arrives(p) \/ Lost(p)
    BY <1>5, PostKeeps
  <1>6. CASE UNCHANGED panelVars
    <2>1. UNCHANGED <<open, phase, stored, asked, messages, remote, posts, counts, fresh, spoiled>>
      BY <1>6 DEF panelVars
    <2>2. UNCHANGED <<wire, server, stopped, verdicts, threads, events>>
      BY <2>1 DEF remote
    <2> QED  BY <2>1, <2>2, ServerTypes, VerdictFacts, QuietKeeps
  <1> QED  BY <1>1, <1>2, <1>3, <1>4, <1>5, <1>6 DEF PanelNext

-----------------------------------------------------------------------------
\* The variables keep their types; with them goes that an open bubble is the last
\* element of the page or off it, and that there is a stream exactly while the panel
\* reads one (sendMessage, handleEvent).
THEOREM PanelTypesHold == PanelSpec => []PanelTypeOK
  <1>1. PanelInv => PanelTypeOK
    BY DEF PanelInv
  <1> QED  BY <1>1, InitPanel, PanelStep, PTL DEF PanelSpec

\* "DOM order is event order" for any number of messages, events, resets and lost
\* connections: what is on the page stands in the order it was sent, and nothing is
\* missing or shown twice (onText, onToolCall, onApprovalRequired).
THEOREM EventsStandInOrder == PanelSpec => []ShownInOrder
  <1>1. PanelInv => ShownInOrder
    BY DEF PanelInv
  <1> QED  BY <1>1, InitPanel, PanelStep, PTL DEF PanelSpec

\* A thread is begun only after a reset or a stream that was lost unnamed, however
\* often the panel is closed and opened (getThreadId, setThreadId on run_started).
THEOREM ConversationsContinue == PanelSpec => []ConversationContinues
  <1>1. PanelInv => ConversationContinues
    BY DEF PanelInv, ThreadsCounted, ConversationContinues
  <1> QED  BY <1>1, InitPanel, PanelStep, PTL DEF PanelSpec
=============================================================================
