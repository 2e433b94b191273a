---------------------------- MODULE ContentScript ----------------------------
(***************************************************************************)
(* The content script on YouTube's subscription page (inject.ts): category *)
(* tabs, badges on the cards, a filter by category.  YouTube renders,      *)
(* navigates and scrolls as it likes; the script's async functions wait    *)
(* for the server or for an element and meet whatever is there afterwards. *)
(* Between two waits everything runs in one go, the callback of the        *)
(* MutationObserver included.  A card is its video.                        *)
(***************************************************************************)
EXTENDS Naturals, FiniteSets

CONSTANTS
    Videos, Categories,
    CategoryVideos,   \* what the server lists for a category
    Runs,             \* runs of handleNavigation that may overlap
    Clicks,           \* calls of selectCategory that may overlap
    All,              \* the tab for all videos (null)
    MaxNavigations, MaxChanges, MaxClicks   \* bounds

ASSUME ContentAssumption ==
    /\ CategoryVideos \in [Categories -> SUBSET Videos]
    /\ All \notin Categories
    /\ {MaxNavigations, MaxChanges, MaxClicks} \subseteq Nat

VARIABLES
    page,       \* "subscriptions" or "other"
    dom,        \* how far YouTube has rendered: nothing, header, grid
    cards,      \* the cards in the grid
    feed,       \* what the server knows
    index,      \* videoIndex
    badges,     \* number of badges on a card
    bars,       \* number of tab bars
    active,     \* activeCategoryId
    allowed,    \* allowedVideoIds; all videos where the code has null
    hidden,     \* cards with display: none
    observing,  \* gridObserver is set and watches the grid
    pc,         \* of a run: idle, load, answered, bar, grid
    answer,     \* of a run: the feed as the server has answered it
    asking,     \* of a click: the category it waits for, or All
    late,       \* history: cards that came while the grid was watched
    steps       \* counts what is bounded: navigations, changes, clicks

dompage == <<page, dom, cards, feed>>
filter == <<active, allowed, hidden, asking>>
vars == <<dompage, index, badges, bars, filter, observing, pc, answer, late, steps>>

Count(what, max) == steps[what] < max /\ steps' = [steps EXCEPT ![what] = @ + 1]

Init ==
    /\ page \in {"subscriptions", "other"}
    /\ dom = "nothing" /\ cards = {} /\ feed \in SUBSET Videos
    /\ index = {} /\ badges = [v \in Videos |-> 0] /\ bars = 0
    /\ active = All /\ allowed = Videos /\ hidden = {} /\ observing = FALSE
    \* the script calls handleNavigation as it is loaded
    /\ \E r \in Runs : pc = [s \in Runs |-> IF s = r /\ page = "subscriptions" THEN "load" ELSE "idle"]
    /\ answer = [r \in Runs |-> {}]
    /\ asking = [k \in Clicks |-> All]
    /\ late = {}
    /\ steps = [navigations |-> 0, changes |-> 0, clicks |-> 0]

-----------------------------------------------------------------------------
\* Mutant: INJECTED_MARK is not looked for.
BadgedAgain(count, shown, known) ==
    [v \in Videos |-> IF v \in shown \cap known THEN count[v] + 1 ELSE count[v]]

\* applyBadgesToAllCards: a card that is known and not marked gets a badge.
Badged(count, shown, known) ==
    [v \in Videos |-> IF v \in shown \cap known /\ count[v] = 0 THEN 1 ELSE count[v]]

\* applyCategoryFilter: what it hides of the cards.
Hidden(shown, list) == shown \ list

-----------------------------------------------------------------------------
(* handleNavigation *)

\* yt-navigate-finish: away from the page the observer goes, on it a run starts.
Navigate ==
    /\ Count("navigations", MaxNavigations)
    /\ \/ /\ page' = "other" /\ observing' = FALSE
          /\ UNCHANGED pc
       \/ /\ page' = "subscriptions"
          /\ \E r \in Runs : pc[r] = "idle" /\ pc' = [pc EXCEPT ![r] = "load"]
          /\ UNCHANGED observing
    /\ UNCHANGED <<dom, cards, feed, index, badges, bars, filter, answer, late>>

\* No token, or the server cannot be reached: the run ends, the page is left alone.
LoadFails(r) ==
    /\ pc[r] \in {"load", "answered"}
    /\ pc' = [pc EXCEPT ![r] = "idle"]
    /\ answer' = [answer EXCEPT ![r] = {}]
    /\ UNCHANGED <<dompage, index, badges, bars, filter, observing, late, steps>>

\* The server has read the feed; the answer is on its way.
Answer(r) ==
    /\ pc[r] = "load"
    /\ pc' = [pc EXCEPT ![r] = "answered"]
    /\ answer' = [answer EXCEPT ![r] = feed]
    /\ UNCHANGED <<dompage, index, badges, bars, filter, observing, late, steps>>

\* From the tab bar to the end of the run, or to the wait for a grid that is not
\* there yet; observing anew replaces the observer of an earlier run.
Inject(r, known) ==
    /\ badges' = Badged(badges, cards, known)
    /\ IF dom = "grid"
       THEN pc' = [pc EXCEPT ![r] = "idle"] /\ observing' = TRUE
       ELSE pc' = [pc EXCEPT ![r] = "grid"] /\ UNCHANGED observing
    /\ UNCHANGED <<dompage, filter, late, steps>>

\* Mutant: a page that has its tab bar is taken for done.
LoadedOnce(r) ==
    /\ pc[r] = "answered"
    /\ index' = answer[r]
    /\ answer' = [answer EXCEPT ![r] = {}]
    /\ CASE bars > 0 -> /\ pc' = [pc EXCEPT ![r] = "idle"]
                        /\ UNCHANGED <<dompage, filter, late, steps, badges, bars, observing>>
         [] bars = 0 /\ dom # "nothing" -> bars' = 1 /\ Inject(r, answer[r])
         [] OTHER -> /\ pc' = [pc EXCEPT ![r] = "bar"]
                     /\ UNCHANGED <<dompage, badges, bars, filter, observing, late, steps>>

\* The answer comes, perhaps after that of a later run; buildTabBar needs the header
\* unless there is a bar already.
Loaded(r) ==
    /\ pc[r] = "answered"
    /\ index' = answer[r]
    /\ answer' = [answer EXCEPT ![r] = {}]
    /\ CASE bars > 0 -> UNCHANGED bars /\ Inject(r, answer[r])
         [] bars = 0 /\ dom # "nothing" -> bars' = 1 /\ Inject(r, answer[r])
         [] OTHER -> /\ pc' = [pc EXCEPT ![r] = "bar"]
                     /\ UNCHANGED <<dompage, badges, bars, filter, observing, late, steps>>

\* waitFor finds the header, or gives up: whether there is a bar by now is not asked.
HeaderFound(r) ==
    /\ pc[r] = "bar" /\ dom # "nothing"
    /\ bars' = bars + 1
    /\ Inject(r, index)
    /\ UNCHANGED <<index, answer>>

HeaderMissing(r) ==
    /\ pc[r] = "bar" /\ dom = "nothing"
    /\ Inject(r, index)
    /\ UNCHANGED <<index, bars, answer>>

\* waitFor finds the grid: it is watched from now on; the cards that came with it
\* are not looked at.
GridFound(r) ==
    /\ pc[r] = "grid" /\ dom = "grid"
    /\ pc' = [pc EXCEPT ![r] = "idle"]
    /\ observing' = TRUE
    /\ UNCHANGED <<dompage, index, badges, bars, filter, answer, late, steps>>

GridMissing(r) ==
    /\ pc[r] = "grid" /\ dom # "grid"
    /\ pc' = [pc EXCEPT ![r] = "idle"]
    /\ UNCHANGED <<dompage, index, badges, bars, filter, observing, answer, late, steps>>

-----------------------------------------------------------------------------
(* selectCategory *)

\* A tab is clicked.  For all videos the filter goes at once.
Click ==
    /\ bars > 0
    /\ Count("clicks", MaxClicks)
    /\ \/ /\ active' = All /\ allowed' = Videos
          /\ hidden' = Hidden(cards, Videos)
          /\ UNCHANGED asking
       \/ \E k \in Clicks, c \in Categories :
             /\ asking[k] = All
             /\ active' = c
             /\ asking' = [asking EXCEPT ![k] = c]
             /\ UNCHANGED <<allowed, hidden>>
    /\ UNCHANGED <<dompage, index, badges, bars, observing, pc, answer, late>>

\* The server's list for the category comes, whatever has been clicked since.
ListComes(k) ==
    /\ asking[k] # All
    /\ allowed' = CategoryVideos[asking[k]] \cap feed
    /\ hidden' = Hidden(cards, allowed')
    /\ asking' = [asking EXCEPT ![k] = All]
    /\ UNCHANGED <<dompage, index, badges, bars, active, observing, pc, answer, late, steps>>

\* Mutant: the list is dropped and the cards are left as they are.
ListFailsQuietly(k) ==
    /\ asking[k] # All
    /\ allowed' = Videos
    /\ asking' = [asking EXCEPT ![k] = All]
    /\ UNCHANGED <<dompage, index, badges, bars, active, hidden, observing, pc, answer, late, steps>>

\* The request fails: no filter rather than no cards.
ListFails(k) ==
    /\ asking[k] # All
    /\ allowed' = Videos
    /\ hidden' = Hidden(cards, allowed')
    /\ asking' = [asking EXCEPT ![k] = All]
    /\ UNCHANGED <<dompage, index, badges, bars, active, observing, pc, answer, late, steps>>

-----------------------------------------------------------------------------
(* YouTube and the server *)

\* Polymer renders the page: first the header, then a grid with its first cards.
Render ==
    /\ \/ dom = "nothing" /\ dom' = "header" /\ UNCHANGED cards
       \/ dom = "header" /\ dom' = "grid" /\ cards' \in SUBSET Videos
    /\ UNCHANGED <<page, feed, index, badges, bars, filter, observing, pc, answer, late, steps>>

\* The observer's callback: both passes over all cards.
Observed(shown) ==
    IF observing
    THEN badges' = Badged(badges, shown, index) /\ hidden' = Hidden(shown, allowed)
    ELSE UNCHANGED <<badges, hidden>>

\* Scrolling adds a card.
AddCard(v) ==
    /\ dom = "grid" /\ v \notin cards
    /\ Count("changes", MaxChanges)
    /\ cards' = cards \cup {v}
    /\ late' = IF observing THEN late \cup {v} ELSE late
    /\ Observed(cards')
    /\ UNCHANGED <<page, dom, feed, index, bars, active, allowed, asking, observing, pc, answer>>

\* A card is taken out, with what was put on it.
RemoveCard(v) ==
    /\ v \in cards
    /\ Count("changes", MaxChanges)
    /\ cards' = cards \ {v}
    /\ late' = late \ {v}
    /\ badges' = [Badged(badges, IF observing THEN cards' ELSE {}, index) EXCEPT ![v] = 0]
    /\ hidden' = IF observing THEN Hidden(cards', allowed) ELSE hidden \ {v}
    /\ UNCHANGED <<page, dom, feed, index, bars, active, allowed, asking, observing, pc, answer>>

\* The server's worker finds a video.
Discover(v) ==
    /\ v \notin feed
    /\ feed' = feed \cup {v}
    /\ UNCHANGED <<page, dom, cards, index, badges, bars, filter, observing, pc, answer, late, steps>>

Next ==
    \/ Navigate
    \/ \E r \in Runs : \/ Answer(r) \/ LoadFails(r) \/ Loaded(r)
                       \/ HeaderFound(r) \/ HeaderMissing(r)
                       \/ GridFound(r) \/ GridMissing(r)
    \/ Click
    \/ \E k \in Clicks : ListComes(k) \/ ListFails(k)
    \/ Render
    \/ \E v \in Videos : AddCard(v) \/ RemoveCard(v) \/ Discover(v)

Spec == Init /\ [][Next]_vars

-----------------------------------------------------------------------------
\* Types.  Only what a run has found is acted on: there is no observer without a
\* grid, and what is hidden or has come late is a card that is there.
TypeOK ==
    /\ page \in {"subscriptions", "other"} /\ dom \in {"nothing", "header", "grid"}
    /\ cards \subseteq Videos /\ feed \subseteq Videos /\ index \subseteq feed
    /\ badges \in [Videos -> Nat] /\ bars \in Nat
    /\ active \in Categories \cup {All} /\ allowed \subseteq Videos
    /\ hidden \subseteq cards /\ late \subseteq cards /\ observing \in BOOLEAN
    /\ pc \in [Runs -> {"idle", "load", "answered", "bar", "grid"}]
    /\ answer \in [Runs -> SUBSET feed]
    /\ asking \in [Clicks -> Categories \cup {All}]
    /\ steps \in [{"navigations", "changes", "clicks"} -> Nat]
    /\ dom # "grid" => cards = {} /\ ~observing

\* However many runs and observer callbacks pass over the cards, in whatever order,
\* no card carries two badges; a card that comes back has to be badged anew.
BadgedOnce == \A v \in Videos : badges[v] <= 1 /\ (badges[v] = 1 => v \in cards)

\* A card that came while the grid was watched has its badge as soon as the last
\* load knows its video, also if that load was a later visit's.
LateCardsBadged == \A v \in late \cap index : badges[v] = 1

\* No card is hidden that the list of the category allows, and none at all where
\* there is no list (a failing request brings back what an earlier one hid); of the
\* cards that came under observation all others are hidden.
FilterHonest == hidden \cap allowed = {} /\ late \ allowed \subseteq hidden
=============================================================================
