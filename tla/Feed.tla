-------------------------------- MODULE Feed --------------------------------
(***************************************************************************)
(* Four queries over the same tables that count the same videos each in    *)
(* its own way: list_feed, feed_counts (the badges of the tabs),           *)
(* list_categories and get_watch_stats.  A library is what they read; a    *)
(* joined row is the tuple of what it joins, Null where LEFT JOIN finds    *)
(* nothing.                                                                *)
(***************************************************************************)
EXTENDS FiniteSets

CONSTANTS FeedVideos, FeedChannels, FeedCategories, Null

\* "seen" stands for skipped and not_interested too: the queries tell apart what is
\* new, what is watched, and the rest.
States == {"new", "seen", "watched"}

\* The videos are rows of a table; NULL is no value of a column.
ASSUME FeedAssumption ==
    /\ IsFiniteSet(FeedVideos)
    /\ Null \notin FeedVideos \cup FeedChannels \cup FeedCategories \cup States

\* channel: a video's channel; shorts: of kind short; states: rows of video_states
\* (Null: none); filed: rows of channel_categories; recent: videos whose state was
\* set since since_hours (all: only the statistics ask for a time).
Libraries ==
    [channel : [FeedVideos -> FeedChannels],
     shorts : SUBSET FeedVideos,
     states : [FeedVideos -> States \cup {Null}],
     filed : SUBSET (FeedChannels \X FeedCategories),
     recent : {FeedVideos}]

\* COALESCE(vs.state, 'new')
StateOf(lib, v) == IF lib.states[v] = Null THEN "new" ELSE lib.states[v]

\* list_feed; order and limit are left out.
ListFeed(lib, category, states, shorts) ==
    {v \in FeedVideos :
        /\ StateOf(lib, v) \in states
        /\ shorts \/ v \notin lib.shorts
        /\ category = Null \/ <<lib.channel[v], category>> \in lib.filed}

\* feed_counts: a category without such videos has no entry.
FeedCounts(lib, state) ==
    LET joined == {row \in lib.filed \X FeedVideos :
                      lib.channel[row[2]] = row[1][1] /\ StateOf(lib, row[2]) = state}
        named == {row[1][2] : row \in joined}
    IN  [total |-> Cardinality({v \in FeedVideos : StateOf(lib, v) = state}),
         by_category |-> [category \in named |->
            Cardinality({row[2] : row \in {r \in joined : r[1][2] = category}})]]

\* Mutant: a video without a row in video_states is not counted.
ListCategoriesStored(lib) ==
    LET channelsOf(category) == {c \in FeedChannels : <<c, category>> \in lib.filed}
    IN  [category \in FeedCategories |->
           [channels |-> Cardinality(channelsOf(category)),
            new |-> Cardinality({v \in FeedVideos :
                       lib.channel[v] \in channelsOf(category) /\ lib.states[v] = "new"})]]

\* list_categories: the LEFT JOINs keep categories without channels and channels
\* without videos, as rows whose video is Null and whose state counts as new;
\* COUNT(DISTINCT ...) passes over Null.
ListCategories(lib) ==
    LET channelsOf(category) ==
           LET filed == {c \in FeedChannels : <<c, category>> \in lib.filed}
           IN  IF filed = {} THEN {Null} ELSE filed
        videosOf(c) ==
           LET own == {v \in FeedVideos : lib.channel[v] = c}
           IN  IF own = {} THEN {Null} ELSE own
        joined(category) == UNION {{<<c, v>> : v \in videosOf(c)} : c \in channelsOf(category)}
        isNew(row) == row[2] = Null \/ StateOf(lib, row[2]) = "new"
    IN  [category \in FeedCategories |->
           [channels |-> Cardinality({row[1] : row \in joined(category)} \ {Null}),
            new |-> Cardinality({row[2] : row \in {r \in joined(category) : isNew(r)}} \ {Null})]]

\* get_watch_stats: a video counts once for every category of its channel.
WatchStats(lib) ==
    LET rows == {v \in lib.recent : lib.states[v] # Null}
        watched == {v \in rows : lib.states[v] = "watched"}
        joined == {row \in watched \X lib.filed : lib.channel[row[1]] = row[2][1]}
    IN  [watched |-> Cardinality(watched),
         changes |-> Cardinality(rows),
         by_category |-> [category \in {row[2][2] : row \in joined} |->
            Cardinality({row \in joined : row[2][2] = category})]]
=============================================================================
