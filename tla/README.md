# A TLA+ model of yt-feed-agent

yt-feed-agent watches a user's YouTube subscriptions, keeps an index of their
videos, recommends some every day and offers a chat agent that works on them.
This directory holds TLA+ modules for the parts of it that change state
concurrently or survive failures, the TLC configurations that check them, and
proofs checked by TLAPS. All paths below are relative to the repository; the
server is `server/ytfa/`, which `PROJECT.json` names with its prefix `src/`.

## 1. Inventory

The system is a FastAPI server, a poll worker (a process of its own or a thread
of the server), a CLI, an MCP server that the chat agent starts as a subprocess,
and a Chrome extension. They share one SQLite file; the agent also has a
checkpoint database of LangGraph. Nothing else connects them: there is no queue
and no lock except SQLite's own, so whatever is read before a network call and
used after it can be stale.

| Part | State | Operations | What is hard | Correct when |
|---|---|---|---|---|
| Chat agent (`agent/streaming.py`, `nodes.py`, `graph.py`) | checkpoint per thread; locals of each SSE stream | `POST /agent/chat`; graph nodes agent, approve, tools, compact | a stream dies anywhere; restart; two panels on a thread; several ask calls in a message | only calls the user allowed run, once; no stream hangs |
| Approvals (`agent/approvals.py`) | table `pending_approvals`; dict `_waiters` of futures | create, register, resolve, poll | the answer comes from another thread or process, before or after the wait, or twice | a decision always reaches its waiter and only its call |
| Cost (`llm/cost.py`) | table `runs` | check, LLM call, record | check and record are far apart; runs may die in between | spending stays near the limit |
| Poll worker (`worker.py`, `sources/rss.py`, `youtube_api.py`) | table `videos` | poll, enrich, index | cycles and CLI overlap; a stage raises | every video arrives in the index |
| Indexer (`rag/indexer.py`, `chunker.py`) | `chunks`, `embeddings`, `indexed_level` | `index_l1`, `index_l2` | select first, write later in batches; two processes | a level is never ahead of its chunks |
| Briefing (`core/briefing.py`, `ranking.py`, `llm/summarize.py`, `sources/transcript.py`) | `runs` of kind brief, summaries, transcripts | GET, POST, `brief` | overlapping requests, one failing candidate, midnight | paid once, cached only if complete |
| Categories (`llm/categorize.py`, `core/categories.py`) | `categories`, `channel_categories`, lock and review flags | automatic runs, the user's assignment | lock read before an LLM call | the user's word stands |
| Takeout import (`sources/takeout.py`) | `channels` | import of a CSV file | imported again after channels were sorted and locked | nothing about a known channel changes |
| Video states and feed (`core/videos.py`, `categories.py`, `stats.py`) | `video_states` | `set_video_state`; feed, badges, list of categories, statistics | changes under the indexer's and briefing's feet; four queries with joins of their own | the numbers agree |
| Database (`db.py`) | `videos_fts`, its triggers | `init_db` by every connection: check, heal, schema, backfill | several processes at once, DDL commits statement by statement | whoever works finds every video, once |
| Memory (`core/memory.py`) | `memories` | remember, forget, recall | a recall reads first and counts later | `use_count` is the number of recalls |
| Sub-agent (`llm/subagent.py`) | futures and result list of a batch | up to five parallel LLM calls | workers finish in any order and fail anywhere; one shared limit | each id gets its own answer, the batch returns, spending stays bounded |
| Search (`core/search.py`, `rag/vector_search.py`, `hybrid.py`, `rerank.py`; evaluated by `eval/run_retrieval.py`) | none | keyword, semantic, hybrid, rerank | several chunks of a video, two rankings, an LLM that scores some candidates | the best chunk stands for its video; nothing is lost, doubled or mislabelled |
| Side panel (`extension/src/sidepanel`, `api.ts`) | thread id in `chrome.storage`; `sending`, open bubble, dialogs on the page | send, read events, answer, reset, close | the user acts between any two events; closing and failures | screen in event order, one conversation, no panel locked for ever |
| Content script (`extension/src/content`) | index of known videos, filter, observer; badges and tab bar in YouTube's page | a run per navigation, clicks on tabs, observer callback | YouTube renders, scrolls and navigates while a run or a click waits | one badge per card, nothing hidden without a reason |
| Popup, background (`extension/src/popup`, `background.ts`) | what is painted | briefing, search, a counter | answers in any order | not modelled |
| Adapters (`api/`, `mcp_server/`, `agent/mcp_tools.py`, `agent/tools_local.py`) | none | call the parts above | a tool's exception becomes its answer | the tools that change state are actions of the modules of what they call |
| `config.py`, `observability.py`, `security.py`, `main.py`, `rag/embedder.py` | files | file I/O, strings, wiring, floating point | - | not modelled |

The hazards this list leads to are in `PROJECT.json`, each at its line, with the
properties that watch it or the reason why none does. Those of the parts that are not
modelled (the popup's answers, the token file) are named at the end of section 3 only.

## 2. Modules

| Module | Models | Role |
|---|---|---|
| `ApprovalGate` | what the approval gate promises | abstract specification |
| `ChatApproval` | one thread of the agent: streams, graph, checkpoint, approvals, futures, user, deaths | implements ApprovalGate |
| `MCChatApproval` | sets of points where streams may die | for TLC |
| `ChatApproval_proofs` | types, allowed calls, single runs and dialogs, the gate | proofs |
| `CostLedger` | the limit check, the calls, the ledger, lost runs | specification |
| `SubAgent`, `SubAgent_proofs` | a batch of parallel workers over CostLedger | composition; proofs about both |
| `IndexPromise` | what the semantic index promises the searches | abstract specification |
| `VideoIndex`, `VideoIndex_proofs` | discovery, enrichment, L1 and L2 indexing by a worker and CLI processes | implements IndexPromise; proofs |
| `Briefing`, `MCBriefing`, `Briefing_proofs` | requests for today's briefing | specification; symmetry for TLC; proofs |
| `Categories`, `Categories_proofs` | automatic classification against the user, imports of channels | specification and proofs |
| `Store` | what each connection does to the database before and while it is used | specification |
| `Memory`, `Memory_proofs` | the memory tools, each on a connection of Store | composition and proofs |
| `ContentScript`, `MCContentScript` | the content script against YouTube's page | specification; two categories and symmetry for TLC |
| `SidePanel` | the side panel against the chat stream | specification |
| `Extension_proofs` | both parts of the extension | proofs |
| `Retrieval` | the rankings of the searches | operators |
| `Feed` | the feed, its badges, the list of categories, the statistics | operators |
| `Algorithms`, `Algorithms_proofs` | chunking, excerpts, compaction, rankings and their evaluation, feed queries, the bill of a call | functions on all small inputs; proofs for all inputs |

### ChatApproval

A stream's `pc` follows `stream_chat` through its awaits: `load`
(`aget_state`), `attach` (the branch on `graph_state.next` and the latest row),
`start` and `run` (the graph), `ran` (tools have had their effects, the
checkpoint is not saved), `interrupted` (`create_pending` is next), `asked`
(the row exists, the waiter does not), `wait`. Everything between two of these
points runs in the event loop without an await that another coroutine could use
to touch the same state. `Resolve` and `Wake` are the two halves of
`approvals.resolve`, which runs in a request thread: the commit and the wake-up
of the future are separate actions.

The graph is LangGraph's as the code uses it, and is marked external: a node's
result is saved as a checkpoint before the next node runs; the answers given to
`interrupt()` are kept with the pending task and replayed; a resume value answers
the first interrupt without an answer and is ignored by any other pending node.
An AIMessage is the sequence of its ask-class calls, numbered as they are made.
Calls of the class `auto_allow` pass the gate untouched and are left out.

`Cut` ends a stream where `CutPoints` allows it (the client disconnects, or a
node raises and `stream_chat` reports the error), `Restart` ends the process.
`posted`, `ran` and `rerun` are history.

### CostLedger

A runner checks (`check_cost_limit`), makes calls and records (`record_run`). A
chat checks once and calls many times, a client (`LLMClient.call` and `parse`)
once. How many calls a chat makes is bounded by the model (`MaxCalls`): the step limit
of LangGraph is no bound on a run, since it starts anew with each `Command(resume)`
(`streaming.py` 220-223, 312). `CallUnpriced` is a call of a model without a price, which
`streaming.py` 258 counts as 0.0. `Lose` stands for every way a run ends without its row;
both add to `lost`, so that the slack grows with each of them. `Age` lets rows
leave the windows of 24 hours and 30 days in any order that keeps day <= month.
Amounts are integers: only sums and comparisons matter.

### SubAgent

SubAgent extends CostLedger: worker n of a batch is the ledger's client n and
moves through the ledger's own actions, so that what it pays is what every other
client sees. `stage`, `future` and `results` are the executor's and the
supervisor's: a worker looks up its video, calls, returns; `Collect` is one turn
of the `as_completed` loop. A worker's `except Exception` is `Raises`. Chats and
other clients go on (`Others`). That this implements CostLedger is so by construction,
and a lemma of the proofs only.

### VideoIndex

`pc` names the stage of a process; `todo` is the rows it has selected. A batch is
one action because the code commits once per batch; `Abort` drops what is not
committed. The order in which SQLite returns rows is any order (`Cut`).
The worker runs all stages, a CLI process only one of the two index functions. What
`Enrich` writes is read by neither of them and left out; it is a stage that may raise.
A transcript may have no segments; then L2 stores no chunk and still raises the
level. `StoreTranscript` may replace a transcript at any time (`ON CONFLICT DO UPDATE`),
as two briefings that overlap do when both have found the video 'pending'; a process
goes on with the segments it has selected, so `bare` keeps which rows came without any.

`IndexPromise` knows no processes, selections or batches: some videos get their
summary chunk, or their transcript chunks, in one step with the level that says
so, and nothing is taken back. `PromiseKept` maps `silenced`, the videos that have ever
had a transcript without segments, to `silent`, the rest by name: these alone may reach
level 2 without a chunk. They may do so for good: one that was indexed from an empty
transcript stays as it is when an overlapping fetch stores segments afterwards. The
promise holds because of the guards of the two UPDATE statements: without
`indexed_level < 1` in `index_l1`'s, a late batch would take a level back.

### Briefing

`i` walks through `cand`, the loop variable of the two loops of
`build_briefing` and `summarize_videos`. Scores are abstracted: any order of the
fresh videos may come out of `rank_candidates`. `status` is `transcript_status`, `texts`
says whose row of `transcripts` has text; the two are written by separate statements and
only an 'ok' writes both, so that a later 'failed' leaves a transcript that nobody reads
any more. `Prompt` is the choice of `summarize.py` 85. `calls`, `fetches`, `blind` (whose
request was put together without a transcript) and `peak` are history.

### Categories

One action per statement group that commits. The model's answer is any set of
category ids, existing or not, since the code normalizes and does not trust
`is_new`. `Import` adds the channels of a Takeout file, `ON CONFLICT DO NOTHING`.
`chosen` and `settled` are history: the user's latest choice, and how many paid
answers put a channel into a category.

### Store and Memory

`pc` follows a connection through `get_connection`: `_heal_stale_fts_schema`
(the check, then four DROP statements), `SCHEMA_SQL`, the count and the INSERT of
`_backfill_fts_if_needed`, and the work of whoever opened it. `executescript`
commits statement by statement, so each statement is an action; the plain tables
of the schema are created by `IF NOT EXISTS` and never dropped, and are left out.
Of the texts only this is kept: whether an entry of `videos_fts` is `behind` its
row. `dropped` and `peak` are history: a table dropped on the strength of an old check,
and the most connections that were open at one time. `init_db` loses two races (below):
`EveryVideoFound` holds up to the first, and `FoundOnce` bounds the second.

`Memory` runs the MCP server's `remember`, `forget` and `recall` on connections
of `Store`; a recall is two actions, the SELECT and the UPDATE, and the
connection may close between them.

### ContentScript

`pc` follows a run of `handleNavigation` through its awaits: `load` (the requests
are on their way), `answered`, `bar` (`waitFor` the header), `grid` (`waitFor`
the grid). What stands between two awaits is one action: from the tab bar to the
badges and the wait for the grid is `Inject`. The callback of the
MutationObserver runs to completion after a change of the grid, so it is part of
`AddCard` and `RemoveCard`. Answers of overlapping runs and clicks come in any
order. `waitFor` may give up at any time. `late` is history.

### SidePanel

`phase` is where `sendMessage` is; `sending` is `phase # "idle"`. `screen` holds the
elements under `#messages` that show an event, each with the numbers of its events;
`bubble` is `currentAssistantEl`, which a reset detaches from the page without setting
it to null. The page dies with `Close`; what was posted may still arrive. The server is
the stream of ChatApproval as the panel sees it: events, and for each thread the
approval it is stopped at. `Accept` is what every stream begins with; `Serve` goes on
with the thread, `Refuse` ends at once because of the cost limit. `received`, `torn`,
`fresh` and `spoiled` are history.

### Retrieval, Feed and Algorithms

In Algorithms a tool result may be "cut" to a summary, and "recut" if a summary is
summarized again: what the look at the marker in `compact_node` is there for. `Excerpt`,
`Compacted` and `Bill` translate `get_transcript_excerpt`,
`compact_node` and the token split of `stream_chat` together with
`compute_cost_usd`; `Semantic`, `Fused`, `Hybrid` and `Reranked` the searches,
`Evaluate` and `Searches` their evaluation. A behaviour calls one function once.
`chunk_transcript` alone takes a step per turn of its loop (`NextChunk`: the end of
the chunk, `ChunkEnd`, then where the next one starts, `NextStart`), since each turn
starts from the last one's result. Texts are their token counts, messages their kind,
similarities integers, prices twentieths of the input price; a chunk is its video and
its similarity. The fusion's scores 1 / (k + rank) and their sums are kept as
fractions and compared by cross multiplication. A stable sort is the places of a list
in an order (`Ordered`, `SortedDown`): first by key, then by place. `rerank` has no
caller in the server, only in the evaluation. `Feed` builds the joins of the four
queries as sets of tuples, with `Null` where a LEFT JOIN finds nothing.

## 3. Runs

| Run | Shows | Bounds |
|---|---|---|
| `chat_restart` | one stream at a time, deaths outside two windows: the thread implements the gate (`GateSpec`), only allowed calls run, each once; one dialog per call; streams end | 3 chats, 2 messages of 2 ask calls, 3 answers, 2 deaths |
| `chat_panels` | two streams, deaths anywhere, answers changed: nothing runs without some "allow"; decisions wake | 2 chats, 1 message of 1 call, 2 answers, 1 death |
| `chat_stale` | **violation**: a death between the saved interrupt and its row lets an old decision answer a new call | 3 chats, 2 messages |
| `chat_wedged` | **violation**: a failed model call leaves a thread that is taken for one waiting for approval | 2 chats |
| `subagent` | results answer the ids in order, a batch returns, recorded, lost and outstanding spending stay below limit plus slack | 2 workers, requests of up to 3 ids out of 2 videos, a chat, 1 lost run or unpriced call |
| `index` | the abstract index is implemented, levels are backed by chunks, everything is indexed | 2 videos, limit 1, batch 1, 1 abort, worker and CLI, transcripts overwritten at any time |
| `briefing` | cached implies summarized, repeated payment only by overlap or failure, no payment before the transcript was asked for, none without a stored transcript unless it was fetched twice | 2 videos, 2 candidates, 1 pick, 2 requests, 1 failure, 1 midnight |
| `categories` | the user's choice stays, automatic rows are up for review, no later run pays for a channel again | 2 channels, 2 categories, 3 runs of 2 processes, 1 abort, any imports |
| `memory` | every video is found, once, by whoever works; every recall is counted | 2 connections (reused), 3 videos of which 1 may be older, 2 memories, 2 recalls; new, old, broken and current databases |
| `content` | one badge per card, cards under observation have theirs, nothing is hidden that the list allows | 2 videos, 2 categories, 2 runs, 2 clicks, 3 changes of the grid |
| `panel` | events stand in order and none is missing; a conversation keeps its thread; a message ends or waits for a dialog that is there | 3 messages, 4 events (plus repeated questions), 2 approvals, 2 resets, closings or failures |
| `algorithms` | coverage and overlap of chunks; reading on from a hit misses and repeats nothing; compaction keeps recent results; common hits come first; the best chunk stands for its video; an item's labels are true; a reranking keeps its candidates; the evaluation counts what was found; four queries agree; tokens billed once | 5 segments of up to 3 tokens and 5 seconds, 7 messages, 4 videos with pool 3 and k 2, 3 chunks (2 where the evaluation combines them with all hits), 2 results, 2 relevant videos; 3 videos, 2 channels, 2 categories |

Why the bounds are enough. In ChatApproval two ask calls per message are needed for
replayed answers, two messages for a stale decision, three chats for a death, a
re-attach and one more, two deaths for a death during recovery. In VideoIndex a limit
and a batch below the number of videos make a cycle leave work behind, and one worker
with one CLI process overlap in every stage. In Briefing two requests overlap or follow
each other, with one pick fewer than candidates. In SubAgent two workers suffice for any
order of two results, with an id asked for twice, an unknown one and one cut off. In
ContentScript two runs and two clicks overlap or follow each other, and three changes
let a card come, go and come back. In SidePanel a message can be interrupted, asked
again, and interrupted once more. In Algorithms five segments give up to five chunks,
and k is just above pool - 2, as 60 is above 28: the case in which `BothBeatOne` is
tightest. In Memory a connection that opens, heals or fills meets another in every step
of its own, three videos are an old one, one written before and one written during the
other's start, and a recall is overtaken by a recall or a forget. In Categories three
runs of two processes overlap and follow each other. Most type invariants are proved and
not checked again by the runs. Deadlock is not checked: the bounded actions end, and an
idle system may stay idle.

### What the violations say

* `chat_stale`: `streaming.py` 195-212 resumes a stopped graph with the latest
  decided row of the thread, on the assumption (comment at 210) that the graph
  has not been told yet. If the stream died after the checkpoint and before
  `create_pending` (304), that row belongs to the previous call. The same happens
  without a death when two streams run on one thread.
* `chat_wedged`: `graph_state.next` is not empty after a node has raised, either;
  the thread then answers with the error of line 199 for ever, or swallows the
  user's message.

Seen while modelling and not given a run: `summarize_video` reads `summarized_at` before
the LLM call and writes it after, so two overlapping requests pay twice (`summarize.py`
3 promises once; `CallsBounded` allows for it); two overlapping requests that find a
transcript 'pending' (`ranking.py` 207) both fetch it, and if one stores it and the
other then fails, or finds nothing, the later status stands over the stored transcript
(`transcript.py` 109): `summarize.py` 85 looks at the status only and makes the one
summary the video ever gets from its title and description (`summarize.py` 3: from the
transcript, if there is one; `TranscriptFirst` confines it to videos that were fetched
more than once); `categorize_channel` reads the lock before the LLM call and not after
it, so a channel locked meanwhile gets automatic rows (`categorize.py` 9 promises that
it is never touched); a reset of the side panel under a stream removes the dialog the
stream waits for, while `sending` stays true (`SendEnds` has to except it), and a
`run_started` that comes after the reset brings the old thread back although line 223
announces a new conversation; a decision that fails to arrive cannot be sent again, its
buttons are hidden; two runs of the content script can insert two tab bars; answers of
two clicks that come in the other order leave the filter of one tab under the other;
`resolve` overwrites a decided row although `routes_agent.py` 63 speaks of one already
processed; a channel for which the model names no category is selected and paid for by
each later run of `categorize_all_pending` (against its comment at 151); a video indexed
at level 2 from an empty transcript gets no chunks when an overlapping fetch replaces it
by one with segments (`transcript.py` 103, `indexer.py` 111); `cost.py` 31 wants unknown
models to raise while `streaming.py` 258 turns them into cost 0; watched videos without
a transcript are reported as queued for the index (`videos.py` 124) but nothing fetches
their transcript; a summary chunk made from the description is not refreshed when the
summary comes; an enrich step that always raises keeps each cycle from indexing;
`index_l2` raises level 0 to 2 and `index_l1` then passes over the video, which never
gets its summary chunk (`chunker.py` 3 and `cli.py` 87 expect one for each); a
connection that has found the keyword index missing or stale drops it after another one
has rebuilt it, and if a video is written before its own backfill counts, the older
videos are out of the keyword search for good (`db.py` 234); two connections that fill
an empty index at the same time enter each video twice until its next update (`db.py`
215); a preference beyond the 20th drops out of the prompt although `memory.py` 3 says
that all are always there; badges and tabs count shorts, which the feed hides by
default; the `search_videos` tool reports state "new" and no categories for every hit
(`tools_local.py` 66); the popup paints a briefing that arrives after a search over the
search's results (`popup.ts` 98-148); two first starts at the same time may each create
a token, and one keeps using the one that was overwritten (`config.py` 79).

## 4. Fairness

`ChatApproval!FairSpec` is weakly fair to what the server does by itself for a
stream: the event loop runs every ready coroutine and the poll of the table never
stops. Users, request threads and deaths are not fair. `VideoIndex!FairSpec` is
weakly fair to the worker's scheduler (an interval job that starts cycle after
cycle) and stages; the CLI is not fair, and aborts are bounded because a stage
that raises every time does block the later ones. `SubAgent!SubFairSpec` is weakly
fair to each worker, whose LLM call returns or raises (the Anthropic client has
a timeout), and to the supervisor's loop. `SidePanel!FairSpec` is weakly fair to
the panel's event loop, the server and a request under way; the user need not do
anything, which is why `SendEnds` ends with a dialog that can be answered. The
other specifications state safety only.

## 5. Proofs

All theorems hold for every value of the constants that satisfies the named
assumptions of the modules (`BoundsAssumption`, `CostAssumption`, for SubAgent
`SubAgentAssumption` as well, and so on). They say little: bounds are naturals, sets
of rows are finite, `Null` is no row; `RetrievalAssumption` also says that the
fusion's k is larger than its pool - 2, which 60 and 30 satisfy and `BothBeforeOne`
needs. Every safety property that a passing run checks is the property of a theorem,
for the chat under the conditions named there.

* `TypeCorrect`: `TypeOK` of ChatApproval is inductive together with the fact that
  an interrupted stream has an ask call left to ask about (`Typed`).
* `DeniedByDefault`: as long as no verdict is "allow", no row, wake-up, future,
  stream input, checkpoint or copy of the graph contains an "allow" or a kept
  call (`AllowsAreTraced`). No condition: any number of streams, deaths anywhere,
  changed answers.
* `OnlyAllowed`: with at most one stream (`OneStream`) and no death at approve or
  before its row (`SafeCuts`), only allowed calls run. `OnlyAllowedCallsRun` is
  not inductive: a state may be about to resume with a decision about another
  call. The invariant `Backed` adds that decided rows and wake-ups are the user's
  verdicts, that answers and kept calls of the checkpoint are allowed, that a
  running stream works on the checkpoint, that the latest row is about the call
  the checkpoint waits for unless a stream is about to ask, that a waiting stream
  waits for that row, and that a resume value is a verdict on that call.
  Both conditions are needed (see the violations). The theorem covers changed
  answers (`Reanswer`), which `chat_restart` leaves out for the refinement.
* `RunOnce`: `NotYetRun` adds that no call still to be asked about or to be run has
  run, except while a stream stands between the effects of tools and their
  checkpoint, and that new calls have new numbers. The one condition besides
  `OneStream` is that no stream dies in that window; deaths at approve or before a
  row, which `chat_restart` leaves out for the gate, are covered.
* `AskOnce`: `DialogsAreNew` adds that no row is about an ask call whose dialog is
  still to come: one past the awaited call, or the awaited call itself while a
  stream runs without a decision. `OneStream` is its only condition.
* `ImplementsGate`: `VerdictsInRows` keeps every verdict in a row of its call, so
  that with one row for each call (`DialogsAreNew`) and no changed answers `Resolve`
  is `Answer` of a call without a verdict; `Backed` makes `RunTools` a `RunCalls`
  or a stutter, and all other steps are stutters.
* `TypingHolds`, `Bounded`: in CostLedger the strengthening says that lost money
  is at most `losses * MaxRun` and that each runner past the check has reserved
  one `MaxRun`; `Check` is the only step that adds to the reserve and it finds
  the ledger below both limits.
* `BatchBounded`: each step of SubAgent is a step of CostLedger or a stutter (lemma
  `KeepsLedger`), so `Bounded` carries over by temporal reasoning alone.
* `EachAnswers`, `BatchTyped`: `BatchInv` adds that the future of a worker that is
  done tells the truth about its own id, and that the supervisor's list holds only
  such futures, each at its place; `WorkersInv` that a worker's stage, future and
  place in the ledger agree.
* `LevelsAreBacked`, `KeepsPromise`, `IndexTypes`: `IndexInv` adds to the property
  that rows a process holds without segments are among those that have had an empty
  transcript (`BareSilenced`): rows are read long before they are written, and neither
  the steps of other processes nor a transcript that is overwritten meanwhile may break
  that, which is why `silenced` remembers. On it the refinement maps
  `L1Batch`, `L2Batch` and `StoreTranscript` to steps of IndexPromise and all
  others to stutters.
* `ChoiceStays`, `AutoReviewed`, `TablesTyped`: inductive together. `NeverPaidAgain`
  counts: once a channel has a category, the answers so far and the processes that
  still have it in hand are no more than the processes (`Settles`), since no one
  selects it again.
* `EveryVideoIsFound`, `NoneFoundTwice`, `StoreTyped`: `StoreInv` says, as long as
  nothing was dropped on a stale check (`Whole`), what each step of `init_db` may
  rely on (a connection past the schema has table and triggers), and that the
  index holds all videos or none: it is why "any row" may stand for "filled".
  `NoneFoundTwice` counts as well (`FillInv`): the entries of a video and the connections
  that have counted and not yet filled are together no more than one, or than connections
  have been open at one time. The lemma `ToolsKeepStore` carries all of it over to Memory.
  `UsesAreCounted`, `MemoryTyped`: inductive with the fact that an id not given out yet
  has not been used.
* `KeptIsSummarized`, `TranscriptsComeFirst`, `BriefingTyped`: `ShownInv` adds what the
  two loops have done up to `i`, and `FetchInv` that a video that is no longer 'pending'
  has had, with those still on their way, no more fetches than requests have been under
  way together, since nobody begins another. `CallsAreBounded` needs `PaidInv`: a video without
  a summary has had no more calls than there are requests about to store one, plus
  failures; one with a summary has calls left only for requests in their call.
* `CardsBadgedOnce`, `LateCardsAreBadged`, `FilterIsHonest`, `PageTyped`: their
  conjunction is inductive.
* `PanelTypesHold`, `EventsStandInOrder`, `ConversationsContinue`: PanelTypeOK says where
  an open bubble is (last on the screen, or off the page after a reset) and when a
  stream exists; with it the order is inductive, because an event either goes to the
  last element or begins a new one.
* `ChunksCoverTranscript`: ChunksCover is the invariant of the loop and is inductive with
  the types of its data (`ChunkTypes`). A turn adds a chunk that is a `Piece` and a
  `Joint` with the one before: `ChunkEnd` is a least number and `NextStart` a greatest,
  and a start one segment later repeats too little (`NextStartIs`). The
  token sums stay uninterpreted: the argument needs none of their properties.
* `ReadingOnTiles`: the page of a segment is the quotient of its distance from the start
  by the window (`PageIs`), so that windows meet without a gap and do not overlap.
* `CompactionKeeps`: after the m-th of n tool results come n - m (`PlacesBehind`, by a
  bijection), so the results that are shortened are the first n - KeepRecent; one that has been cut
  before stays as it is (`Marked`).
* `BestChunkShown`, `ItemsTellTruth`, `RerankingKeeps`, `BothBeforeOne`,
  `RecallIsHonest`: all rest on `OrderedIs`. The place of an element in an order is
  the number of elements before it; this is an injection of a finite set into its
  size, so a bijection, and the list that `Ordered` builds is a permutation that
  respects the order. From it follow what filtering (`AtIs`), cutting (`FirstOfIs`)
  and stable sorting (`SortedDownIs`) do to a list, and then each search, step by step
  in the order of the code (`SeenIs`, `LikeliestIs`, `KeptIs`, `FusedIs`, `HybridIs`,
  `RerankedIs`). `TwoOutweighOne` is the arithmetic of the fusion: two ranks of at
  most the pool's size sum to more than any one. `Evaluated` compares a list cut at k
  with the same list cut at k + 1.
* `QueriesAgree`: the videos that each query's joins count are those of the feed, shown by
  two inclusions (`BadgeOf`, `TabOf`, `StatsOf`). `TokensBilledOnce` is arithmetic.

Only model-checked: the liveness properties `StreamFinishes`, `DecidedWakes`,
`BatchReturns`, `EverythingIndexed` and `SendEnds`, since fairness and ENABLED are out of
the prover's reach. Induction over data through the library's theorems is out of its
reach too; the algorithms need none, because their operators are not recursive
and a least element, where an argument needs one, comes from `LeastNat`, which rests on the
well-founded order of finite sets.

## 6. Abstractions

Not modelled in the modelled parts: event texts, traces, scores, embeddings and
texts; SQLite's busy timeout (a locked database is one of the exceptions of
`Cut`, `Fail`, `Abort` and `Lose`); LangGraph's step limit (bounded messages);
retries inside the Anthropic client. A chat refused by the cost limit changes
nothing in ChatApproval, is the blocked `Check` of CostLedger and `Refuse` in
SidePanel. SidePanel's server always has the row of the approval it is stopped at: the
stream that ends with the error of `streaming.py` 197-201 is in ChatApproval
(`RecordNotFound`) and left out there. In ContentScript a card is its video and the grid
grows and shrinks card by card: that YouTube gives a card's element to another video, or
replaces the whole grid under the observer, is left out, and so is what the badge and the
filter of such an element would say.

Not modelled: the popup and the background script (each answer is painted over
the whole section when it comes; nothing is kept), the prompt-injection envelope
(string escaping), configuration, tracing and application start (file input and
output, wiring), the embedder (a neural model: Retrieval takes any similarities),
`active_preferences_text`, `list_channels` and the reading tools of the MCP server
(single queries), the token form and the health banner of the side panel.

## 7. Plan

1. SidePanel composed with ChatApproval in place of its reduced server, so that
   panels of two windows share a thread; that the reduced server is what ChatApproval
   does for one panel.
2. An abstract specification of the briefing (a day has at most one, of summarized
   videos) and of the panel (a conversation), with their refinements.
3. The popup: requests that answer in any order over one section of the page.
