------------------------------ MODULE SidePanel ------------------------------
(***************************************************************************)
(* The side panel of the extension (sidepanel.ts) and its stream reader    *)
(* (streamChat in api.ts) against the server's chat stream.  The panel     *)
(* awaits between events; meanwhile the user answers dialogs, resets the   *)
(* conversation or closes the panel, which keeps only chrome.storage.      *)
(* The server is reduced to the events it sends and the approval each      *)
(* thread is stopped at (module ChatApproval has the rest).                *)
(***************************************************************************)
EXTENDS Naturals, Sequences, SequencesExt

CONSTANTS MaxSends, MaxEvents, MaxAsks, MaxTroubles   \* bounds

ASSUME PanelAssumption == {MaxSends, MaxEvents, MaxAsks, MaxTroubles} \subseteq Nat

VARIABLES
    open,      \* the panel is open
    phase,     \* of sendMessage: idle (sending is false), read, connect, stream
    stored,    \* the thread id in chrome.storage, or 0
    asked,     \* the thread id that getThreadId returned
    screen,    \* the elements of messages that show an event, in DOM order
    bubble,    \* currentAssistantEl: its place on the screen, None, or Detached
    wire,      \* the events sent and not yet read
    server,    \* the chat stream's end at the server
    stopped,   \* the approval a thread's graph is stopped at, or 0
    verdicts,  \* the decision of each approval
    posts,     \* decisions on their way to the server
    threads,   \* number of threads; a thread is its number
    events,    \* number of events that show something; such an event is its number
    counts,    \* counts what is bounded: sends and troubles
    received,  \* history: the events read since the screen was last emptied
    torn,      \* history: the screen was last emptied under a stream
    fresh,     \* history: resets, and streams that ended before naming their thread
    spoiled    \* history: the dialog or the decision a stream needs is lost

messages == <<screen, bubble, received, torn>>
remote == <<wire, server, stopped, verdicts, threads, events>>
panelVars == <<open, phase, stored, asked, messages, remote, posts, counts, fresh, spoiled>>

None == 0
LastEvent == MaxEvents + MaxSends   \* a request that asks again sends one event more
Detached == LastEvent + 1

Off == [at |-> "none", thread |-> 0, approval |-> 0]
Event(kind, of, number) == [kind |-> kind, of |-> of, number |-> number]
Element(e) == [shows |-> <<e.number>>, approval |-> e.of, answered |-> FALSE]
Trouble == counts.troubles < MaxTroubles /\ counts' = [counts EXCEPT !.troubles = @ + 1]

PanelInit ==
    /\ open = TRUE /\ phase = "idle" /\ stored = 0 /\ asked = 0
    /\ screen = <<>> /\ bubble = None
    /\ wire = <<>> /\ server = Off /\ stopped = [t \in 1..MaxSends |-> 0]
    /\ verdicts = <<>> /\ posts = {}
    /\ threads = 0 /\ events = 0 /\ counts = [sends |-> 0, troubles |-> 0]
    /\ received = {} /\ torn = FALSE /\ fresh = 0 /\ spoiled = FALSE

-----------------------------------------------------------------------------
(* sendMessage *)

Send ==
    /\ open /\ phase = "idle"
    /\ counts.sends < MaxSends /\ counts' = [counts EXCEPT !.sends = @ + 1]
    /\ phase' = "read"
    /\ bubble' = None
    /\ spoiled' = FALSE
    /\ UNCHANGED <<open, stored, asked, screen, received, torn, remote, posts, fresh>>

\* await getThreadId()
ReadThread ==
    /\ phase = "read"
    /\ asked' = stored
    /\ phase' = "connect"
    /\ UNCHANGED <<open, stored, messages, remote, posts, counts, fresh, spoiled>>

\* The stream is over, or was never opened: catch and finally of sendMessage. With it
\* goes the run_started of a new thread, if it has not been read.
Over ==
    /\ phase' = "idle"
    /\ wire' = <<>> /\ server' = Off
    /\ fresh' = IF asked = 0 /\ \E e \in Range(wire) : e.kind = "run_started"
                THEN fresh + 1 ELSE fresh
    /\ UNCHANGED <<stopped, verdicts, threads, events>>

Fails ==
    /\ phase \in {"connect", "stream"}
    /\ Trouble
    /\ Over
    /\ UNCHANGED <<open, stored, asked, messages, posts, spoiled>>

StreamEnds ==
    /\ phase = "stream" /\ server.at = "ended" /\ wire = <<>>
    /\ Over
    /\ UNCHANGED <<open, stored, asked, messages, posts, counts, spoiled>>

\* onText: into the open bubble, wherever that is, or into a new one.
OnText(e) ==
    CASE bubble = None -> screen' = Append(screen, Element(e)) /\ bubble' = Len(screen')
      [] bubble = Detached -> UNCHANGED <<screen, bubble>>
      [] OTHER -> /\ screen' = [screen EXCEPT ![bubble].shows = Append(@, e.number)]
                  /\ UNCHANGED bubble

\* Mutants: the bubble stays open below the note, or the dialog.
OnToolCallBelow(e) == screen' = Append(screen, Element(e)) /\ UNCHANGED bubble
OnApprovalRequiredBelow(e) == screen' = Append(screen, Element(e)) /\ UNCHANGED bubble

\* onToolCall, onApprovalRequired: a note, a dialog; either closes the bubble.
OnToolCall(e) == screen' = Append(screen, Element(e)) /\ bubble' = None
OnApprovalRequired(e) == screen' = Append(screen, Element(e)) /\ bubble' = None

\* Mutant: run_started is not looked at.
ThreadIdIgnored(e) == stored
ThreadId(e) == IF e.kind = "run_started" THEN e.of ELSE stored

\* handleEvent; tool_result and run_end show nothing and are left out.
HandleEvent(e) ==
    /\ stored' = ThreadId(e)
    /\ IF e.kind = "run_started" THEN UNCHANGED messages ELSE
       /\ CASE e.kind = "text" -> OnText(e)
            [] e.kind = "tool_call" -> OnToolCall(e)
            [] e.kind = "approval_required" -> OnApprovalRequired(e)
       /\ received' = received \cup {e.number}
       /\ UNCHANGED torn

Read ==
    /\ phase = "stream" /\ wire # <<>>
    /\ HandleEvent(Head(wire))
    /\ wire' = Tail(wire)
    /\ UNCHANGED <<open, phase, asked, server, stopped, verdicts, threads, events, posts, counts, fresh, spoiled>>

-----------------------------------------------------------------------------
(* The user *)

Decision(n, d) == [approval |-> screen[n].approval, decision |-> d]

\* Mutant: a call that is not allowed needs no answer.
SentIfAllowed(n, d) == IF d = "allow" THEN {Decision(n, d)} ELSE {}
Sent(n, d) == {Decision(n, d)}

\* respond: the buttons go before the decision is sent.
Respond(n, d) ==
    /\ open /\ n \in DOMAIN screen
    /\ screen[n].approval # 0 /\ ~screen[n].answered
    /\ screen' = [screen EXCEPT ![n].answered = TRUE]
    /\ posts' = posts \cup Sent(n, d)
    /\ UNCHANGED <<open, phase, stored, asked, bubble, received, torn, remote, counts, fresh, spoiled>>

Needed(approval) == server.at = "wait" /\ server.approval = approval

\* Everything on the screen goes, also what a stream still writes to.
Empty ==
    /\ screen' = <<>> /\ received' = {}
    /\ spoiled' = (spoiled \/ \E n \in DOMAIN screen :
                        ~screen[n].answered /\ Needed(screen[n].approval))

\* The reset button: it is usable while a message is under way.
Reset ==
    /\ open /\ Trouble
    /\ stored' = 0
    /\ Empty
    /\ bubble' = IF phase # "idle" /\ bubble # None THEN Detached ELSE None
    /\ torn' = (phase # "idle")
    /\ fresh' = fresh + 1
    /\ UNCHANGED <<open, phase, asked, remote, posts>>

\* The page is gone and the connection with it; what has been posted may arrive.
Close ==
    /\ open /\ Trouble
    /\ open' = FALSE
    /\ Empty /\ bubble' = None /\ torn' = FALSE
    /\ Over
    /\ UNCHANGED <<stored, asked, posts>>

Open ==
    /\ ~open /\ open' = TRUE
    /\ UNCHANGED <<phase, stored, asked, messages, remote, posts, counts, fresh, spoiled>>

-----------------------------------------------------------------------------
(* The server *)

\* POST /agent/chat: without a thread id a new thread, which the first event names;
\* the stream may have another to send at once.
Accept(t, more, at, approval) ==
    /\ phase = "connect" /\ phase' = "stream"
    /\ t = (IF asked = 0 THEN threads + 1 ELSE asked)
    /\ threads' = IF asked = 0 THEN t ELSE threads
    /\ events' = events + Len(more)
    /\ wire' = <<Event("run_started", t, 0)>> \o more
    /\ server' = [at |-> at, thread |-> t, approval |-> approval]
    /\ UNCHANGED <<open, stored, asked, messages, stopped, verdicts, posts, counts, fresh, spoiled>>

\* A thread that is stopped at an undecided approval asks again.
Serve ==
    \E t \in 1..MaxSends :
       LET a == stopped[t]
           again == a # 0 /\ verdicts[a] = "none"
       IN  Accept(t, IF again THEN <<Event("approval_required", a, events + 1)>> ELSE <<>>,
                  IF a = 0 THEN "run" ELSE "wait", a)

\* The cost limit is exceeded: the stream says so and ends; the thread stays as it was.
Refuse ==
    \E t \in 1..MaxSends : Accept(t, <<Event("text", 0, events + 1)>>, "ended", 0)

Emit(kind, of) ==
    /\ events < MaxEvents /\ events' = events + 1
    /\ wire' = Append(wire, Event(kind, of, events'))

Tell ==
    /\ server.at = "run"
    /\ \E kind \in {"text", "tool_call"} : Emit(kind, 0)
    /\ UNCHANGED <<open, phase, stored, asked, messages, server, stopped, verdicts, threads, posts, counts, fresh, spoiled>>

Ask ==
    /\ server.at = "run" /\ Len(verdicts) < MaxAsks
    /\ verdicts' = Append(verdicts, "none")
    /\ Emit("approval_required", Len(verdicts'))
    /\ stopped' = [stopped EXCEPT ![server.thread] = Len(verdicts')]
    /\ server' = [server EXCEPT !.at = "wait", !.approval = Len(verdicts')]
    /\ UNCHANGED <<open, phase, stored, asked, messages, threads, posts, counts, fresh, spoiled>>

Resume ==
    /\ server.at = "wait" /\ verdicts[server.approval] # "none"
    /\ stopped' = [stopped EXCEPT ![server.thread] = 0]
    /\ server' = [server EXCEPT !.at = "run", !.approval = 0]
    /\ UNCHANGED <<open, phase, stored, asked, messages, wire, verdicts, threads, events, posts, counts, fresh, spoiled>>

Finish ==
    /\ server.at = "run"
    /\ server' = [server EXCEPT !.at = "ended"]
    /\ UNCHANGED <<open, phase, stored, asked, messages, wire, stopped, verdicts, threads, events, posts, counts, fresh, spoiled>>

\* POST /agent/approve: resolve overwrites whatever is there.
Arrives(p) ==
    /\ posts' = posts \ {p}
    /\ verdicts' = [verdicts EXCEPT ![p.approval] = p.decision]
    /\ UNCHANGED <<open, phase, stored, asked, messages, wire, server, stopped, threads, events, counts, fresh, spoiled>>

\* The post fails: the dialog says so, and its buttons are gone.
Lost(p) ==
    /\ Trouble
    /\ posts' = posts \ {p}
    /\ spoiled' = (spoiled \/ Needed(p.approval))
    /\ UNCHANGED <<open, phase, stored, asked, messages, remote, fresh>>

-----------------------------------------------------------------------------
Panel == ReadThread \/ Read \/ StreamEnds
Server == Serve \/ Refuse \/ Tell \/ Ask \/ Resume \/ Finish
PanelNext ==
    \/ Panel \/ Server
    \/ Send \/ Fails \/ Reset \/ Close \/ Open
    \/ \E n \in 1..LastEvent, d \in {"allow", "deny"} : Respond(n, d)
    \/ \E p \in posts : Arrives(p) \/ Lost(p)

PanelSpec == PanelInit /\ [][PanelNext]_panelVars

\* The event loops of panel and server go on, and a post that is under way arrives
\* or fails.  The user need not do anything.
FairSpec ==
    /\ PanelSpec
    /\ WF_panelVars(Panel) /\ WF_panelVars(Server)
    /\ WF_panelVars(\E p \in posts : Arrives(p) \/ Lost(p))

-----------------------------------------------------------------------------
\* Types; a bubble that is open and on the screen is the last element there.
PanelTypeOK ==
    /\ open \in BOOLEAN /\ phase \in {"idle", "read", "connect", "stream"}
    /\ ~open => phase = "idle" /\ screen = <<>>
    /\ stored \in 0..threads /\ asked \in 0..threads /\ threads <= MaxSends
    /\ \A n \in DOMAIN screen : screen[n].approval \in 0..Len(verdicts)
    /\ bubble \in {None, Len(screen), Detached}
    /\ server.at \in {"none", "run", "wait", "ended"}
    /\ server.at # "none" <=> phase = "stream"
    /\ server.at = "wait" <=> server.approval # 0
    /\ \A t \in DOMAIN stopped : stopped[t] \in 0..Len(verdicts)
    /\ \A p \in posts : p.approval \in DOMAIN verdicts
    /\ received \subseteq 1..events /\ torn \in BOOLEAN /\ spoiled \in BOOLEAN

\* "DOM 삽입 순서가 곧 이벤트 순서" (sidepanel.ts 104): texts, notes and dialogs stand in
\* the order of their events, and none is missing unless the screen was emptied
\* while a message was under way (its open bubble then takes texts along).
ShownInOrder ==
    LET shown == UNION {Range(screen[n].shows) : n \in DOMAIN screen}
    IN  /\ \A m, n \in DOMAIN screen : \A i \in DOMAIN screen[m].shows, j \in DOMAIN screen[n].shows :
              m < n \/ (m = n /\ i < j) => screen[m].shows[i] < screen[n].shows[j]
        /\ shown \subseteq received
        /\ ~torn => shown = received

\* A conversation goes on in its thread, also after the panel was closed: a new one
\* is begun only after a reset, or where the stream that began the old one was lost
\* before it could name it.
ConversationContinues == threads <= 1 + fresh

\* The panel is not locked for ever: a message ends, unless it waits for the user
\* at a dialog that is there to be answered - or that dialog was reset away, or its
\* decision failed to arrive.
SendEnds ==
    phase # "idle" ~>
       \/ phase = "idle" \/ spoiled
       \/ \E n \in DOMAIN screen : ~screen[n].answered /\ Needed(screen[n].approval)
=============================================================================
