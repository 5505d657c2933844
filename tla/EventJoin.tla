------------------------------ MODULE EventJoin -------------------------------
(***************************************************************************)
(* How the web page joins a session and follows it: the four answers it    *)
(* loads (refreshSession), the event stream with its cursor and reconnects *)
(* (openEventStream), the handler of the events (handleAgentEvent), the    *)
(* pacing of text (StreamSmoother) and the reducers that turn events into  *)
(* messages (events.ts, tool-events.ts).                                   *)
(*                                                                         *)
(* The server appends to a log.  Durable events are replayed after a       *)
(* reconnect, transient ones (the start and progress of a tool call) reach *)
(* only the streams that are open.  What a step produced is committed to   *)
(* the stored messages when the step ends.                                 *)
(*                                                                         *)
(* Text is a sequence of chunks; a chunk is named by the position of its   *)
(* event in the log.  The messages are a sequence of items: a user message,*)
(* a run of text or reasoning, a tool call or a tool result.               *)
(***************************************************************************)
EXTENDS Naturals, Sequences, FiniteSets, SequencesExt

CONSTANTS
    Calls,      \* the indices of a step's tool calls
    MaxLog,     \* bound: events
    MaxTurns,   \* bound: turns
    MaxSteers,  \* bound: steering messages
    MaxDrops,   \* bound: connections lost
    None

\* What the constants are.
Assumptions ==
    /\ None \notin Calls
    /\ {MaxLog, MaxTurns, MaxSteers, MaxDrops} \subseteq Nat

VARIABLES
    log,        \* the events emitted so far
    committed,  \* the position up to which the stored messages go
    phase,      \* the server: "idle", "starting", "step"
    step,       \* the number of the step in its turn
    open,       \* the calls of this step: index -> "started", "ready", "done"
    queue,      \* steering messages waiting
    turns, steers, drops,
    load,       \* the answers of the load in progress, or None
    page,       \* what the page holds
    cursor,     \* lastEventId of the stream, None before there is a stream
    up, wire,   \* the connection, and the events on their way
    own,        \* the page waits for the answer of its own prompt
    base,       \* history: the position the page joined at
    torn,       \* history: messages were loaded that the stream brings again
    stale       \* history: the status was older than the cursor

serverVars == <<log, committed, phase, step, open, queue, turns, steers>>
streamVars == <<cursor, up, wire>>
history == <<base, torn, stale>>
vars == <<serverVars, drops, load, page, streamVars, own, history>>

(***************************************************************************)
(* Events.  "call" is the tool call's index in its step.                   *)
(***************************************************************************)
Channels == {"assistant_text", "reasoning"}
Transient == {"tool_call.started", "tool_execution.progress", "tool_execution.finished"}
ToolEvents == Transient \cup {"tool_call", "tool_result"}
Event(type, call, items, running) ==
    [type |-> type, at |-> Len(log) + 1, step |-> step, call |-> call,
     queue |-> items, running |-> running]
Plain(type) == Event(type, None, <<>>, FALSE)
IsDurable(e) == e.type \notin Transient

(***************************************************************************)
(* The reducers.                                                           *)
(***************************************************************************)
Item(kind, at, e, live) ==
    [kind |-> kind, at |-> at, step |-> e.step, call |-> e.call, status |-> None, live |-> live]

\* applyLiveEventToMessages, for a fragment of text: it goes to the last run
\* of its kind if that run is live.
AddText(items, kind, fragment) ==
    IF fragment = <<>> THEN items
    ELSE IF items # <<>> /\ Last(items).live /\ Last(items).kind = kind
    THEN ReplaceAt(items, Len(items), [Last(items) EXCEPT !.at = @ \o fragment])
    ELSE Append(items, [kind |-> kind, at |-> fragment, step |-> 0, call |-> None,
                        status |-> None, live |-> TRUE])

\* findToolCall, findToolResult: the latest one at the event's step and index,
\* no further back than the last user message.  (The fallbacks to ids and names
\* are for events without a position, which this server does not send.)
FindItem(items, kind, e) ==
    LET user == SelectLastInSeq(items, LAMBDA i : i.kind = "user") IN
    SelectLastInSubSeq(items, user + 1, Len(items),
                       LAMBDA i : i.kind = kind /\ i.step = e.step /\ i.call = e.call)

\* upsertToolCall, updateToolCallStatus, upsertToolResult
Upsert(items, kind, e, status) ==
    LET i == FindItem(items, kind, e) IN
    IF i = 0 THEN Append(items, [Item(kind, <<e.at>>, e, TRUE) EXCEPT !.status = status])
    ELSE ReplaceAt(items, i, [items[i] EXCEPT !.status = status])

\* applyToolLifecycleEvent
ApplyTool(items, e) ==
    CASE e.type = "tool_call.started" -> Upsert(items, "call", e, "streaming")
      [] e.type = "tool_call" -> Upsert(items, "call", e, "ready")
      [] e.type \in {"tool_execution.finished", "tool_result"} ->
            Upsert(Upsert(items, "call", e, "completed"), "result", e, "completed")
      [] OTHER -> items

\* The stored messages when the log was committed up to n.  Stored calls have
\* no position.
Stored(n) ==
    LET Apply(items, e) ==
            CASE e.type = "user_message" -> Append(items, Item("user", <<e.at>>, e, TRUE))
              [] e.type \in Channels -> AddText(items, e.type, <<e.at>>)
              [] e.type \in ToolEvents /\ IsDurable(e) -> ApplyTool(items, e)
              [] OTHER -> items
        items == FoldLeft(Apply, <<>>, SubSeq(log, 1, n))
    IN [i \in DOMAIN items |-> [items[i] EXCEPT !.live = FALSE, !.step = 0, !.call = None]]

(***************************************************************************)
(* The presentation: text is received into a buffer and revealed a little  *)
(* per frame.  "emitted" is what the smoother revealed last, "displayed"   *)
(* what its callback saw last.                                             *)
(***************************************************************************)
NewSmoother == [buffer |-> <<>>, revealed |-> 0, finished |-> FALSE, emitted |-> <<>>,
                displayed |-> <<>>]

\* emit, and the callback onReveal.
Reveal(p, ch, n) ==
    LET s == p.smoother[ch]
        full == SubSeq(s.buffer, 1, n)
        fragment == IF IsPrefix(s.displayed, full)
                    THEN SubSeq(full, Len(s.displayed) + 1, Len(full)) ELSE full
    IN IF full = s.emitted
       THEN [p EXCEPT !.smoother[ch].revealed = n]
       ELSE [p EXCEPT !.smoother[ch] = [s EXCEPT !.revealed = n, !.emitted = full,
                                                  !.displayed = full],
                      !.messages = AddText(@, ch, fragment)]

FlushChannel(p, ch) == Reveal(p, ch, Len(p.smoother[ch].buffer))

\* flushPresentation
FlushPresentation(p) ==
    IF ~p.presenting THEN p
    ELSE [FlushChannel(FlushChannel(p, "assistant_text"), "reasoning") EXCEPT !.channel = None]

\* finishPresentation
FinishPresentation(p) ==
    LET q == FlushPresentation(p) IN
    [q EXCEPT !.smoother = [ch \in Channels |->
                              [q.smoother[ch] EXCEPT !.finished = @ \/ q.presenting]],
              !.finished = TRUE]

\* discardPresentation
DiscardPresentation(p, flush) ==
    IF ~p.presenting THEN p
    ELSE [(IF flush THEN FlushPresentation(p) ELSE p) EXCEPT
            !.presenting = FALSE, !.channel = None, !.finished = FALSE]

\* startPresentation
StartPresentation(p) ==
    [DiscardPresentation(p, FALSE) EXCEPT
        !.smoother = [ch \in Channels |-> NewSmoother], !.presenting = TRUE, !.finished = FALSE]

\* StreamSmoother.push: a smoother that was finished starts again, and the
\* first chunk is revealed at once.
Pushed(p, ch, chunk) ==
    LET s == p.smoother[ch]
        r == IF s.finished
             THEN [s EXCEPT !.buffer = <<>>, !.revealed = 0, !.finished = FALSE, !.emitted = <<>>]
             ELSE s
        q == [p EXCEPT !.smoother[ch] = [r EXCEPT !.buffer = Append(@, chunk)]]
    IN IF r.revealed = 0 THEN Reveal(q, ch, 1) ELSE q

\* pushPresentationChunk
Push(p, ch, chunk) ==
    LET switched == IF p.channel \notin {None, ch} THEN FlushChannel(p, p.channel) ELSE p
        q == Pushed([switched EXCEPT !.channel = ch], ch, chunk)
    IN IF ~p.presenting THEN p ELSE IF p.finished THEN FlushChannel(q, ch) ELSE q

(***************************************************************************)
(* handleAgentEvent.                                                       *)
(***************************************************************************)
\* applyStatus
ApplyStatus(p, running) ==
    IF running THEN [p EXCEPT !.sending = TRUE]
    ELSE FinishPresentation([p EXCEPT !.sending = FALSE])

TurnStatus(p, e) ==
    LET fresh == IF e.running /\ p.finished
                 THEN StartPresentation(DiscardPresentation(p, TRUE)) ELSE p
        q == [fresh EXCEPT !.sending = e.running, !.queue = e.queue]
    IN IF e.running THEN q ELSE [FinishPresentation(q) EXCEPT !.delegated = {}]

\* removeSteeredQueueItem
UserMessage(p, e) ==
    [p EXCEPT !.messages = Append(@, Item("user", <<e.at>>, e, TRUE)),
              !.queue = IF e.queue = <<>> THEN @ ELSE RemoveFirst(@, Head(e.queue))]

\* Faulty: what is buffered is not shown before the tool call.
ToolLifecycleUnflushed(p, e) ==
    [p EXCEPT !.messages = ApplyTool(@, e)]

\* Buffered text is shown before a tool call is; settleDelegatedActivity.
ToolLifecycle(p, e) ==
    [FlushPresentation(p) EXCEPT
        !.messages = ApplyTool(@, e),
        !.delegated = IF e.type \in {"tool_result", "tool_execution.finished"}
                      THEN {d \in @ : d # <<e.step, e.call>>} ELSE @]

Handle(p, e) ==
    CASE e.type = "tool_execution.progress" ->
            [p EXCEPT !.delegated = @ \cup {<<e.step, e.call>>}]
      [] e.type = "turn_error" -> [DiscardPresentation(p, TRUE) EXCEPT !.delegated = {}]
      [] e.type \in Channels -> Push(p, e.type, e.at)
      [] e.type \in ToolEvents \ {"tool_execution.progress"} -> ToolLifecycle(p, e)
      [] e.type = "agent_status" -> ApplyStatus(p, e.running)
      [] e.type = "turn_status" -> TurnStatus(p, e)
      [] e.type = "steering_queue" -> [p EXCEPT !.queue = e.queue]
      [] e.type = "user_message" -> UserMessage(p, e)

(***************************************************************************)
(* The server.                                                             *)
(***************************************************************************)
\* The events are put on the streams that are open.
Emit(events) ==
    LET numbered == [i \in DOMAIN events |-> [events[i] EXCEPT !.at = Len(log) + i]] IN
    /\ Len(log) + Len(events) <= MaxLog
    /\ log' = log \o numbered
    /\ wire' = IF up THEN wire \o numbered ELSE wire

ClientUnchanged == UNCHANGED <<drops, load, page, cursor, up, own, history>>

\* streamChat, when the prompt is this page's: it waits for the answer.
StreamChat ==
    /\ own' \in {own, own \/ (page.sending = FALSE /\ cursor # None)}
    /\ page' = IF own' # own THEN [page EXCEPT !.sending = TRUE] ELSE page

Prompt ==
    /\ phase = "idle" /\ turns < MaxTurns
    /\ Emit(<<Plain("user_message")>>)
    /\ phase' = "starting" /\ step' = 1 /\ open' = [c \in Calls |-> "none"]
    /\ turns' = turns + 1
    /\ StreamChat
    /\ UNCHANGED <<committed, queue, steers, drops, load, cursor, up, history>>

Announce ==
    /\ phase = "starting"
    /\ Emit(<<Event("turn_status", None, queue, TRUE)>>)
    /\ phase' = "step"
    /\ UNCHANGED <<committed, step, open, queue, turns, steers>> /\ ClientUnchanged

EmitText ==
    /\ phase = "step"
    /\ \E ch \in Channels : Emit(<<Plain(ch)>>)
    /\ UNCHANGED <<committed, phase, step, open, queue, turns, steers>> /\ ClientUnchanged

\* _on_tool_lifecycle
EmitTool ==
    /\ phase = "step"
    /\ \E c \in Calls :
          \/ /\ open[c] = "none"
             /\ Emit(<<Event("tool_call.started", c, <<>>, TRUE)>>)
             /\ open' = [open EXCEPT ![c] = "started"]
          \/ /\ open[c] = "started"
             /\ Emit(<<Event("tool_call", c, <<>>, TRUE)>>)
             /\ open' = [open EXCEPT ![c] = "ready"]
          \/ /\ open[c] = "ready"
             /\ Emit(<<Event("tool_execution.progress", c, <<>>, TRUE)>>)
             /\ UNCHANGED open
          \/ /\ open[c] = "ready"
             /\ Emit(<<Event("tool_execution.finished", c, <<>>, TRUE),
                       Event("tool_result", c, <<>>, TRUE)>>)
             /\ open' = [open EXCEPT ![c] = "done"]
    /\ UNCHANGED <<committed, phase, step, queue, turns, steers>> /\ ClientUnchanged

Settled == \A c \in Calls : open[c] \in {"none", "done"}

\* The step is committed; the next one takes the steering messages.
NextStep ==
    /\ phase = "step" /\ Settled
    /\ committed' = Len(log)
    /\ LET taken(i) == <<Event("user_message", None, <<queue[i]>>, TRUE),
                         Event("steering_queue", None, SubSeq(queue, i + 1, Len(queue)), TRUE)>>
       IN Emit(<<Event("agent_status", None, <<>>, TRUE)>> \o
               FlattenSeq([i \in DOMAIN queue |-> taken(i)]))
    /\ queue' = <<>>
    /\ step' = step + 1 /\ open' = [c \in Calls |-> "none"]
    /\ UNCHANGED <<phase, turns, steers>> /\ ClientUnchanged

Steer ==
    /\ phase = "step" /\ steers < MaxSteers
    /\ queue' = Append(queue, steers) /\ steers' = steers + 1
    /\ Emit(<<Event("steering_queue", None, queue', TRUE)>>)
    /\ UNCHANGED <<committed, phase, step, open, turns>> /\ ClientUnchanged

\* The turn ends in order, or is aborted or fails and leaves its step uncommitted.
EndTurn ==
    /\ phase = "step" /\ queue = <<>>
    /\ \/ /\ Settled
          /\ committed' = Len(log)
          /\ Emit(<<Event("turn_status", None, <<>>, FALSE)>>)
       \/ /\ \E failed \in SUBSET {Plain("turn_error")} :
                Emit(SetToSeq(failed) \o <<Event("turn_status", None, <<>>, FALSE)>>)
          /\ UNCHANGED committed
    /\ phase' = "idle"
    /\ UNCHANGED <<step, open, queue, turns, steers>> /\ ClientUnchanged

(***************************************************************************)
(* The page loads the session: the answers come one by one.                *)
(***************************************************************************)
NoAnswers == [status |-> None, messages |-> None, cursor |-> None]

AnswerStatus ==
    /\ load # None /\ load.status = None
    /\ load' = [load EXCEPT !.status = [running |-> phase = "step", queue |-> queue,
                                        at |-> Len(log)]]
    /\ UNCHANGED <<serverVars, drops, page, streamVars, own, history>>

AnswerMessages ==
    /\ load # None /\ load.messages = None
    /\ load' = [load EXCEPT !.messages = committed]
    /\ UNCHANGED <<serverVars, drops, page, streamVars, own, history>>

AnswerEventLog ==
    /\ load # None /\ load.cursor = None
    /\ load' = [load EXCEPT !.cursor = Len(log)]
    /\ UNCHANGED <<serverVars, drops, page, streamVars, own, history>>

\* What is received and not shown yet.
Held(p) ==
    IF ~p.presenting THEN {}
    ELSE UNION {LET s == p.smoother[ch]
                IN ToSet(SubSeq(s.buffer, s.revealed + 1, Len(s.buffer))) : ch \in Channels}

\* refreshSession, with all the answers, and openSessionStream at the cursor.
Loaded ==
    /\ load # None /\ \A field \in DOMAIN load : load[field] # None
    /\ page' = StartPresentation([ApplyStatus(page, load.status.running) EXCEPT
                    !.queue = load.status.queue, !.messages = Stored(load.messages)])
    /\ cursor' = load.cursor
    /\ base' = load.cursor
    /\ torn' = (load.messages > load.cursor)
    /\ stale' = \E n \in load.status.at + 1 .. load.cursor :
                    log[n].type \in {"turn_status", "steering_queue"}
    /\ load' = None
    /\ UNCHANGED <<serverVars, drops, up, wire, own>>

(***************************************************************************)
(* The stream (openEventStream, consumeSse).                               *)
(***************************************************************************)

Reconnect ==
    /\ cursor # None /\ ~up
    /\ up' = TRUE
    /\ wire' = SelectSeq(log, LAMBDA e : IsDurable(e) /\ e.at > cursor)
    /\ UNCHANGED <<serverVars, drops, load, page, cursor, own, history>>

\* The connection breaks, is idle for too long, or the page is shown again.
Drop ==
    /\ up /\ drops < MaxDrops
    /\ up' = FALSE /\ wire' = <<>> /\ drops' = drops + 1
    /\ UNCHANGED <<serverVars, load, page, cursor, own, history>>

\* consumeSse hands over the events one by one, in the order they arrive.
TakeEvent == wire # <<>> /\ wire' = Tail(wire)

Receive ==
    /\ TakeEvent
    /\ LET e == Head(wire) IN
       IF IsDurable(e) /\ e.at <= cursor
       THEN UNCHANGED <<page, cursor>>
       ELSE /\ page' = Handle(page, e)
            /\ cursor' = IF IsDurable(e) THEN e.at ELSE cursor
    /\ UNCHANGED <<serverVars, drops, load, up, own, history>>

\* A frame of the browser (StreamSmoother.tick).
Tick ==
    /\ page.presenting
    /\ \E ch \in Channels :
          LET s == page.smoother[ch] IN
          /\ s.revealed < Len(s.buffer)
          /\ page' = Reveal(page, ch, s.revealed + 1)
    /\ UNCHANGED <<serverVars, drops, load, streamVars, own, history>>

\* The answer of the page's own prompt ends or breaks: the finally block of
\* submitResolvedPrompt.
ChatEnds ==
    /\ own
    /\ own' = FALSE
    /\ page' = [FinishPresentation(page) EXCEPT !.sending = FALSE]
    /\ UNCHANGED <<serverVars, drops, load, streamVars, history>>

(***************************************************************************)
(* Specification.                                                          *)
(***************************************************************************)
EmptyPage == [messages |-> <<>>, smoother |-> [ch \in Channels |-> NewSmoother],
              presenting |-> FALSE, channel |-> None, finished |-> FALSE,
              sending |-> FALSE, queue |-> <<>>, delegated |-> {}]

Init ==
    /\ log = <<>> /\ committed = 0 /\ phase = "idle" /\ step = 0
    /\ open = [c \in Calls |-> "none"] /\ queue = <<>>
    /\ turns = 0 /\ steers = 0 /\ drops = 0
    /\ load = NoAnswers /\ page = EmptyPage
    /\ cursor = None /\ up = FALSE /\ wire = <<>> /\ own = FALSE
    /\ base = 0 /\ torn = FALSE /\ stale = FALSE

ServerNext == Prompt \/ Announce \/ EmitText \/ EmitTool \/ NextStep \/ Steer \/ EndTurn
PageNext ==
    \/ AnswerStatus \/ AnswerMessages \/ AnswerEventLog \/ Loaded
    \/ Reconnect \/ Drop \/ Receive \/ Tick \/ ChatEnds
Next == ServerNext \/ PageNext

Spec == Init /\ [][Next]_vars

(***************************************************************************)
(* Properties.                                                             *)
(***************************************************************************)
Positions(items) == FlattenSeq([i \in DOMAIN items |-> items[i].at])
AtRest == cursor # None /\ up /\ wire = <<>> /\ load = None
Durable(kinds) == {n \in base + 1 .. Len(log) : log[n].type \in kinds}

InOrder(shown) ==
    \A i \in 1 .. Len(shown) - 1 :
        \/ shown[i] < shown[i + 1]
        \/ shown[i] = shown[i + 1] /\ log[shown[i]].type \in ToolEvents

(* Whatever was lost, replayed, paced or flushed, the page shows text and  *)
(* tool calls in the order they happened and nothing twice: text is not    *)
(* moved below a tool call that started after it (handleAgentEvent flushes *)
(* the buffers), events that are replayed are dropped (openEventStream).   *)
(* Not so when the stored messages were read after the event log: they may *)
(* hold what the stream brings again.                                      *)
ShownInOrder ==
    ~torn => InOrder(Positions(SelectSeq(page.messages, LAMBDA i : i.kind # "user")))

(* When the stream has caught up, everything the server emitted since the  *)
(* session was joined is on the page, or in the buffers while the turn     *)
(* runs; every tool call that has a result shows one, and shows it once.   *)
NothingMissing ==
    AtRest =>
        /\ Durable({"user_message"} \cup Channels) \subseteq
              ToSet(Positions(page.messages)) \cup Held(page)
        /\ phase = "idle" => Held(page) = {}
        /\ \A n \in Durable({"tool_result"}) :
              LET call == {i \in DOMAIN page.messages :
                              /\ page.messages[i].kind = "call"
                              /\ page.messages[i].step = log[n].step
                              /\ page.messages[i].call = log[n].call
                              /\ page.messages[i].at[1] <= n /\ page.messages[i].status = "completed"}
              IN call # {}

(* When the stream has caught up with the end of the turn, the page is not *)
(* busy, shows no steering message as waiting and no delegated task as     *)
(* running; unless the status it loaded was older than the event log it    *)
(* continues from (refreshSession reads them separately).                  *)
BusyEnds ==
    AtRest /\ phase = "idle" /\ ~stale =>
        /\ page.sending => own
        /\ page.queue = <<>>
        /\ page.delegated = {}
=============================================================================
