------------------------------ MODULE Transcript ------------------------------
(***************************************************************************)
(* What the terminal client prints of a session that somebody else drives  *)
(* (client/src/ui/transcript.ts, reasoning.ts, output.ts): a session is    *)
(* shown by replaying the messages that are stored, and then by rendering  *)
(* the event stream.  Both go through TranscriptRenderer.render.           *)
(*                                                                         *)
(* Reasoning is held back until text or a tool call follows, text is one   *)
(* block until something else is printed, a tool call has a row once its   *)
(* result is there.  A message, a fragment and a call are numbers.         *)
(***************************************************************************)
EXTENDS ReasoningText, FiniteSets

CONSTANTS
    MaxReplay,   \* MAX_REPLAY_MESSAGES
    MaxItems,    \* bound: messages of the user, fragments and calls
    MaxNotes,    \* bound: events that print nothing
    MaxSwitches, \* bound: the session is shown again
    MaxWire,     \* bound: events the viewer has not received
    None

\* What the constants are.
Assumptions ==
    /\ TextAssumptions
    /\ {MaxReplay, MaxItems, MaxNotes, MaxSwitches, MaxWire} \subseteq Nat

VARIABLES
    phase,    \* the server: "idle", "model" or "tools"
    items,    \* how many messages, fragments and calls there were
    notes,
    messages, \* the stored messages
    said,     \* what the model said in this step
    results,  \* the results of this step, as they came
    wire,     \* events the viewer has not received
    load,     \* the answers of renderSwitchedSession
    view,     \* the viewer
    first,    \* history: the first stored message the viewer printed
    whole,    \* history: the viewer has the events of all later messages
    excused,  \* history: reasoning was held back that belongs elsewhere, a turn failed
    switches

server == <<phase, items, notes, messages, said, results>>
vars == <<server, wire, load, view, first, whole, excused, switches>>

-----------------------------------------------------------------------------
(* TranscriptRenderer.  The rows: a message of the user, a block of text,  *)
(* a block of reasoning, a result.                                         *)

Row(kind, content) == [kind |-> kind, content |-> content]
EmptyView == [rows |-> <<>>, open |-> FALSE, held |-> <<>>, pending |-> {}, completed |-> {}]

\* finishReasoning
FinishReasoning(v) ==
    IF v.held = <<>> THEN v
    ELSE [v EXCEPT !.rows = Append(@, Row("reasoning", v.held)), !.held = <<>>, !.open = FALSE]

\* renderAssistantText
RenderText(v, n) ==
    LET w == FinishReasoning(v) IN
    IF w.open THEN [w EXCEPT !.rows[Len(w.rows)].content = Append(@, n)]
    ELSE [w EXCEPT !.rows = Append(@, Row("text", <<n>>)), !.open = TRUE]

\* Any event but text ends the block of text.
Render(view0, event) ==
    LET v == [view0 EXCEPT !.open = FALSE] IN
    CASE event.type = "assistant_text" -> RenderText(view0, event.n)
      [] event.type = "user_message" -> [v EXCEPT !.rows = Append(@, Row("user", <<event.n>>))]
      [] event.type = "tool_call" -> [FinishReasoning(v) EXCEPT !.pending = @ \union {event.n}]
      [] event.type = "tool_result" /\ event.n \notin v.completed ->
            [v EXCEPT !.rows = Append(@, Row("result", <<event.n>>)),
                      !.pending = @ \ {event.n}, !.completed = @ \union {event.n}]
      [] event.type = "reasoning" -> [v EXCEPT !.held = Merge(@, event.text)]
      [] OTHER -> v

-----------------------------------------------------------------------------
(* The stored messages as events.                                          *)

\* transcriptEventFromSse: what the renderer has no use for is left out there.
Event(type, n) == [type |-> type, n |-> n, text |-> <<n>>]

\* readTextPart, readReasoningPart, readToolCallPart, readToolResultPart
Part(type, n) == Event(type, n)

\* userMessageDisplayFromContent: the text and the labels of the images are one item.
UserPart(n) == Event("user_message", n)

Reasoning(text) == [type |-> "reasoning", n |-> 0, text |-> text]

\* flushReasoning
FlushReasoning(acc) ==
    IF acc.reasoning = <<>> THEN acc
    ELSE [events |-> Append(acc.events, Reasoning(acc.reasoning)), reasoning |-> <<>>]

\* Faulty: the reasoning of a message goes to its end.
ContentEventsLate(parts) ==
    LET spoken == SelectSeq(parts, LAMBDA part : part.type # "reasoning")
        thought == SelectSeq(parts, LAMBDA part : part.type = "reasoning")
    IN IF thought = <<>> THEN spoken
       ELSE Append(spoken, Reasoning(FlattenSeq([i \in DOMAIN thought |-> thought[i].text])))

\* transcriptEventsFromAssistantContent, of one message
ContentEvents(parts) ==
    LET Add(acc, part) ==
            IF part.type = "reasoning" THEN [acc EXCEPT !.reasoning = @ \o part.text]
            ELSE LET flushed == FlushReasoning(acc)
                 IN [flushed EXCEPT !.events = Append(@, part)]
    IN FlushReasoning(FoldLeft(Add, [events |-> <<>>, reasoning |-> <<>>], parts)).events

\* transcriptEventsFromStoredMessages
StoredEvents(stored) == FlattenSeq([i \in DOMAIN stored |-> ContentEvents(stored[i])])

\* recentMessages: the position of the first one
Recent(stored) == IF Len(stored) <= MaxReplay THEN 1 ELSE Len(stored) - MaxReplay + 1

\* renderApproximateTranscript
Replay(stored) == FinishReasoning(FoldLeft(Render, EmptyView, StoredEvents(stored)))

-----------------------------------------------------------------------------
(* The server.  A step is stored when it is over; its events are on the    *)
(* stream as they happen.                                                  *)

Viewer == UNCHANGED <<load, view, first, whole, switches>>
Emit(events) == wire' = wire \o events /\ Len(wire') <= MaxWire
Next1 == items + 1

StartTurn ==
    /\ phase = "idle" /\ items < MaxItems
    /\ items' = Next1
    /\ messages' = Append(messages, <<UserPart(Next1)>>)
    /\ Emit(<<Event("user_message", Next1), Event("turn_status", 0)>>)
    /\ phase' = "model"
    /\ UNCHANGED <<notes, said, results, excused>> /\ Viewer

Say ==
    /\ phase = "model" /\ items < MaxItems
    /\ items' = Next1
    /\ \E type \in {"reasoning", "assistant_text", "tool_call"} :
          /\ said' = Append(said, Part(type, Next1))
          /\ Emit(<<Event(type, Next1)>>)
    /\ UNCHANGED <<phase, notes, messages, results, excused>> /\ Viewer

\* agent_status, steering_queue, compaction_status
Note ==
    /\ phase # "idle" /\ notes < MaxNotes
    /\ notes' = notes + 1
    /\ Emit(<<Event("steering_queue", 0)>>)
    /\ UNCHANGED <<phase, items, messages, said, results, excused>> /\ Viewer

Called == {part.n : part \in {said[i] : i \in {j \in DOMAIN said : said[j].type = "tool_call"}}}

RunTools ==
    /\ phase = "model" /\ Called # {}
    /\ phase' = "tools"
    /\ UNCHANGED <<items, notes, messages, said, results, wire, excused>> /\ Viewer

\* Calls run in parallel; a result comes as two events.
Result ==
    /\ phase = "tools"
    /\ \E n \in Called \ ToSet(results) :
          /\ results' = Append(results, n)
          /\ Emit(<<Event("tool_result", n), Event("tool_result", n)>>)
    /\ UNCHANGED <<phase, items, notes, messages, said, excused>> /\ Viewer

\* The messages of the step: the assistant's, and the results in the order of the calls.
StoreStep ==
    LET calls == SelectSeq(said, LAMBDA part : part.type = "tool_call") IN
    messages \o (IF said = <<>> THEN <<>> ELSE <<said>>)
             \o (IF results = <<>> THEN <<>>
                 ELSE <<[i \in DOMAIN calls |-> Part("tool_result", calls[i].n)]>>)

Excuse == excused' = (excused \/ (said # <<>> /\ Last(said).type = "reasoning"))

\* The next step takes a steering message, or none.
NextStep ==
    /\ phase = "tools" /\ Called = ToSet(results)
    /\ \/ /\ messages' = StoreStep
          /\ UNCHANGED <<items, wire>>
       \/ /\ items < MaxItems
          /\ items' = Next1
          /\ messages' = Append(StoreStep, <<UserPart(Next1)>>)
          /\ Emit(<<Event("user_message", Next1)>>)
    /\ phase' = "model" /\ said' = <<>> /\ results' = <<>> /\ Excuse
    /\ UNCHANGED notes /\ Viewer

EndTurn ==
    /\ phase = "model" /\ Called = {} /\ said # <<>>
    /\ messages' = StoreStep
    /\ Emit(<<Event("turn_status", 0)>>)
    /\ phase' = "idle" /\ said' = <<>> /\ results' = <<>> /\ Excuse
    /\ UNCHANGED <<items, notes>> /\ Viewer

\* The step is not stored.
FailTurn ==
    /\ phase # "idle"
    /\ Emit(<<Event("turn_status", 0)>>)
    /\ phase' = "idle" /\ said' = <<>> /\ results' = <<>> /\ excused' = TRUE
    /\ UNCHANGED <<items, notes, messages>> /\ Viewer

-----------------------------------------------------------------------------
(* The viewer.                                                             *)

\* logEvent
Receive ==
    /\ wire # <<>> /\ load = None
    /\ view' = Render(view, Head(wire))
    /\ wire' = Tail(wire)
    /\ UNCHANGED <<server, load, first, whole, excused, switches>>

\* renderSwitchedSession asks for the messages and for the event log.
Switch ==
    /\ load = None /\ switches < MaxSwitches
    /\ switches' = switches + 1
    /\ load' = [messages |-> None, log |-> None]
    /\ UNCHANGED <<server, wire, view, first, whole, excused>>

\* The messages are those of this moment.
AnswerMessages ==
    /\ load # None /\ load.messages = None
    /\ load' = [load EXCEPT !.messages = <<messages>>]
    /\ UNCHANGED <<server, wire, view, first, whole, excused, switches>>

\* The stream goes on from the end of the event log of this moment.
AnswerEventLog ==
    /\ load # None /\ load.log = None
    /\ load' = [load EXCEPT !.log = <<messages>>]
    /\ wire' = <<>>
    /\ whole' = (said = <<>>)
    /\ UNCHANGED <<server, view, first, excused, switches>>

\* The replay has a renderer of its own; the one of the stream keeps what it
\* holds back.  (A block of text that is open goes on as a new one.)
Switched ==
    /\ load # None /\ load.messages # None /\ load.log # None
    /\ LET stored == load.messages[1]
           recent == SubSeq(stored, Recent(stored), Len(stored))
       IN /\ view' = [view EXCEPT !.rows = Replay(recent).rows, !.open = FALSE]
          /\ first' = Recent(stored)
    /\ whole' = (whole /\ load.messages = load.log)
    /\ excused' = (excused \/ view.held # <<>>)
    /\ load' = None
    /\ UNCHANGED <<server, wire, switches>>

-----------------------------------------------------------------------------
Init ==
    /\ phase = "idle" /\ items = 0 /\ notes = 0 /\ messages = <<>> /\ said = <<>> /\ results = <<>>
    /\ wire = <<>> /\ load = None /\ view = EmptyView /\ first = 1
    /\ whole = TRUE /\ excused = FALSE /\ switches = 0

Next ==
    \/ StartTurn \/ Say \/ Note \/ RunTools \/ Result \/ NextStep \/ EndTurn \/ FailTurn
    \/ Receive \/ Switch \/ AnswerMessages \/ AnswerEventLog \/ Switched

Spec == Init /\ [][Next]_vars

-----------------------------------------------------------------------------
(* Properties.                                                             *)

\* Text that is printed in pieces is one text; the results of parallel calls
\* have no order.
Joined(rows) ==
    LET Add(acc, row) ==
            IF acc # <<>> /\ Last(acc).kind = row.kind /\ row.kind \in {"text", "result"}
            THEN ReplaceAt(acc, Len(acc), Row(row.kind,
                    IF row.kind = "text" THEN Last(acc).content \o row.content
                    ELSE SetToSortSeq(ToSet(Last(acc).content) \union ToSet(row.content),
                                      LAMBDA a, b : a < b)))
            ELSE Append(acc, row)
    IN FoldLeft(Add, <<>>, rows)

(* Who followed a session and who opens it now see the same: when no turn  *)
(* runs, the rows printed from the event stream (render) and the rows that *)
(* are printed from the stored messages (transcriptEventsFromStoredMessages*)
(* and renderApproximateTranscript) are the same, with the reasoning that  *)
(* is held back.  Not so after a turn that failed, whose last step is not  *)
(* stored, after a step that ended in reasoning or a switch while some is  *)
(* held back, which is printed when something else is said, and for a      *)
(* viewer who came in the middle of a step.                                *)
ReplayMatchesLive ==
    phase = "idle" /\ wire = <<>> /\ load = None /\ whole /\ ~excused =>
        Joined(FinishReasoning(view).rows)
            = Joined(Replay(SubSeq(messages, first, Len(messages))).rows)

(* Reasoning is printed before what it led to and after what was said      *)
(* before it (finishReasoning in render), live and in the replay, and      *)
(* nothing of the model is printed twice (completedTools), unless the      *)
(* messages and the event log were read at different moments.              *)
ModelInOrder ==
    whole /\ load = None /\ ~excused =>
        LET spoken == FlattenSeq([i \in DOMAIN view.rows |->
                         IF view.rows[i].kind \in {"text", "reasoning"} THEN view.rows[i].content
                         ELSE <<>>])
            shown == {i \in DOMAIN view.rows : view.rows[i].kind = "result"}
        IN /\ \A i \in 1 .. Len(spoken) - 1 : spoken[i] < spoken[i + 1]
           /\ \A i, j \in shown : view.rows[i].content = view.rows[j].content => i = j
=============================================================================
