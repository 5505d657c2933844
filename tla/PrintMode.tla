------------------------------- MODULE PrintMode -------------------------------
(***************************************************************************)
(* chump -p "..." --verbose (runPrintPrompt in client/src/app/app.ts): one *)
(* prompt, its answer on the standard output, its tools on the standard    *)
(* error.  The answer comes in the response of the request                 *)
(* (client/src/api/http.ts: streamChat), the tools come as events: a       *)
(* baseline is taken from the event log, a stream is opened behind it, and *)
(* when the answer is there the log is read again for what was missed.     *)
(*                                                                         *)
(* The session may have been used before and its last turn may still run   *)
(* while the command begins.                                               *)
(***************************************************************************)
EXTENDS Naturals, Sequences, FiniteSets, SequencesExt

CONSTANTS
    None,      \* nothing
    MaxCalls,  \* bound: the tool calls of a turn
    MaxText    \* bound: the fragments of an answer

\* What the constants are.
Assumptions ==
    /\ {MaxCalls, MaxText} \subseteq Nat

VARIABLES
    log,        \* the events of the session by their ids, without its text
    text,       \* the fragments of the answer so far
    turn,       \* of the prompt: "none", "running", "ended", "failed", "aborted"
    wire,       \* the frames of the response that were not read
    cursor,     \* lastEventId of the event stream, None before it is opened
    pc,         \* where runPrintPrompt stands
    baseline,   \* baselineEventId
    activity,   \* the events rendered, and of the ToolActivityRenderer the
                \* pending and completed calls and the lines it wrote
    output,     \* the fragments written
    chat,       \* receivedChunk, receivedEnd, streamError
    failures    \* history: what failed, of "baseline", "replay", "abort", "chat"

prvars == <<log, text, turn, wire, cursor, pc, baseline, activity, output, chat, failures>>
server == <<log, text, turn, wire>>

\* A call: whose turn it is of, and its number, which is also its position.
\* Of the turn before only the last call counts.
Calls == {<<"before", 1>>} \cup ({"own"} \X (1 .. MaxCalls))
Event(kind, call) == [kind |-> kind, call |-> call]
Over == pc \in {"done", "error"}
Has(kind, call) == Event(kind, call) \in ToSet(log)
Upto(n) == [i \in 1 .. n |-> i]
NoActivity == [rendered |-> {}, pending |-> {}, completed |-> {}, lines |-> <<>>]

-----------------------------------------------------------------------------
(* Rendering. *)

\* renderToolCall; a call at the same position is an old one.
RenderToolCall(a, call) ==
    [a EXCEPT !.pending = {p \in @ : p[2] # call[2]} \cup {call}, !.completed = @ \ {call}]

\* renderToolResult, takePendingTool: the line shows the arguments of the call
\* that waits at this position.
RenderToolResult(a, call) ==
    IF call \in a.completed THEN a
    ELSE LET here == {p \in a.pending : p[2] = call[2]} IN
         [a EXCEPT !.completed = @ \cup {call}, !.pending = @ \ here,
                   !.lines = Append(@, [result |-> call,
                       of |-> IF here = {} THEN None ELSE CHOOSE p \in here : TRUE])]

\* renderVerboseToolEvent: the calls and the results are events of
\* parseChumpEvent, the end of an execution is none and is taken as it is.
RenderVerbose(a, id, e) ==
    LET done == [a EXCEPT !.rendered = @ \cup {id}] IN
    CASE e.kind = "finished" -> RenderToolResult(done, e.call)
      [] e.kind = "call" -> RenderToolCall(done, e.call)
      [] e.kind = "result" -> RenderToolResult(done, e.call)
      [] OTHER -> a

\* renderEvent
RenderEvent(a, id) ==
    IF id <= baseline \/ id \in a.rendered THEN a ELSE RenderVerbose(a, id, log[id])

-----------------------------------------------------------------------------
Init ==
    /\ log = <<>> /\ text = 0 /\ turn = "none" /\ wire = <<>>
    /\ cursor = None
    /\ pc = "configure" /\ baseline = 0
    /\ activity = NoActivity
    /\ output = <<>>
    /\ chat = [chunk |-> FALSE, end |-> FALSE, error |-> FALSE]
    /\ failures = {}

(* The server. *)
Client == <<cursor, pc, baseline, activity, output, chat, failures>>
Emit(e) == log' = Append(log, e)

\* The tools of a turn: a call, the end of its execution, its result.  Those
\* of the turn before come before the prompt.
RunsOf(whose) == IF whose = "own" THEN turn = "running" /\ ~Over ELSE turn = "none"
EmitCall(call) ==
    /\ RunsOf(call[1]) /\ ~Has("call", call)
    /\ call[2] > 1 => Has("call", <<call[1], call[2] - 1>>)
    /\ Emit(Event("call", call)) /\ UNCHANGED <<text, turn, wire, Client>>
EmitFinished(call) ==
    /\ RunsOf(call[1]) /\ Has("call", call) /\ ~Has("finished", call)
    /\ Emit(Event("finished", call)) /\ UNCHANGED <<text, turn, wire, Client>>
EmitResult(call) ==
    /\ RunsOf(call[1]) /\ Has("finished", call) /\ ~Has("result", call)
    /\ Emit(Event("result", call)) /\ UNCHANGED <<text, turn, wire, Client>>

\* handle_request_stream
EmitText ==
    /\ turn = "running" /\ ~Over /\ text < MaxText
    /\ text' = text + 1 /\ wire' = Append(wire, "chunk")
    /\ UNCHANGED <<log, turn, Client>>
EndTurn ==
    /\ turn = "running" /\ text > 0
    /\ \A k \in 1 .. MaxCalls : Has("call", <<"own", k>>) => Has("result", <<"own", k>>)
    /\ turn' = "ended" /\ wire' = Append(wire, "end") /\ UNCHANGED <<log, text, Client>>
FailTurn ==
    /\ turn = "running"
    /\ turn' = "failed" /\ wire' = Append(wire, "error") /\ UNCHANGED <<log, text, Client>>

-----------------------------------------------------------------------------
\* openEventStream delivers in order and once, however often it is cut (see
\* TerminalClient); what has arrived is still handed over when it is closed.
Following == cursor # None /\ cursor < Len(log)

Deliver ==
    /\ Following
    /\ cursor' = cursor + 1
    /\ activity' = RenderEvent(activity, cursor + 1)
    /\ UNCHANGED <<server, pc, baseline, output, chat, failures>>

-----------------------------------------------------------------------------
(* runPrintPrompt. *)

\* setModel, setReasoning
Configure(ok) ==
    /\ pc = "configure" /\ pc' = (IF ok THEN "baseline" ELSE "error")
    /\ UNCHANGED <<server, cursor, baseline, activity, output, chat, failures>>

\* createPrintVerboseEventLogger
TakeBaseline(ok) ==
    /\ pc = "baseline" /\ pc' = "ask"
    /\ baseline' = (IF ok THEN Len(log) ELSE 0) /\ cursor' = baseline'
    /\ failures' = failures \cup (IF ok THEN {} ELSE {"baseline"})
    /\ UNCHANGED <<server, activity, output, chat>>

\* streamChat
Ask ==
    /\ pc = "ask" /\ pc' = "chat" /\ turn' = "running"
    /\ UNCHANGED <<log, text, wire, cursor, baseline, activity, output, chat, failures>>
Refused ==
    /\ pc = "ask" /\ pc' = "abort" /\ failures' = failures \cup {"chat"}
    /\ UNCHANGED <<server, cursor, baseline, activity, output, chat>>

\* createPrintResponseRenderer: what is written, part by part.
Write(parts) == output \o parts

\* The frames of the response.
ReadChunk ==
    /\ pc = "chat" /\ wire # <<>> /\ Head(wire) = "chunk"
    /\ wire' = Tail(wire)
    /\ output' = Write(<<Len(output) + 1>>) /\ chat' = [chat EXCEPT !.chunk = TRUE]
    /\ UNCHANGED <<log, text, turn, cursor, pc, baseline, activity, failures>>

\* onEnd
Final == IF chat.chunk THEN output ELSE Write(Upto(text))
ReadEnd ==
    /\ pc = "chat" /\ wire # <<>> /\ Head(wire) = "end"
    /\ wire' = Tail(wire) /\ output' = Final
    /\ chat' = [chat EXCEPT !.end = TRUE]
    /\ UNCHANGED <<log, text, turn, cursor, pc, baseline, activity, failures>>
ReadError ==
    /\ pc = "chat" /\ wire # <<>> /\ Head(wire) = "error"
    /\ wire' = Tail(wire) /\ chat' = [chat EXCEPT !.end = TRUE, !.error = TRUE]
    /\ UNCHANGED <<log, text, turn, cursor, pc, baseline, activity, output, failures>>
StreamEnds ==
    /\ pc = "chat" /\ wire = <<>> /\ chat.end /\ pc' = "replay"
    /\ UNCHANGED <<server, cursor, baseline, activity, output, chat, failures>>

\* Faulty: only the answer is given up.
AfterCutLeaves == "replay"

\* The connection of the response breaks: the catch.
AfterCut == IF chat.end THEN "replay" ELSE "abort"
Cut ==
    /\ pc = "chat" /\ pc' = AfterCut /\ wire' = <<>>
    /\ failures' = failures \cup {"chat"}
    /\ UNCHANGED <<log, text, turn, cursor, baseline, activity, output, chat>>
Abort(ok) ==
    /\ pc = "abort" /\ pc' = "replay"
    /\ turn' = (IF ok /\ turn = "running" THEN "aborted" ELSE turn)
    /\ failures' = failures \cup (IF ok THEN {} ELSE {"abort"})
    /\ UNCHANGED <<log, text, wire, cursor, baseline, activity, output, chat>>

\* replayMissed, close, and how the command ends.
Exit == IF chat.error \/ "chat" \in failures THEN "error" ELSE "done"
Replay(ok) ==
    /\ pc = "replay" /\ pc' = Exit
    /\ activity' = (IF ok THEN FoldLeft(RenderEvent, activity, Upto(Len(log))) ELSE activity)
    /\ failures' = failures \cup (IF ok THEN {} ELSE {"replay"})
    /\ UNCHANGED <<server, cursor, baseline, output, chat>>

Next ==
    \/ \E call \in Calls : EmitCall(call) \/ EmitFinished(call) \/ EmitResult(call)
    \/ EmitText \/ EndTurn \/ FailTurn
    \/ Deliver
    \/ \E ok \in BOOLEAN : Configure(ok) \/ TakeBaseline(ok) \/ Abort(ok) \/ Replay(ok)
    \/ Ask \/ Refused \/ ReadChunk \/ ReadEnd \/ ReadError \/ StreamEnds \/ Cut

Spec == Init /\ [][Next]_prvars

-----------------------------------------------------------------------------
Shown == {activity.lines[i].result : i \in DOMAIN activity.lines}

(* The tools come twice, from the stream and from replayMissed, their      *)
(* results as two events, and the positions of the calls begin anew in     *)
(* every turn: a result has one line, which shows the arguments of its own *)
(* call, or none if the call was before the baseline; and when both reads  *)
(* of the log succeeded, all tools of the turn are there.                  *)
ToolsShownOnce ==
    /\ Cardinality(Shown) = Len(activity.lines)
    /\ \A i \in DOMAIN activity.lines :
          LET line == activity.lines[i] IN
          /\ line.of \in {None, line.result}
          /\ line.of = None =>
               \E id \in 1 .. baseline : log[id] = Event("call", line.result)
    /\ pc = "done" /\ failures = {} =>
          \A k \in 1 .. MaxCalls : Has("finished", <<"own", k>>) => <<"own", k>> \in Shown

(* runPrintPrompt writes the fragments as they come: they are written in   *)
(* order and once, and the command ends well only when the turn did and    *)
(* all of the answer was written.                                          *)
PrintedIsAnswer ==
    /\ IsPrefix(output, Upto(text))
    /\ pc = "done" => turn = "ended" /\ output = Upto(text)

(* When the response breaks, no one waits for the turn any more: the       *)
(* command aborts it, and when it has ended no turn of its runs on, unless *)
(* the server could not be reached.                                        *)
NothingRunsOn == Over /\ turn = "running" => "abort" \in failures
=============================================================================
