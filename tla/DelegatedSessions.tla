--------------------------- MODULE DelegatedSessions ---------------------------
(***************************************************************************)
(* Sub-agents: start_session (tools/sessions.py) runs a task in a session  *)
(* of its own (agent.py: run_delegated_task) while the step of the parent  *)
(* waits for it.  The calls of a step run at the same time.  Which call    *)
(* started which session is kept in the parent's state until the messages  *)
(* of the step are stored, what the child does is forwarded as progress of *)
(* the call, and the web application shows a row for each call             *)
(* (session-controller.ts: applyDelegatedProgress).                        *)
(*                                                                         *)
(* Progress is not in the event log: a page whose connection broke gets    *)
(* the events of the log it missed, and never the progress.  The routing   *)
(* of a call to the agent of a session, its mailbox and its cancellation   *)
(* are ai-query's.                                                         *)
(***************************************************************************)
EXTENDS Naturals, Sequences, FiniteSets, Functions

CONSTANTS
    None,        \* nothing
    Calls,       \* the start_session calls of the parent session
    Names,       \* the session ids that a call may ask for
    Generated,   \* the ids of generated_session_id
    Tools,       \* the tool calls of a child
    MaxTurns,    \* bound: the turns of the parent
    MaxProgress, \* bound: the events of children that are forwarded
    MaxUnread,   \* bound: the events on their way to the page
    MaxBreaks    \* bound: the breaks of the connection, and the loads

\* What the constants are.
Assumptions ==
    /\ Names \cap Generated = {} /\ None \notin Calls \cup Names \cup Generated \cup Tools
    /\ None \notin {"running", "completed", "failed", "aborted"}
    /\ IsFiniteSet(Calls)
    /\ {MaxTurns, MaxProgress, MaxUnread, MaxBreaks} \subseteq Nat

VARIABLES
    turn,    \* the turn: its number, its step, whether it runs or is aborted
    calls,   \* of a call: position, session, where it stands, its outcome, if it
             \* was announced, the tool calls of the child that are open
    stored,  \* the calls whose result is in the stored messages
    child,   \* delegated_task_status of each session, None before it exists
    ledger,  \* pending_delegated_sessions of the parent's stored state
    crashed, \* history: the server exited during a turn
    sent,    \* history: the events of children that were forwarded
    wire,    \* the events on their way to the page
    up,      \* the page is connected
    page,    \* isSending and delegatedActivities of the page
    breaks   \* history: how often the connection broke or the page loaded

dsvars == <<turn, calls, stored, child, ledger, crashed, sent, wire, up, page, breaks>>
Children == Names \cup Generated

Unmade == [at |-> <<>>, child |-> None, pc |-> "none", ok |-> FALSE,
           announced |-> FALSE, open |-> {}]
Active(c) == calls[c].pc \in {"ready", "checked", "asked", "running", "ended"}

-----------------------------------------------------------------------------
(* Events: those in the log reach a page that was away, the others do not. *)
Event(type, c, what) == [type |-> type, call |-> c, what |-> what,
                         child |-> IF c = None THEN None ELSE calls[c].child]
Durable(e) == e.type # "progress"

\* What is lost leaves its place empty: the page reads nothing there.
Missed == [type |-> "missed", call |-> None, what |-> None, child |-> None]
Replayed == [i \in DOMAIN wire |-> IF Durable(wire[i]) THEN wire[i] ELSE Missed]
Emit(e) ==
    /\ Len(wire) < MaxUnread
    /\ wire' = IF up \/ Durable(e) THEN Append(wire, e) ELSE wire
Page == <<up, page, breaks>>

-----------------------------------------------------------------------------
(* The turn of the parent. *)
Init ==
    /\ turn = [n |-> 0, step |-> 0, state |-> "idle"]
    /\ calls = [c \in Calls |-> Unmade] /\ stored = {}
    /\ child = [s \in Children |-> None] /\ ledger = <<>>
    /\ crashed = FALSE
    /\ wire = <<>> /\ up = TRUE /\ sent = 0
    /\ page = [sending |-> FALSE, rows |-> {}] /\ breaks = 0

BeginTurn ==
    /\ turn.state = "idle" /\ turn.n < MaxTurns /\ ~crashed
    /\ turn' = [n |-> turn.n + 1, step |-> 1, state |-> "running"]
    /\ Emit(Event("turn_status", None, "running"))
    /\ UNCHANGED <<calls, stored, child, ledger, crashed, sent, Page>>

InStep(c) == calls[c].at # <<>> /\ calls[c].at[1] = turn.n /\ calls[c].at[2] = turn.step
Position(c) == Tail(calls[c].at)

\* tool_call.ready: the next call of the step, all before any of them ended.
MakeCall(c) ==
    /\ turn.state = "running" /\ calls[c].pc = "none"
    /\ \A d \in Calls : InStep(d) => calls[d].pc = "ready"
    /\ calls' = [calls EXCEPT
                    ![c].at = <<turn.n, turn.step, Cardinality({d \in Calls : InStep(d)})>>,
                    ![c].pc = "ready"]
    /\ UNCHANGED <<turn, stored, child, ledger, crashed, sent, wire, Page>>

\* start_session: the id is asked for or generated, and no session has it.
Check(c) ==
    /\ calls[c].pc = "ready" /\ turn.state = "running"
    /\ \E s \in Children :
          /\ IF s \in Names THEN child[s] = None
             ELSE \A d \in Calls : calls[d].child # s
          /\ calls' = [calls EXCEPT ![c].child = s, ![c].pc = "checked"]
    /\ UNCHANGED <<turn, stored, child, ledger, crashed, sent, wire, Page>>

\* The session exists, no prompt, no such model.
Refuse(c) ==
    /\ calls[c].pc = "ready" /\ turn.state = "running"
    /\ calls' = [calls EXCEPT ![c].pc = "ended", ![c].ok = FALSE]
    /\ UNCHANGED <<turn, stored, child, ledger, crashed, sent, wire, Page>>

\* Faulty: what the state says of other calls is replaced.
RecordAlone(c) == [d \in {c} |-> calls[d].child]

\* _record_pending_delegated_session
Record(c) ==
    [d \in DOMAIN ledger \cup {c} |-> IF d = c THEN calls[c].child ELSE ledger[d]]

\* The progress session_starting is recorded, then emitted, and the task is
\* sent to the agent of the session.
Announce(c) ==
    /\ calls[c].pc = "checked" /\ turn.state = "running"
    /\ ledger' = Record(c) /\ Emit(Event("progress", c, [kind |-> "starting", tool |-> None]))
    /\ calls' = [calls EXCEPT ![c].pc = "asked", ![c].announced = TRUE]
    /\ UNCHANGED <<turn, stored, child, crashed, sent, Page>>

-----------------------------------------------------------------------------
(* The child. *)

\* run_delegated_task: a session another call initialized refuses the task.
Initialized(c) == child[calls[c].child] # None
RunTask(c) ==
    /\ calls[c].pc = "asked" /\ turn.state = "running"
    /\ \A d \in Calls \ {c} : calls[d].child = calls[c].child => calls[d].pc # "running"
    /\ \/ /\ Initialized(c) /\ UNCHANGED child
          /\ calls' = [calls EXCEPT ![c].pc = "ended", ![c].ok = FALSE]
       \/ /\ ~Initialized(c) /\ child' = [child EXCEPT ![calls[c].child] = "running"]
          /\ calls' = [calls EXCEPT ![c].pc = "running"]
    /\ UNCHANGED <<turn, stored, ledger, crashed, sent, wire, Page>>

\* forward_child_event: of what the child's agent emits, what it thinks (or
\* that it failed), its tool calls and their results; "other" is its text and
\* its steps.
Kinds == {"reasoning", "tool_call", "tool_result", "other"}
Forward(c) ==
    /\ calls[c].pc = "running" /\ sent < MaxProgress /\ sent' = sent + 1
    /\ \E kind \in Kinds, tool \in Tools \cup {None} :
          /\ tool # None <=> kind \in {"tool_call", "tool_result"}
          /\ kind = "tool_result" => tool \in calls[c].open
          /\ Emit(Event("progress", c, [kind |-> kind, tool |-> tool]))
          /\ calls' = [calls EXCEPT ![c].open = CASE kind = "tool_call" -> @ \cup {tool}
                                                 [] kind = "tool_result" -> @ \ {tool}
                                                 [] OTHER -> @]
    /\ UNCHANGED <<turn, stored, child, ledger, crashed, Page>>

\* The answer, an error (or no answer), or the signal of the parent's turn.
TaskEnds(c, status) ==
    /\ calls[c].pc = "running"
    /\ status = "aborted" => turn.state = "aborting"
    /\ child' = [child EXCEPT ![calls[c].child] = status]
    /\ calls' = [calls EXCEPT ![c].pc = "ended", ![c].ok = (status = "completed")]
    /\ UNCHANGED <<turn, stored, ledger, crashed, sent, wire, Page>>

-----------------------------------------------------------------------------
(* The end of a call, of a step, of a turn. *)

\* tool_execution.finished, in the log for start_session.
Finished(c) ==
    /\ calls[c].pc = "ended" /\ Emit(Event("finished", c, None))
    /\ calls' = [calls EXCEPT ![c].pc = "finished"]
    /\ UNCHANGED <<turn, stored, child, ledger, crashed, sent, Page>>
Result(c) ==
    /\ calls[c].pc = "finished" /\ turn.state = "running"
    /\ Emit(Event("result", c, None)) /\ calls' = [calls EXCEPT ![c].pc = "result"]
    /\ UNCHANGED <<turn, stored, child, ledger, crashed, sent, Page>>

\* ai-query stores the messages of the step before step.finished.
StepDone == /\ turn.state = "running"
            /\ \A c \in Calls : InStep(c) => calls[c].pc = "result"
StoreStep ==
    /\ StepDone /\ \E c \in Calls : InStep(c) /\ c \notin stored
    /\ stored' = stored \cup {c \in Calls : InStep(c)}
    /\ UNCHANGED <<turn, calls, child, ledger, crashed, sent, wire, Page>>

\* _clear_settled_delegated_sessions
Cleared == Restrict(ledger, {c \in DOMAIN ledger : ~InStep(c)})
FinishStep ==
    /\ StepDone /\ \A c \in Calls : InStep(c) => c \in stored
    /\ \E c \in Calls : InStep(c)
    /\ ledger' = Cleared /\ turn' = [turn EXCEPT !.step = @ + 1]
    /\ UNCHANGED <<calls, stored, child, crashed, sent, wire, Page>>

\* The turn ends with an answer, or fails when no call runs.
EndTurn(failed) ==
    /\ turn.state = "running" /\ \A c \in Calls : ~InStep(c)
    /\ turn' = [turn EXCEPT !.state = IF failed THEN "failing" ELSE "ending"]
    /\ IF failed THEN Emit(Event("turn_error", None, None)) ELSE UNCHANGED wire
    /\ UNCHANGED <<calls, stored, child, ledger, crashed, sent, Page>>
Abort ==
    /\ turn.state = "running" /\ turn' = [turn EXCEPT !.state = "aborting"]
    /\ UNCHANGED <<calls, stored, child, ledger, crashed, sent, wire, Page>>

\* A call that was aborted before its task ran, or whose end is not awaited.
GiveUp(c) ==
    /\ turn.state = "aborting" /\ Active(c) /\ calls[c].pc # "running"
    /\ calls' = [calls EXCEPT ![c].pc = "given up", ![c].ok = FALSE]
    /\ UNCHANGED <<turn, stored, child, ledger, crashed, sent, wire, Page>>
TurnOver ==
    /\ turn.state \in {"ending", "failing", "aborting"} /\ \A c \in Calls : ~Active(c)
    /\ turn' = [turn EXCEPT !.state = "idle"]
    /\ Emit(Event("turn_status", None, "idle"))
    /\ UNCHANGED <<calls, stored, child, ledger, crashed, sent, Page>>

\* The server exits; what is stored stays.
Crash ==
    /\ turn.state # "idle" /\ ~crashed /\ crashed' = TRUE
    /\ turn' = [turn EXCEPT !.state = "idle"]
    /\ calls' = [c \in Calls |-> IF Active(c) THEN [calls[c] EXCEPT !.pc = "lost"] ELSE calls[c]]
    /\ wire' = Replayed
    /\ UNCHANGED <<stored, child, ledger, sent, Page>>

-----------------------------------------------------------------------------
(* The page. *)
Server == <<turn, calls, stored, child, ledger, crashed, sent>>

\* A result is shown with the arguments of its call when that is what the row
\* showed, else without.
DetailOfResult(detail, tool) ==
    [tool |-> tool, args |-> IF detail.tool = tool THEN detail.args ELSE None]

\* latestDetail: a tool (delegatedToolDetail: its arguments), or none: what the
\* child thinks, or nothing.
NoTool == [tool |-> None, args |-> None]
Detail(detail, what) ==
    CASE what.kind = "reasoning" -> NoTool
      [] what.kind = "tool_call" -> [tool |-> what.tool, args |-> what.tool]
      [] what.kind = "tool_result" -> DetailOfResult(detail, what.tool)
      [] OTHER -> detail

\* applyDelegatedProgress; the order of the rows is left out
Row(e, detail) == [call |-> e.call, at |-> Position(e.call), child |-> e.child,
                   detail |-> Detail(detail, e.what)]
Progressed(rows, e) ==
    IF \E r \in rows : r.call = e.call
    THEN {IF r.call = e.call THEN Row(e, r.detail) ELSE r : r \in rows}
    ELSE rows \cup {Row(e, NoTool)}

\* settleDelegatedActivity
Settled(rows, e) == {r \in rows : r.call # e.call /\ r.at # Position(e.call)}

\* handleAgentEvent
RowsAfter(e) ==
    CASE e.type = "progress" -> Progressed(page.rows, e)
      [] e.type \in {"finished", "result"} -> Settled(page.rows, e)
      [] e.type = "turn_status" -> IF e.what = "running" THEN page.rows ELSE {}
      [] e.type = "turn_error" -> {}
      [] OTHER -> page.rows
Handled(e) ==
    [sending |-> IF e.type = "turn_status" THEN e.what = "running" ELSE page.sending,
     rows |-> RowsAfter(e)]
Receive ==
    /\ up /\ wire # <<>>
    /\ page' = Handled(Head(wire)) /\ wire' = Tail(wire)
    /\ UNCHANGED <<Server, up, breaks>>

\* The connection breaks, what was only live is lost; it comes back.
Break ==
    /\ up /\ breaks < MaxBreaks /\ breaks' = breaks + 1
    /\ up' = FALSE /\ wire' = Replayed
    /\ UNCHANGED <<Server, page>>
Reconnect == ~up /\ up' = TRUE /\ UNCHANGED <<Server, wire, page, breaks>>

\* selectSession: the session is opened anew.
Load ==
    /\ breaks < MaxBreaks /\ breaks' = breaks + 1
    /\ page' = [sending |-> (turn.state # "idle"), rows |-> {}]
    /\ wire' = <<>> /\ up' = TRUE /\ UNCHANGED Server

Next ==
    \/ BeginTurn \/ StoreStep \/ FinishStep \/ Abort \/ TurnOver \/ Crash
    \/ \E c \in Calls :
          \/ MakeCall(c) \/ Check(c) \/ Refuse(c) \/ Announce(c) \/ RunTask(c)
          \/ Forward(c) \/ Finished(c) \/ Result(c) \/ GiveUp(c)
          \/ \E status \in {"completed", "failed", "aborted"} : TaskEnds(c, status)
    \/ \E failed \in BOOLEAN : EndTurn(failed)
    \/ Receive \/ Break \/ Reconnect \/ Load

Spec == Init /\ [][Next]_dsvars

-----------------------------------------------------------------------------
Unread(c, types) == \E i \in DOMAIN wire : wire[i].type \in types /\ wire[i].call \in {c, None}

(* delegatedActivities is built from events that are not in the log, which *)
(* a page may begin to read, or lose, anywhere: a call has one row, which  *)
(* names the session the call started and shows a child's tool with its    *)
(* own arguments or none; and a row whose call has ended goes away by an   *)
(* event that is still to be read, whatever was lost, unless the server    *)
(* exited and no event says so.  Rows are there only while the page shows  *)
(* that a turn runs, which is when ChatComposer.svelte shows them.         *)
RowsAreOfRunningCalls ==
    /\ page.rows # {} => page.sending
    /\ \A r, q \in page.rows : r.call = q.call => r = q
    /\ \A r \in page.rows :
          /\ r.child = calls[r.call].child
          /\ r.detail.args \in {None, r.detail.tool}
          /\ \/ Active(r.call) \/ crashed \/ turn.state = "aborting"
             \/ Unread(r.call, {"finished", "result", "turn_status", "turn_error"})

(* pending_delegated_sessions is there for a server that exits during the  *)
(* call: from before the child is started until the result of the call is  *)
(* in the stored messages, the stored state names the child, whatever      *)
(* happens to the turn and whichever calls run at the same time            *)
(* (server/CHANGELOG.md:45).                                               *)
LedgerKnowsTheChild ==
    \A c \in Calls : calls[c].announced /\ c \notin stored =>
        c \in DOMAIN ledger /\ ledger[c] = calls[c].child

(* Two calls of a step may ask for the same session and both find that it  *)
(* does not exist: one of them runs it.  A child runs only while the call  *)
(* that started it waits, and one whose call succeeded has completed.      *)
ChildHasOneCall ==
    /\ \A s \in Children : child[s] = "running" =>
          crashed \/ Cardinality({c \in Calls : calls[c].child = s /\ calls[c].pc = "running"}) = 1
    /\ \A c \in Calls : calls[c].ok =>
          /\ child[calls[c].child] = "completed"
          /\ \A d \in Calls \ {c} : calls[d].child = calls[c].child => ~calls[d].ok

-----------------------------------------------------------------------------
(* What holds of every state, of which the properties are a part.          *)
CallRecords ==
    [at : Seq(Nat), child : Children \cup {None},
     pc : {"none", "ready", "checked", "asked", "running", "ended", "finished", "result",
           "given up", "lost"},
     ok : BOOLEAN, announced : BOOLEAN, open : SUBSET Tools]
Reports == [kind : Kinds \cup {"starting"}, tool : Tools \cup {None}]
Events ==
    [type : {"turn_status"}, what : {"running", "idle"}, call : {None}, child : {None}] \cup
    [type : {"turn_error", "missed"}, what : {None}, call : {None}, child : {None}] \cup
    [type : {"finished", "result"}, what : {None}, call : Calls, child : Children \cup {None}] \cup
    [type : {"progress"}, what : Reports, call : Calls, child : Children \cup {None}]
DataFits ==
    /\ turn \in [n : Nat, step : Nat,
                 state : {"idle", "running", "ending", "failing", "aborting"}]
    /\ calls \in [Calls -> CallRecords]
    /\ child \in [Children -> {None, "running", "completed", "failed", "aborted"}]
    /\ wire \in Seq(Events) /\ page.sending \in BOOLEAN

\* Who is under way is of this step; a call that was announced has a session.
TurnFits ==
    /\ crashed => turn.state = "idle"
    /\ \A c \in Calls : Active(c) => InStep(c) /\ turn.state \in {"running", "aborting"}
    /\ \A c \in Calls :
          /\ calls[c].announced => calls[c].pc \notin {"none", "ready", "checked"}
          /\ calls[c].pc \in {"asked", "running"} => calls[c].announced
    /\ LedgerKnowsTheChild

ChildFits ==
    /\ \A c \in Calls :
          /\ calls[c].pc \in {"checked", "asked", "running"} => calls[c].child \in Children
          /\ calls[c].pc = "running" => child[calls[c].child] = "running"
          /\ calls[c].ok =>
                /\ calls[c].pc \in {"ended", "finished", "result", "lost"}
                /\ calls[c].child \in Children /\ child[calls[c].child] = "completed"
    /\ \A c, d \in Calls : c # d /\ calls[c].child = calls[d].child =>
          /\ ~(calls[c].pc = "running" /\ calls[d].pc = "running")
          /\ ~(calls[c].ok /\ calls[d].ok)
    /\ \A s \in Children : child[s] = "running" =>
          crashed \/ \E c \in Calls : calls[c].child = s /\ calls[c].pc = "running"

\* The rows: what the page will show when it has read the first events, and
\* the event that takes a row away.
Begins(e) == e.type = "turn_status" /\ e.what = "running"
Ends(e) == e.type = "turn_status" /\ e.what = "idle"
Clears(e, c) ==
    \/ e.type \in {"finished", "result"} /\ e.call = c
    \/ e.type = "turn_error" \/ Ends(e)
NoEnd(m, n) == \A i \in DOMAIN wire : m < i /\ i < n => ~Ends(wire[i])
SendsBefore(n) ==
    \/ page.sending /\ NoEnd(0, n)
    \/ \E m \in DOMAIN wire : m < n /\ Begins(wire[m]) /\ NoEnd(m, n)
GoesAfter(n, c) ==
    \/ Active(c) \/ crashed \/ turn.state = "aborting"
    \/ \E i \in DOMAIN wire : n < i /\ Clears(wire[i], c)
ProgressFits(i, e) ==
    /\ e.child = calls[e.call].child /\ calls[e.call].announced
    /\ GoesAfter(i, e.call) /\ SendsBefore(i)
RowFits(r) ==
    /\ r.call \in Calls /\ r.child = calls[r.call].child /\ calls[r.call].announced
    /\ r.detail.args \in {None, r.detail.tool}
    /\ GoesAfter(0, r.call)
PageFits ==
    /\ page.rows # {} => page.sending
    /\ \A r, q \in page.rows : r.call = q.call => r = q
    /\ \A r \in page.rows : RowFits(r)
    /\ \A i \in DOMAIN wire : wire[i].type = "progress" => ProgressFits(i, wire[i])
    /\ turn.state # "idle" => SendsBefore(Len(wire) + 1)

ChildrenInv == DataFits /\ TurnFits /\ ChildFits /\ PageFits
=============================================================================
