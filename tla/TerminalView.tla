----------------------------- MODULE TerminalView -----------------------------
(***************************************************************************)
(* What the terminal client shows of tools (client/src/ui/tool-activity.ts,*)
(* activity-status.ts, transcript.ts): the rows printed for results, and   *)
(* which tools it shows as running.  ActivityStatus has how these are      *)
(* shown, and the line of a delegated session.                             *)
(*                                                                         *)
(* A turn of this client sends its text on the response of the chat        *)
(* request and everything on the event stream; nothing orders the two.     *)
(* Steps and indexes start again with each turn, a provider may use a call *)
(* id again, and only some events are in the log that a reconnect replays. *)
(***************************************************************************)
EXTENDS Naturals, Sequences, FiniteSets

CONSTANTS
    Ids,        \* call ids of the provider
    Session,    \* the call that delegates to a session
    MaxTurns,   \* bound: turns
    MaxCalls,   \* bound: tool calls
    MaxTexts,   \* bound: pieces of text
    MaxDrops,   \* bound: reconnects of the event stream
    MaxQueue,   \* bound: events under way
    None

\* What the constants are.
Assumptions ==
    /\ {Session, MaxTurns, MaxCalls, MaxTexts, MaxDrops, MaxQueue} \subseteq Nat

VARIABLES
    turn,     \* the server's turn: its number, whose it is, its step
    calls,    \* the calls of all turns
    chat,     \* the response of this client's chat request
    stream,   \* the event stream
    local,    \* LiveSyncTracker: a turn of this client is under way
    remote,   \* remoteTurnRunning
    tree,     \* the tools of the two activity status controllers
    pending,  \* pendingTools (the order is that of the calls)
    completed,\* completedTools
    rows,     \* the rows printed
    texts, drops,
    handled   \* history: calls with a result that the renderer was given

server == <<turn, calls, texts>>
queues == <<chat, stream>>
renderer == <<pending, completed, rows, handled>>
client == <<local, remote, tree, renderer>>
vars == <<server, queues, client, drops>>

Controllers == {"local", "shared"}

-----------------------------------------------------------------------------
(* The server: agent.py _on_tool_lifecycle and the turn around it.         *)

Key(c) == <<calls[c].step, calls[c].index>>

\* Events of the log; the others are lost when the stream drops.
Logged(event) == event.type # "gap" /\ (event.type = "finished" => event.call = Session)

Emit(event) == Len(stream) < MaxQueue /\ stream' = Append(stream, event)

OfTurn(state) == {c \in DOMAIN calls : calls[c].turn = turn.number /\ calls[c].state = state}

StartTurn ==
    /\ turn.owner = None /\ turn.number < MaxTurns
    /\ \E owner \in {"this", "other"} :
          /\ owner = "this" => ~local
          /\ turn' = [number |-> turn.number + 1, owner |-> owner, step |-> 1]
          /\ local' = (local \/ owner = "this")
          /\ tree' = IF owner = "this" THEN [tree EXCEPT !["local"] = <<>>] ELSE tree
    /\ Emit([type |-> "running", value |-> TRUE])
    /\ UNCHANGED <<calls, texts, chat, remote, renderer, drops>>

Text ==
    /\ turn.owner # None /\ texts < MaxTexts /\ texts' = texts + 1
    /\ Emit([type |-> "text"])
    /\ chat' = IF turn.owner = "this" THEN Append(chat, "text") ELSE chat
    /\ UNCHANGED <<turn, calls, client, drops>>

\* tool_call.ready, for a call of this step
Call ==
    /\ turn.owner # None /\ Len(calls) < MaxCalls
    /\ \A c \in OfTurn("finished") \cup OfTurn("done") : calls[c].step # turn.step
    /\ \E id \in Ids :
          LET index == Cardinality({c \in DOMAIN calls : calls[c].turn = turn.number /\ calls[c].step = turn.step})
          IN  /\ \A c \in OfTurn("ready") : calls[c].id # id
              /\ calls' = Append(calls, [turn |-> turn.number, step |-> turn.step, index |-> index,
                                         id |-> id, state |-> "ready"])
              /\ Emit([type |-> "call", call |-> Len(calls) + 1])
    /\ UNCHANGED <<turn, texts, chat, client, drops>>

Advance(c, from, to) ==
    /\ c \in OfTurn(from)
    /\ calls' = [calls EXCEPT ![c].state = to]
    /\ Emit([type |-> to, call |-> c])
    /\ UNCHANGED <<turn, texts, chat, client, drops>>

\* tool_execution.finished, and the tool_result that repeats it.
Finish(c) == Advance(c, "ready", "finished")
Result(c) == Advance(c, "finished", "done")

NextStep ==
    /\ turn.owner # None /\ OfTurn("ready") \cup OfTurn("finished") = {}
    /\ \E c \in OfTurn("done") : calls[c].step = turn.step
    /\ turn' = [turn EXCEPT !.step = @ + 1]
    /\ UNCHANGED <<calls, texts, queues, client, drops>>

\* The turn ends or is cancelled, with calls that never get a result.
EndTurn ==
    /\ turn.owner # None
    /\ turn' = [turn EXCEPT !.owner = None]
    /\ Emit([type |-> "running", value |-> FALSE])
    /\ chat' = IF turn.owner = "this" THEN Append(chat, "end") ELSE chat
    /\ UNCHANGED <<calls, texts, client, drops>>

\* openEventStream reconnects, and reads from the log what it has not seen:
\* what the log does not have becomes a gap.
Drop ==
    /\ drops < MaxDrops /\ drops' = drops + 1
    /\ stream' = [i \in DOMAIN stream |-> IF Logged(stream[i]) THEN stream[i] ELSE [type |-> "gap"]]
    /\ UNCHANGED <<server, chat, client>>

-----------------------------------------------------------------------------
(* The tree of running tools: createActivityStatusController.              *)

Running(tools) == {k \in DOMAIN tools : tools[k].state \in {"running", "aborting"}}

With(tools, key, tool) == [k \in DOMAIN tools \cup {key} |-> IF k = key THEN tool ELSE tools[k]]

\* upsertTool
Upsert(tools, c) ==
    LET known == Key(c) \in DOMAIN tools
    IN  With(tools, Key(c), [call |-> c,
             state |-> IF known /\ tools[Key(c)].state = "aborting" THEN "aborting" ELSE "running"])

\* finishTool, settleCompletedBatch
FinishTool(tools, c) ==
    LET k == Key(c)
        marked == IF k \notin DOMAIN tools THEN tools
                  ELSE [tools EXCEPT ![k].state = "finished"]
    IN  IF Running(marked) = {} THEN <<>> ELSE marked

\* showAborting
Abort ==
    /\ local \/ remote
    /\ LET ctl == IF local THEN "local" ELSE "shared"
       IN  tree' = [tree EXCEPT ![ctl] = [k \in DOMAIN @ |->
                       IF @[k].state = "running" THEN [@[k] EXCEPT !.state = "aborting"] ELSE @[k]]]
    /\ UNCHANGED <<server, queues, local, remote, renderer, drops>>

\* The hooks: to the turn of this client, or to the one that is followed.
Hooked(next) ==
    tree' = IF local THEN [tree EXCEPT !["local"] = next["local"]]
            ELSE IF remote THEN [tree EXCEPT !["shared"] = next["shared"]] ELSE tree

-----------------------------------------------------------------------------
(* The transcript: ToolActivityRenderer.                                   *)

\* Faulty: what an earlier turn left behind stays.
PendCallKeeps(c) ==
    /\ pending' = pending \union {[key |-> Key(c), call |-> c]}
    /\ completed' = completed \ {calls[c].id}

\* pendingTool
Pending(c) == [key |-> Key(c), call |-> c]

\* renderToolCall
PendCall(c) ==
    /\ pending' = {p \in pending : p.key # Key(c)} \union {Pending(c)}
    /\ completed' = completed \ {calls[c].id}

\* takePendingTool: the first one with the key.
Matching(c) == {p \in pending : p.key = Key(c)}
First(c) == CHOOSE p \in Matching(c) : \A q \in Matching(c) : p.call <= q.call
Taken(c) == IF Matching(c) = {} THEN None ELSE First(c).call

\* writeEmission: a row of the transcript.
Printed(c) == Append(rows, [call |-> c, args |-> Taken(c)])

\* renderToolResult: the first of the two wins.
PrintResult(c) ==
    /\ handled' = handled \cup {c}
    /\ IF calls[c].id \in completed THEN UNCHANGED <<pending, completed, rows>>
       ELSE /\ completed' = completed \cup {calls[c].id}
            /\ rows' = Printed(c)
            /\ pending' = IF Matching(c) = {} THEN pending ELSE pending \ {First(c)}

-----------------------------------------------------------------------------
(* The client: runChatTurn, createSharedTurnSync and the event stream.     *)

\* onChunk, beginTextStreaming
ChatText ==
    /\ chat # <<>> /\ Head(chat) = "text"
    /\ chat' = Tail(chat)
    /\ tree' = [tree EXCEPT !["local"] = <<>>]
    /\ UNCHANGED <<server, stream, local, remote, renderer, drops>>

\* The chat's end, and onTurnSettled.
ChatEnd ==
    /\ chat # <<>> /\ Head(chat) = "end"
    /\ chat' = Tail(chat)
    /\ local' = FALSE /\ remote' = FALSE
    /\ tree' = [c \in Controllers |-> <<>>]
    /\ UNCHANGED <<server, stream, renderer, drops>>

Received(type) == stream # <<>> /\ Head(stream).type = type /\ stream' = Tail(stream)

OnGap ==
    /\ Received("gap")
    /\ UNCHANGED <<server, chat, client, drops>>

\* applyTurnStatus
OnRunning ==
    /\ Received("running")
    /\ remote' = Head(stream).value
    /\ tree' = IF Head(stream).value /\ local THEN tree ELSE [tree EXCEPT !["shared"] = <<>>]
    /\ UNCHANGED <<server, chat, local, renderer, drops>>

\* beforeAssistantText
OnText ==
    /\ Received("text")
    /\ tree' = IF local THEN tree ELSE [tree EXCEPT !["shared"] = <<>>]
    /\ UNCHANGED <<server, chat, local, remote, renderer, drops>>

OnCall ==
    /\ Received("call")
    /\ PendCall(Head(stream).call)
    /\ Hooked([ctl \in Controllers |-> Upsert(tree[ctl], Head(stream).call)])
    /\ UNCHANGED <<server, chat, local, remote, rows, handled, drops>>

\* tool_execution.finished and tool_result; the second tells the tree nothing.
OnResult ==
    /\ Received("finished") \/ Received("done")
    /\ LET c == Head(stream).call
       IN  /\ PrintResult(c)
           /\ IF calls[c].id \in completed THEN UNCHANGED tree
              ELSE Hooked([ctl \in Controllers |-> FinishTool(tree[ctl], c)])
    /\ UNCHANGED <<server, chat, local, remote, drops>>

-----------------------------------------------------------------------------
Init ==
    /\ turn = [number |-> 0, owner |-> None, step |-> 1]
    /\ calls = <<>> /\ chat = <<>> /\ stream = <<>>
    /\ local = FALSE /\ remote = FALSE
    /\ tree = [ctl \in Controllers |-> <<>>]
    /\ pending = {} /\ completed = {} /\ rows = <<>>
    /\ texts = 0 /\ drops = 0 /\ handled = {}

Next ==
    \/ StartTurn \/ Text \/ Call \/ NextStep \/ EndTurn \/ Drop
    \/ \E c \in DOMAIN calls : Finish(c) \/ Result(c)
    \/ Abort \/ ChatText \/ ChatEnd
    \/ OnGap \/ OnRunning \/ OnText \/ OnCall \/ OnResult

Spec == Init /\ [][Next]_vars

-----------------------------------------------------------------------------
(* A call whose result arrived has one row, with the arguments of that     *)
(* very call: not none because an earlier call had its id, not two because *)
(* the result is sent twice, not those of the call that had its place in a *)
(* turn that was cancelled.                                                *)
OneRowPerCall ==
    /\ \A c \in handled : Cardinality({r \in DOMAIN rows : rows[r].call = c}) = 1
    /\ \A r \in DOMAIN rows : rows[r].args = rows[r].call

(* The tree never shows a tool as running whose result was received,       *)
(* whichever connection was faster and whoever began the turn.             *)
RunningIsCurrent ==
    \A ctl \in Controllers : \A k \in Running(tree[ctl]) :
        (IF local THEN ctl = "local" ELSE ctl = "shared" /\ remote) => tree[ctl][k].call \notin handled

-----------------------------------------------------------------------------
(* What holds of every state, of which the properties are a part.          *)
Calls == [turn : Nat, step : Nat, index : Nat, id : Ids, state : {"ready", "finished", "done"}]
Events ==
    [type : {"running"}, value : BOOLEAN] \union [type : {"text", "gap"}]
        \union [type : {"call", "finished", "done"}, call : Nat]
OfCall(event) == event.type \in {"call", "finished", "done"}

\* An event of the call, and the one that announces it.
IsOf(i, c) == OfCall(stream[i]) /\ stream[i].call = c
Announces(i, c) == stream[i].type = "call" /\ stream[i].call = c

\* Its tool_call.ready is still on its way.
Coming(c) == \E i \in DOMAIN stream : Announces(i, c)

\* The calls of a step, and a call of an earlier step or turn.
SameStep(c) == {d \in DOMAIN calls : calls[d].turn = calls[c].turn /\ calls[d].step = calls[c].step}
Before(a, b) ==
    \/ calls[a].turn < calls[b].turn
    \/ calls[a].turn = calls[b].turn /\ calls[a].step < calls[b].step

\* No later call with the same id, or in the same place, has been announced.
LastOfId(c) ==
    ~Coming(c) /\ \A d \in DOMAIN calls : c < d /\ calls[d].id = calls[c].id => Coming(d)
LastOfKey(c) ==
    ~Coming(c) /\ \A d \in DOMAIN calls : c < d /\ Key(d) = Key(c) => Coming(d)

\* Calls in one place, or of one id, are of different steps or turns.
CallsFit ==
    /\ turn.number \in Nat /\ turn.step \in Nat
    /\ DOMAIN turn = {"number", "owner", "step"}
    /\ calls \in Seq(Calls)
    /\ \A c \in DOMAIN calls :
          /\ calls[c].turn <= turn.number
          /\ calls[c].turn = turn.number => calls[c].step <= turn.step
          /\ calls[c].turn = turn.number /\ calls[c].state # "done" => calls[c].step = turn.step
          /\ calls[c].index < Cardinality(SameStep(c))
    /\ \A a, b \in DOMAIN calls :
          a < b /\ (calls[a].id = calls[b].id \/ Key(a) = Key(b)) => Before(a, b)

\* A call is announced before its results, and after those of earlier steps.
StreamFits ==
    /\ stream \in Seq(Events)
    /\ \A i \in DOMAIN stream : OfCall(stream[i]) => stream[i].call \in DOMAIN calls
    /\ \A a, b \in DOMAIN calls : \A i \in DOMAIN stream :
          Before(a, b) /\ IsOf(i, a) => \E j \in DOMAIN stream : i < j /\ Announces(j, b)
    /\ \A a \in DOMAIN calls : \A i, j \in DOMAIN stream :
          Announces(i, a) /\ IsOf(j, a) => i <= j
    /\ \A a \in handled : ~Coming(a)

\* The renderer knows the last call announced of an id, and in a place.
RowsFit ==
    /\ handled \subseteq DOMAIN calls /\ rows \in Seq([call : Nat, args : Nat])
    /\ \A r \in DOMAIN rows : rows[r].call \in handled /\ rows[r].args = rows[r].call
    /\ \A r, s \in DOMAIN rows : rows[r].call = rows[s].call => r = s
    /\ \A c \in handled : \E r \in DOMAIN rows : rows[r].call = c
    /\ \A p, q \in pending : p.key = q.key => p = q
    /\ \A c \in DOMAIN calls :
          /\ LastOfId(c) => (calls[c].id \in completed <=> c \in handled)
          /\ LastOfKey(c) /\ c \notin handled => Pending(c) \in pending

\* What the tree has is in its place, and runs.
TreeFits ==
    /\ local \in BOOLEAN /\ remote \in BOOLEAN /\ DOMAIN tree = Controllers
    /\ \A ctl \in Controllers : \A k \in DOMAIN tree[ctl] :
          /\ tree[ctl][k] \in [call : DOMAIN calls, state : {"running", "aborting", "finished"}]
          /\ Key(tree[ctl][k].call) = k
    /\ RunningIsCurrent

ViewInv == CallsFit /\ StreamFits /\ RowsFit /\ TreeFits
=============================================================================
