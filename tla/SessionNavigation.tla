--------------------------- MODULE SessionNavigation ---------------------------
(***************************************************************************)
(* The terminal client (client/src/app/app.ts) between sessions: what the  *)
(* slash commands do to the session shown, to the sub-agents one may look  *)
(* at and to the status row.                                               *)
(*                                                                         *)
(* The main loop does one command at a time and waits for the server in    *)
(* the middle of it; events of the session are handled meanwhile.  What    *)
(* becomes of the lines of the user is TerminalClient's.                   *)
(***************************************************************************)
EXTENDS Naturals, Sequences, FiniteSets

CONSTANTS
    Sessions,
    None,        \* no session
    MaxEvents,   \* bound: events the server emits
    MaxCommands  \* bound: commands of the user

\* What the constants are.
Assumptions ==
    /\ None \notin Sessions
    /\ {MaxEvents, MaxCommands} \subseteq Nat

VARIABLES
    turn,       \* the sessions that run a turn
    compacting, \* of each session, who compacts it: "other" or "own"
    view,       \* config.agentId
    root, subs, \* rootAgentId, subagentIds
    stream,     \* the session whose events are followed, and whether the
                \* connection is open
    wire,       \* events of it that were not handled
    main,       \* the main loop: the command it does
    remote,     \* remoteTurnRunning
    status,     \* statusValues, and localCompactionActive
    count,      \* events and commands so far
    muffled     \* history: compactions overlapped, or one was left or met

nvars == <<turn, compacting, view, root, subs, stream, wire, main, remote, status, count, muffled>>

server == <<turn, compacting>>
place == <<view, root, subs>>

Idle == [pc |-> "idle", kind |-> None, target |-> None, running |-> FALSE]

Init ==
    /\ turn \in SUBSET Sessions /\ compacting = [s \in Sessions |-> {}]
    /\ view \in Sessions /\ root = view /\ subs = {}
    /\ stream = [of |-> view, open |-> TRUE] /\ wire = <<>>
    /\ main = Idle
    /\ remote = (view \in turn)
    /\ status = [turn |-> IF remote THEN "turn" ELSE "none", compaction |-> FALSE, local |-> FALSE]
    /\ count = [events |-> 0, commands |-> 0]
    /\ muffled = FALSE

-----------------------------------------------------------------------------
(* The server.  An event goes to the client if it follows the session.     *)
Event(kind, value) == [kind |-> kind, value |-> value]
Emit(s, e) ==
    /\ count.events < MaxEvents /\ count' = [count EXCEPT !.events = @ + 1]
    /\ wire' = IF stream.of = s THEN Append(wire, e) ELSE wire
    /\ UNCHANGED <<place, stream, main, remote, status>>

\* Turns of other clients.
BeginTurn(s) ==
    /\ s \notin turn /\ turn' = turn \cup {s}
    /\ Emit(s, Event("turn", TRUE)) /\ UNCHANGED <<compacting, muffled>>
EndTurn(s) ==
    /\ s \in turn /\ turn' = turn \ {s}
    /\ main.pc = "turn" => s # view
    /\ Emit(s, Event("turn", FALSE)) /\ UNCHANGED <<compacting, muffled>>

\* A delegated session reports to the turn that started it.
Progress(s, child) ==
    /\ s \in turn /\ child # s
    /\ Emit(s, Event("progress", child)) /\ UNCHANGED <<server, muffled>>

\* _compact_messages, in a turn or for another client, or for this one.
CompactionBegins(s, who) ==
    /\ who \notin compacting[s]
    /\ who = "own" => main.pc = "compact" /\ s = view
    /\ compacting' = [compacting EXCEPT ![s] = @ \cup {who}]
    /\ muffled' = (muffled \/ compacting[s] # {} \/ (s = view /\ main.pc = "compact" /\ who = "other"))
    /\ Emit(s, Event("compaction", TRUE)) /\ UNCHANGED turn
CompactionEnds(s, who) ==
    /\ who \in compacting[s]
    /\ compacting' = [compacting EXCEPT ![s] = @ \ {who}]
    /\ Emit(s, Event("compaction", FALSE)) /\ UNCHANGED <<turn, muffled>>

-----------------------------------------------------------------------------
(* The status row. *)

\* setCoordinatedStatus: a compaction comes before the turn.
Shown(st) == IF st.compaction THEN "compacting" ELSE st.turn

LocalTurn == main.pc = "turn"

\* applyTurnStatus: a local turn has a status of its own.
ApplyTurnStatus(running) ==
    /\ remote' = running
    /\ status' = IF LocalTurn THEN status
                 ELSE [status EXCEPT !.turn = IF running THEN "turn" ELSE "none"]

\* The spinners write their status again.
Tick ==
    /\ \/ remote /\ ~LocalTurn /\ status' = [status EXCEPT !.turn = "turn"]
       \/ status.local /\ status' = [status EXCEPT !.turn = "compacting"]
    /\ UNCHANGED <<server, place, stream, wire, main, remote, count, muffled>>

-----------------------------------------------------------------------------
(* Events. *)

\* Faulty: the root is one of its own sub-agents.
RememberAny(child) == subs \cup {child}

\* rememberSubagentId
Remember(child) == IF child = root THEN subs ELSE subs \cup {child}

Deliver ==
    /\ stream.open /\ wire # <<>> /\ wire' = Tail(wire)
    /\ LET e == Head(wire) IN
       CASE e.kind = "turn" ->
              /\ ApplyTurnStatus(e.value) /\ UNCHANGED subs
         [] e.kind = "progress" ->
              /\ subs' = Remember(e.value) /\ UNCHANGED <<remote, status>>
         [] e.kind = "compaction" ->   \* setCompactionStatusHook
              /\ status' = IF status.local THEN status ELSE [status EXCEPT !.compaction = e.value]
              /\ UNCHANGED <<remote, subs>>
    /\ UNCHANGED <<server, view, root, stream, main, count, muffled>>

-----------------------------------------------------------------------------
(* Commands. *)
Command ==
    /\ main.pc = "idle"
    /\ count.commands < MaxCommands /\ count' = [count EXCEPT !.commands = @ + 1]

\* resolveSubagentTarget: "..", or a session known to be started here.
SubagentTargets == {root} \cup subs

\* /session, /session new, /agent and /sub: the old session is left,
Leave(kind, target) ==
    /\ Command
    /\ kind = "sub" => target \in SubagentTargets /\ target # view
    /\ main' = [pc |-> "hydrate", kind |-> kind, target |-> target, running |-> FALSE]
    /\ ApplyTurnStatus(FALSE)
    /\ stream' = [of |-> None, open |-> FALSE] /\ wire' = <<>>
    /\ muffled' = (muffled \/ status.compaction)
    /\ UNCHANGED <<server, place>>

\* the new one is read (renderSwitchedSession),
Hydrate ==
    /\ main.pc = "hydrate"
    /\ main' = [main EXCEPT !.pc = "apply", !.running = main.target \in turn]
    /\ stream' = [of |-> main.target, open |-> FALSE]
    /\ muffled' = (muffled \/ compacting[main.target] # {})
    /\ UNCHANGED <<server, place, wire, remote, status, count>>
Apply ==
    /\ main.pc = "apply" /\ main' = [main EXCEPT !.pc = "open"]
    /\ ApplyTurnStatus(main.running)
    /\ UNCHANGED <<server, place, stream, wire, count, muffled>>

\* its events are followed from there,
OpenStream ==
    /\ main.pc = "open" /\ main' = [main EXCEPT !.pc = "finish"]
    /\ stream' = [stream EXCEPT !.open = TRUE]
    /\ UNCHANGED <<server, place, wire, remote, status, count, muffled>>

\* and, when it is no sub-agent, it is the new root: resetSubagentNavigation.
Reset(kind, target) ==
    IF kind = "sub" THEN [root |-> root, subs |-> subs] ELSE [root |-> target, subs |-> {}]
Finish ==
    /\ main.pc = "finish" /\ main' = Idle
    /\ LET after == Reset(main.kind, main.target) IN root' = after.root /\ subs' = after.subs
    /\ view' = main.target
    /\ UNCHANGED <<server, stream, wire, remote, status, count, muffled>>

\* runChatTurn, as far as the status goes.
BeginOwnTurn ==
    /\ Command /\ view \notin turn /\ turn' = turn \cup {view}
    /\ wire' = Append(wire, Event("turn", TRUE))
    /\ main' = [Idle EXCEPT !.pc = "turn"]
    /\ status' = [status EXCEPT !.turn = "turn"]
    /\ UNCHANGED <<compacting, place, stream, remote, muffled>>
EndOwnTurn ==
    /\ LocalTurn /\ view \in turn /\ turn' = turn \ {view}
    /\ wire' = Append(wire, Event("turn", FALSE))
    /\ main' = Idle /\ remote' = FALSE
    /\ status' = [status EXCEPT !.turn = "none"]
    /\ UNCHANGED <<compacting, place, stream, count, muffled>>

\* /compact; while a turn runs it is refused, which ends the client.
BeginCompact ==
    /\ Command /\ view \notin turn
    /\ main' = [Idle EXCEPT !.pc = "compact"]
    /\ status' = [status EXCEPT !.local = TRUE, !.turn = "compacting"]
    /\ muffled' = (muffled \/ compacting[view] # {} \/ wire # <<>>)
    /\ UNCHANGED <<server, place, stream, wire, remote>>
EndCompact ==
    /\ main.pc = "compact" /\ "own" \notin compacting[view] /\ main' = Idle
    /\ status' = [status EXCEPT !.local = FALSE, !.turn = "none"]
    /\ UNCHANGED <<server, place, stream, wire, remote, count, muffled>>

-----------------------------------------------------------------------------
(* /quit, the end of the input, and a command that throws end the client.  *)
Waits == main.pc \in {"hydrate", "open", "finish", "compact"}
Quit ==
    /\ main.pc = "idle" \/ Waits
    /\ main' = [Idle EXCEPT !.pc = "closed"]
    /\ stream' = [of |-> None, open |-> FALSE] /\ wire' = <<>> /\ remote' = FALSE
    /\ status' = [turn |-> "none", compaction |-> FALSE, local |-> FALSE]
    /\ UNCHANGED <<server, place, count, muffled>>

Next ==
    \/ \E s \in Sessions :
          \/ BeginTurn(s) \/ EndTurn(s)
          \/ \E child \in Sessions : Progress(s, child)
          \/ \E who \in {"other", "own"} : CompactionBegins(s, who) \/ CompactionEnds(s, who)
          \/ \E kind \in {"session", "sub"} : Leave(kind, s)
    \/ Tick \/ Deliver
    \/ Hydrate \/ Apply \/ OpenStream \/ Finish
    \/ BeginOwnTurn \/ EndOwnTurn \/ BeginCompact \/ EndCompact
    \/ Quit

Spec == Init /\ [][Next]_nvars

-----------------------------------------------------------------------------
Quiet == main.pc = "idle" /\ wire = <<>>

(* /sub .. and the list of sub-agents are the only way back from a         *)
(* sub-agent: when no command is under way the session shown is the root   *)
(* or one of the sub-agents, the root is none of them, and the events      *)
(* followed are those of the session shown.                                *)
CanComeBack ==
    /\ root \notin subs
    /\ main.pc = "idle" =>
          /\ view \in {root} \cup subs
          /\ stream = [of |-> view, open |-> TRUE]

(* setCoordinatedStatus: once all events are handled, the status row says  *)
(* that the session shown is compacted exactly when another client or its  *)
(* own turn does that, and a turn is shown only while one runs.  A         *)
(* compaction that was under way when the session was left or entered, or  *)
(* beside another one, is not told apart by the client.                    *)
StatusIsTrue ==
    Quiet =>
      /\ remote = (view \in turn)
      /\ ~muffled => (Shown(status) = "compacting") = (compacting[view] # {})
      /\ Shown(status) = "turn" => view \in turn

-----------------------------------------------------------------------------
\* What holds of every state, and is why the status row is true.

Events == [kind : {"turn", "compaction"}, value : BOOLEAN] \cup [kind : {"progress"}, value : Sessions]
Commands ==
    [pc : {"idle", "hydrate", "apply", "open", "finish", "turn", "compact", "closed"},
     kind : {None, "session", "sub"}, target : Sessions \cup {None}, running : BOOLEAN]
Statuses == [turn : {"none", "turn", "compacting"}, compaction : BOOLEAN, local : BOOLEAN]

TypeOK ==
    /\ turn \subseteq Sessions /\ compacting \in [Sessions -> SUBSET {"other", "own"}]
    /\ view \in Sessions /\ root \in Sessions /\ subs \subseteq Sessions
    /\ stream \in [of : Sessions \cup {None}, open : BOOLEAN] /\ wire \in Seq(Events)
    /\ main \in Commands /\ remote \in BOOLEAN /\ status \in Statuses /\ muffled \in BOOLEAN

Leaving == main.pc \in {"hydrate", "apply", "open", "finish"}

\* The session shown, and the one a command goes to, are known.
PlaceIsKnown ==
    /\ root \notin subs /\ view \in SubagentTargets
    /\ Leaving => main.target \in Sessions
    /\ Leaving /\ main.kind = "sub" => main.target \in SubagentTargets
    /\ Leaving => main.kind \in {"session", "sub"}

\* Whose events are followed.
StreamIsOfView ==
    /\ main.pc \in {"idle", "turn", "compact"} => stream = [of |-> view, open |-> TRUE]
    /\ main.pc \in {"hydrate", "closed"} => stream = [of |-> None, open |-> FALSE] /\ wire = <<>>
    /\ main.pc \in {"apply", "open"} => stream = [of |-> main.target, open |-> FALSE]
    /\ main.pc = "finish" => stream = [of |-> main.target, open |-> TRUE]

\* The last event of a kind, among those not handled, tells what is; when there
\* is none, the client knows.
Newest(events, kind, value) ==
    \A i \in DOMAIN events :
      events[i].kind = kind /\ (\A j \in DOMAIN events : j > i => events[j].kind # kind)
        => (events[i].value = TRUE <=> value)
Told(events, kind, known, value) ==
    /\ Newest(events, kind, value)
    /\ (\A i \in DOMAIN events : events[i].kind # kind) => (known <=> value)

Known == IF main.pc = "apply" THEN main.running ELSE remote
TurnsAreTold == stream.of # None => Told(wire, "turn", Known, stream.of \in turn)

\* While the client compacts, it takes no notice of the events of it.
CompactionsAreTold ==
    ~muffled =>
      /\ \A s \in Sessions : \A a, b \in compacting[s] : a = b
      /\ main.pc = "hydrate" => ~status.compaction
      /\ stream.of # None /\ main.pc # "compact" =>
           Told(wire, "compaction", status.compaction, compacting[stream.of] # {})
      /\ main.pc = "compact" =>
           /\ ~status.compaction /\ compacting[view] \subseteq {"own"}
           /\ Newest(wire, "compaction", compacting[view] # {})

StatusFits ==
    /\ main.pc # "turn" /\ status.turn = "turn" => remote
    /\ status.local = (main.pc = "compact")
    /\ main.pc # "compact" => status.turn # "compacting"

NavigationInv ==
    /\ TypeOK /\ PlaceIsKnown /\ StreamIsOfView
    /\ TurnsAreTold /\ CompactionsAreTold /\ StatusFits
=============================================================================
