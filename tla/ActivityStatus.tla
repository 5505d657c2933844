---------------------------- MODULE ActivityStatus ----------------------------
(***************************************************************************)
(* The activity row of the terminal client                                 *)
(* (client/src/ui/activity-status.ts): the tools of the step that runs and *)
(* under a delegated session one line of what it does, which may not       *)
(* change so often that nobody can read it.                                *)
(*                                                                         *)
(* The events of the turn come in order on one connection; the text of the *)
(* answer, and its end, come on another (see TerminalClient), so that they *)
(* fall between any two events.                                            *)
(***************************************************************************)
EXTENDS Naturals, Sequences, FiniteSets, SequencesExt

CONSTANTS
    Delegated,   \* the calls 1 .. MaxCalls that start a session
    MaxRows,     \* MAX_VISIBLE_TOOL_ROWS
    MinVisible,  \* DEFAULT_DELEGATED_STATUS_MIN_VISIBLE_MS
    RevealDelay, \* DEFAULT_DELEGATED_TOOL_REVEAL_DELAY_MS
    MaxCalls,    \* bound: the calls of a turn
    MaxEvents,   \* bound: the events of a turn
    MaxTime,     \* bound: the clock
    None         \* no timer

\* What the constants are.
Assumptions ==
    /\ {MinVisible, RevealDelay, MaxCalls, MaxEvents, MaxTime} \subseteq Nat
    /\ MaxRows \in Nat \ {0}
    /\ Delegated \subseteq 1 .. MaxCalls
    /\ None \notin Nat

VARIABLES
    log,       \* the events of the turn
    turn,      \* whether it runs
    handled,   \* how many events the client handled
    now,       \* the clock
    activity,  \* active, aborting, and the rows of the tools in their order
    timers     \* of the delegated sessions: when their timer is due, or None

acvars == <<log, turn, handled, now, activity, timers>>

Calls == 1 .. MaxCalls
Untimed == [c \in Calls |-> None]
Off == [active |-> FALSE, aborting |-> FALSE, tools |-> <<>>]
Least(S) == CHOOSE n \in S : \A m \in S : n <= m
Greatest(S) == CHOOSE n \in S : \A m \in S : n >= m

-----------------------------------------------------------------------------
(* A delegated session: what it does, its tools, and the line it has.      *)
Line(kind, id, state) == [kind |-> kind, id |-> id, state |-> state]

\* delegatedSessionFrom
Starting ==
    [phase |-> "starting", reasoning |-> 0, tools |-> <<>>,
     line |-> Line("phase", 0, "starting"), shownAt |-> now]

\* removeSettledDelegatedTools
Unsettled(tools) == SelectSeq(tools, LAMBDA t : t.state = "running")

\* updateDelegatedSession; it has one tool after the other.
UpdateDelegated(d, what) ==
    CASE what = "reasoning" -> [d EXCEPT !.reasoning = @ + 1, !.phase = "thinking", !.tools = Unsettled(@)]
      [] what = "call" ->
           [d EXCEPT !.phase = "working",
                     !.tools = Append(@, [state |-> "running", eligible |-> now + RevealDelay])]
      [] what \in {"completed", "failed"} ->
           [d EXCEPT !.tools = [i \in DOMAIN @ |->
               IF i = Len(@) /\ @[i].state = "running" THEN [@[i] EXCEPT !.state = what] ELSE @[i]]]
      [] what = "text" -> [d EXCEPT !.phase = "writing", !.tools = Unsettled(@)]
      [] what = "error" -> [d EXCEPT !.phase = "error", !.tools = <<>>]

\* delegatedStatusCandidate: a tool that failed or runs for long, else the
\* reasoning, else the phase.
Candidate(d) ==
    LET telling == {i \in DOMAIN d.tools : \/ d.tools[i].state = "failed"
                                           \/ d.tools[i].state = "running" /\ d.tools[i].eligible <= now}
    IN  IF telling # {} THEN Line("tool", Greatest(telling), d.tools[Greatest(telling)].state)
        ELSE IF d.reasoning > 0 THEN Line("reasoning", d.reasoning, "")
        ELSE Line("phase", 0, d.phase)

\* reconcileDelegatedStatus: the line, and when the timer is due.
NewLine(d) ==
    IF Candidate(d) # d.line /\ now >= d.shownAt + MinVisible
    THEN [d EXCEPT !.line = Candidate(d), !.shownAt = now] ELSE d
Waiting(d) == IF Candidate(d) # d.line /\ now < d.shownAt + MinVisible THEN {d.shownAt + MinVisible} ELSE {}
Hidden(d) == {d.tools[i].eligible : i \in {j \in DOMAIN d.tools :
                  d.tools[j].state = "running" /\ d.tools[j].eligible > now}}

\* Faulty: a tool that is to be revealed is forgotten.
DueWaiting(d) == IF Waiting(d) = {} THEN None ELSE Least(Waiting(d))

Due(d) == IF Waiting(d) \cup Hidden(d) = {} THEN None ELSE Least(Waiting(d) \cup Hidden(d))

-----------------------------------------------------------------------------
(* The handlers.  They take and give the activity and the timers.          *)
Has(a, c) == \E i \in DOMAIN a.tools : a.tools[i].call = c
Of(a, c) == CHOOSE i \in DOMAIN a.tools : a.tools[i].call = c
Running(a) == {i \in DOMAIN a.tools : a.tools[i].state \in {"running", "aborting"}}

\* clearToolActivities, and the timers it clears.
Clear(st) == [st EXCEPT !.a.tools = <<>>, !.timers = Untimed]

\* upsertTool: a call comes as it is written and again when it is whole.
Upsert(st, c) ==
    IF Has(st.a, c) THEN [st EXCEPT !.a.tools[Of(st.a, c)].state = IF @ = "aborting" THEN @ ELSE "running"]
    ELSE [st EXCEPT !.a.tools = Append(@, [call |-> c, state |-> "running", delegated |-> Starting])]

\* finishTool, settleDelegatedSession
Finish(st, c, state) ==
    IF ~Has(st.a, c) THEN st
    ELSE LET i == Of(st.a, c) IN
         [st EXCEPT !.a.tools[i].state = state,
                    !.a.tools[i].delegated.line = Line("result", 0, state),
                    !.timers[c] = None]

\* settleCompletedBatch
Settle(st) == IF Running(st.a) = {} THEN Clear(st) ELSE st

\* noteDelegatedSessionProgress
NoteProgress(st, c, what) ==
    IF ~Has(st.a, c) THEN st
    ELSE LET i == Of(st.a, c)
             d == UpdateDelegated(st.a.tools[i].delegated, what)
         IN  [st EXCEPT !.a.tools[i].delegated = NewLine(d), !.timers[c] = Due(NewLine(d))]

\* noteToolActivity, noteToolCallPreview, noteToolResult,
\* noteReasoningActivity, noteDelegatedSessionProgress
Handle(st, e) ==
    LET awake == [st EXCEPT !.a.aborting = FALSE] IN
    CASE ~st.a.active -> st
      [] e.kind \in {"preview", "call"} -> Upsert(awake, e.call)
      [] e.kind = "result" -> Settle(Finish(awake, e.call, e.what))
      [] e.kind = "reasoning" -> Clear(awake)
      [] OTHER -> NoteProgress(st, e.call, e.what)

Become(st) == activity' = st.a /\ timers' = st.timers
Current == [a |-> activity, timers |-> timers]
Started == [a |-> [Off EXCEPT !.active = TRUE], timers |-> Untimed]

-----------------------------------------------------------------------------
Init ==
    /\ log = <<>> /\ turn = TRUE /\ handled = 0 /\ now = 0
    /\ activity = Started.a /\ timers = Untimed

(* The server: the calls of a step run beside each other, and a step       *)
(* follows when all have results.                                          *)
Event(kind, call, what) == [kind |-> kind, call |-> call, what |-> what]
Happened(kind, c) == \E i \in DOMAIN log : log[i].kind = kind /\ log[i].call = c
Open == {c \in Calls : Happened("call", c) /\ ~Happened("result", c)}

Emit(e) ==
    /\ turn /\ Len(log) < MaxEvents /\ log' = Append(log, e)
    /\ UNCHANGED <<turn, handled, now, activity, timers>>
EmitPreview(c) ==
    /\ ~Happened("preview", c) /\ ~Happened("call", c)
    /\ Emit(Event("preview", c, ""))
EmitCall(c) ==
    /\ ~Happened("call", c) /\ \A b \in 1 .. c - 1 : Happened("call", b)
    /\ Emit(Event("call", c, ""))
EmitProgress(c, what) ==
    /\ c \in Open \cap Delegated
    /\ Emit(Event("progress", c, what))
EmitResult(c, what) == c \in Open /\ Emit(Event("result", c, what))
EmitReasoning == Open = {} /\ Emit(Event("reasoning", 0, ""))

-----------------------------------------------------------------------------
Deliver ==
    /\ handled < Len(log) /\ handled' = handled + 1
    /\ Become(Handle(Current, log[handled + 1]))
    /\ UNCHANGED <<log, turn, now>>

\* A client comes to the session while the turn runs: start, rehydrate.  What
\* was written of a call is not in the log.
Rehydrate ==
    /\ turn /\ handled' = Len(log)
    /\ Become(FoldLeft(Handle, Started, SelectSeq(log, LAMBDA e : e.kind # "preview")))
    /\ UNCHANGED <<log, turn, now>>

\* beginTextStreaming
TextStreams ==
    /\ activity.active /\ Become(Clear([Current EXCEPT !.a.aborting = FALSE]))
    /\ UNCHANGED <<log, turn, handled, now>>

\* showAborting
ShowAborting ==
    /\ activity.active
    /\ activity' = [activity EXCEPT !.aborting = TRUE,
          !.tools = [i \in DOMAIN @ |-> IF @[i].state = "running" THEN [@[i] EXCEPT !.state = "aborting"] ELSE @[i]]]
    /\ UNCHANGED <<log, turn, handled, now, timers>>

\* stop: the turn ended, however much of its events is still to come.
EndTurn ==
    /\ turn /\ turn' = FALSE
    /\ Become([a |-> Off, timers |-> Clear(Current).timers])
    /\ UNCHANGED <<log, handled, now>>

\* The timer of a delegated session.
Fire(c) ==
    /\ timers[c] # None /\ timers[c] <= now
    /\ IF Has(activity, c)
       THEN LET i == Of(activity, c)
                d == activity.tools[i].delegated
            IN  Become([a |-> [activity EXCEPT !.tools[i].delegated = NewLine(d)],
                        timers |-> [timers EXCEPT ![c] = Due(NewLine(d))]])
       ELSE Become([a |-> activity, timers |-> [timers EXCEPT ![c] = None]])
    /\ UNCHANGED <<log, turn, handled, now>>

Tick ==
    /\ now < MaxTime /\ now' = now + 1
    /\ UNCHANGED <<log, turn, handled, activity, timers>>

Next ==
    \/ \E c \in Calls :
          \/ EmitPreview(c) \/ EmitCall(c) \/ Fire(c)
          \/ \E what \in {"reasoning", "call", "completed", "failed", "text", "error"} : EmitProgress(c, what)
          \/ \E what \in {"completed", "failed"} : EmitResult(c, what)
    \/ EmitReasoning \/ Deliver \/ Rehydrate \/ TextStreams \/ ShowAborting \/ EndTurn \/ Tick

Spec == Init /\ [][Next]_acvars

-----------------------------------------------------------------------------

\* renderToolRows: the last row makes room for a failure below it.
Rows(tools) ==
    LET shown == SubSeq(tools, 1, IF Len(tools) < MaxRows THEN Len(tools) ELSE MaxRows)
        failures == {i \in MaxRows + 1 .. Len(tools) : tools[i].state = "failed"}
    IN  IF failures = {} THEN shown ELSE [shown EXCEPT ![Len(shown)] = tools[Least(failures)]]

(* settleCompletedBatch, and the text that falls between the events: when  *)
(* all events are handled and no call is open, no tool is shown as         *)
(* running; and while tools are shown one that failed is among the rows,   *)
(* however many there are.                                                 *)
RowsTellTheStep ==
    /\ handled = Len(log) /\ Open = {}
       /\ (\A c \in Calls : Happened("preview", c) => Happened("call", c)) =>
          activity.tools = <<>>
    /\ (\E i \in DOMAIN activity.tools : activity.tools[i].state = "failed") =>
          \E i \in DOMAIN Rows(activity.tools) : Rows(activity.tools)[i].state = "failed"

(* reconcileDelegatedStatus: the line of a running session is the one it   *)
(* should have, or a timer is set that will change it; a timer is set only *)
(* for a session whose row is there, and none is when the turn has ended.  *)
TimersAccounted ==
    /\ \A i \in DOMAIN activity.tools :
          LET tool == activity.tools[i] IN
          tool.state \in {"running", "aborting"} /\ timers[tool.call] = None =>
              tool.delegated.line = Candidate(tool.delegated)
    /\ \A c \in Calls : timers[c] # None =>
          \E i \in Running(activity) : activity.tools[i].call = c

(* MinVisible: the line of a session that goes on is not replaced before   *)
(* it was there long enough to be read.                                    *)
LineStays ==
    \A i \in DOMAIN activity.tools \cap DOMAIN activity'.tools :
       LET old == activity.tools[i]
           new == activity'.tools[i]
       IN  old.call = new.call /\ new.state \in {"running", "aborting"}
           /\ old.delegated.line # new.delegated.line =>
              now >= old.delegated.shownAt + MinVisible \/ new.delegated.line = Starting.line
LineIsReadable == [][LineStays]_acvars
=============================================================================
