---------------------------- MODULE AgentSteering ----------------------------
(***************************************************************************)
(* One agent session of the chump server: the chat stream that drives a    *)
(* turn of the model and the messages that clients steer into that turn    *)
(* while it runs (server/chump_server/agent.py).                           *)
(*                                                                         *)
(* A steered message is handed to the ai-query turn at once and is also    *)
(* put in two lists of the agent that must stay aligned with one another:  *)
(* _pending_steering_events (what clients are shown) and                   *)
(* _pending_steering_contents (what a follow-up turn is given).  They are  *)
(* changed under _steering_lock by the steer and cancel requests, by the   *)
(* handler of a step.started event and by the drain that follows a turn.   *)
(*                                                                         *)
(* The ai-query turn itself is external code: it keeps the messages it was *)
(* steered with, gives them to the model at a step boundary, publishes     *)
(* step.started there, and its events are read in order by the stream.     *)
(***************************************************************************)
EXTENDS Naturals, Sequences, SequencesExt, FiniteSets

CONSTANTS
    Clients,    \* concurrent requests to steer_current_turn / cancel_steering
    Stream,     \* the coroutine of ChumpAgent.stream
    Free,       \* the steering lock has no holder
    MaxSteers,  \* bound: messages ever steered
    MaxSteps,   \* bound: step boundaries of one turn
    MaxTurns    \* bound: turns of the session

ASSUME ActorsDistinct == Stream \notin Clients /\ Free \notin Clients /\ Stream # Free
ASSUME BoundsAssumption == MaxSteers \in Nat /\ MaxSteps \in Nat /\ MaxTurns \in Nat

VARIABLES
    lock,             \* holder of _steering_lock
    pendingEvents,    \* _pending_steering_events, as message ids
    pendingContents,  \* _pending_steering_contents, as message ids
    shownQueue,       \* the steering queue clients were last sent
    running,          \* the turn status clients were last sent
    sp,               \* where the coroutine of stream() stands
    drainedEvents,    \* drained_events not announced yet
    drainedContents,  \* drained_contents, the input of the follow-up turn
    outcome,          \* how the last stream left its loop
    announcedRunning, \* the local announced_running
    signalled,        \* signal.aborted: the HTTP caller went away
    turnNo,           \* which turn session.active_turn is
    phase,            \* the state of that turn
    turnOutcome,      \* what turn.events() / turn.result() end with
    held,             \* steered messages the turn has not given to the model
    unread,           \* step.started events published and not yet read
    steps,            \* step boundaries of this turn
    abortAsked,       \* session.abort was called for this turn
    delivered,        \* history: messages given to the model
    cpc,              \* where each request stands
    captured,         \* the turn each request read on entry
    target,           \* the message or the index a request works on
    removed,          \* the local `removed` of cancel_steering
    nextId,           \* the id the next steered message gets
    announced,        \* history: user_message events of steered messages
    cancelled         \* history: messages whose request returned "canceled"

mirror == <<pendingEvents, pendingContents, shownQueue>>
stream == <<sp, drainedEvents, drainedContents, outcome, announcedRunning, signalled>>
engine == <<turnNo, phase, turnOutcome, held, unread, steps, abortAsked, delivered>>
request == <<cpc, captured, target, removed, nextId, cancelled>>
vars == <<lock, mirror, running, stream, engine, request, announced>>

Ids == Nat \ {0}
StreamPCs == {"idle", "starting", "consuming", "announcing", "finalizing",
              "draining", "reporting", "ending"}
SteerPCs == {"steerWait", "steerCall", "steerMirror"}
CancelPCs == {"cancelWait", "cancelCall", "cancelMirror"}
Outcomes == {"none", "ok", "abort", "signal", "error"}

ListsOK ==
    /\ pendingEvents \in Seq(Ids) /\ pendingContents \in Seq(Ids)
    /\ shownQueue \in Seq(Ids) /\ announced \in Seq(Ids)
    /\ drainedEvents \in Seq(Ids) /\ drainedContents \in Seq(Ids)

StreamOK ==
    /\ sp \in StreamPCs /\ outcome \in Outcomes
    /\ announcedRunning \in BOOLEAN /\ signalled \in BOOLEAN /\ running \in BOOLEAN

EngineOK ==
    /\ phase \in {"none", "running", "done"} /\ turnOutcome \in Outcomes
    /\ abortAsked \in BOOLEAN
    /\ turnNo \in Nat /\ unread \in Nat /\ steps \in Nat
    /\ held \subseteq Ids /\ delivered \subseteq Ids

RequestsOK ==
    /\ lock \in Clients \cup {Stream, Free}
    /\ nextId \in Ids /\ cancelled \subseteq Ids
    /\ cpc \in [Clients -> {"ready"} \cup SteerPCs \cup CancelPCs]
    /\ captured \in [Clients -> Nat]
    /\ target \in [Clients -> Nat]
    /\ removed \in [Clients -> BOOLEAN]

TypeOK == ListsOK /\ StreamOK /\ EngineOK /\ RequestsOK

Init ==
    /\ lock = Free
    /\ pendingEvents = <<>> /\ pendingContents = <<>> /\ shownQueue = <<>>
    /\ running = FALSE
    /\ sp = "idle" /\ drainedEvents = <<>> /\ drainedContents = <<>>
    /\ outcome = "none" /\ announcedRunning = FALSE /\ signalled = FALSE
    /\ turnNo = 0 /\ phase = "none" /\ turnOutcome = "none"
    /\ held = {} /\ unread = 0 /\ steps = 0
    /\ abortAsked = FALSE /\ delivered = {}
    /\ cpc = [c \in Clients |-> "ready"]
    /\ captured = [c \in Clients |-> 0]
    /\ target = [c \in Clients |-> 0]
    /\ removed = [c \in Clients |-> FALSE]
    /\ nextId = 1 /\ announced = <<>> /\ cancelled = {}

(***************************************************************************)
(* What both kinds of request test, before the lock and again under it:    *)
(* the turn they captured is the active one and is not done.               *)
(***************************************************************************)
TurnActive == phase = "running"
StillActive(c) == TurnActive /\ captured[c] = turnNo

\* A request returns: it keeps nothing.
Return(c) ==
    /\ cpc' = [cpc EXCEPT ![c] = "ready"]
    /\ captured' = [captured EXCEPT ![c] = 0]
    /\ target' = [target EXCEPT ![c] = 0]
    /\ removed' = [removed EXCEPT ![c] = FALSE]

-----------------------------------------------------------------------------
(* Faulty forms of the actions below, each a mistake the code could make.  *)
(* They are no part of Spec; they show which property notices the mistake. *)

\* The request trusts the check it made before it waited for the lock.
SteerEnterUnchecked(c) ==
    /\ cpc[c] = "steerWait" /\ lock = Free
    /\ lock' = c /\ cpc' = [cpc EXCEPT ![c] = "steerCall"]
    /\ UNCHANGED <<mirror, running, stream, engine, captured, target, removed,
                   nextId, cancelled, announced>>

\* The lists lose the message although the turn no longer held it.
CancelMirrorAlways(c) ==
    /\ cpc[c] = "cancelMirror"
    /\ pendingContents' = RemoveAt(pendingContents, target[c])
    /\ pendingEvents' = RemoveAt(pendingEvents, target[c])
    /\ cancelled' = cancelled \cup {pendingEvents[target[c]]}
    /\ shownQueue' = pendingEvents'
    /\ lock' = Free /\ Return(c)
    /\ UNCHANGED <<running, stream, engine, nextId, announced>>

\* Only the list of events loses the message.
CancelMirrorHalf(c) ==
    /\ cpc[c] = "cancelMirror"
    /\ pendingEvents' = IF removed[c] THEN RemoveAt(pendingEvents, target[c])
                                      ELSE pendingEvents
    /\ cancelled' = IF removed[c] THEN cancelled \cup {pendingEvents[target[c]]}
                                  ELSE cancelled
    /\ shownQueue' = pendingEvents'
    /\ lock' = Free /\ Return(c)
    /\ UNCHANGED <<pendingContents, running, stream, engine, nextId, announced>>

\* The lock is not released when a message was announced under it.
AnnounceKeepsLock ==
    /\ sp = "announcing" /\ pendingEvents = <<>>
    /\ sp' = "consuming"
    /\ UNCHANGED <<lock, mirror, running, drainedEvents, drainedContents, outcome,
                   announcedRunning, signalled, engine, request, announced>>

-----------------------------------------------------------------------------
(* The external ai-query turn.                                             *)

(* A step boundary: the held messages go to the model and step.started is  *)
(* published.                                                              *)
EngineBoundary ==
    /\ phase = "running" /\ ~abortAsked /\ steps < MaxSteps
    /\ held' = {} /\ delivered' = delivered \cup held
    /\ unread' = unread + 1 /\ steps' = steps + 1
    /\ UNCHANGED <<lock, mirror, running, stream, turnNo, phase, turnOutcome,
                   abortAsked, request, announced>>

(* The turn ends: with a result, with an error of the provider or a tool,  *)
(* or with AbortError once an abort was asked for.                         *)
EngineFinish ==
    /\ phase = "running"
    /\ phase' = "done"
    /\ turnOutcome' \in {"ok", "error"} \cup (IF abortAsked THEN {"abort"} ELSE {})
    /\ UNCHANGED <<lock, mirror, running, stream, turnNo, held, unread, steps,
                   abortAsked, delivered, request, announced>>

-----------------------------------------------------------------------------
(* ChumpAgent.stream.                                                      *)

BeginStream ==
    /\ sp = "idle" /\ turnNo < MaxTurns
    /\ sp' = "starting" /\ outcome' = "none"
    /\ announcedRunning' = FALSE /\ signalled' = FALSE
    /\ drainedEvents' = <<>> /\ drainedContents' = <<>>
    /\ UNCHANGED <<lock, mirror, running, engine, request, announced>>

(* _start_turn: the new ai-query turn is given the drained contents (none  *)
(* the first time round) and turn_status is broadcast.                     *)
StartTurn ==
    /\ sp = "starting" /\ turnNo < MaxTurns
    /\ sp' = "consuming" /\ announcedRunning' = TRUE
    /\ turnNo' = turnNo + 1 /\ phase' = "running" /\ turnOutcome' = "none"
    /\ held' = {} /\ delivered' = delivered \cup ToSet(drainedContents)
    /\ unread' = 0 /\ steps' = 0 /\ abortAsked' = signalled
    /\ drainedEvents' = <<>> /\ drainedContents' = <<>>
    /\ running' = TRUE /\ shownQueue' = pendingEvents
    /\ UNCHANGED <<lock, pendingEvents, pendingContents, outcome, signalled,
                   request, announced>>

(* _start_turn raises: no model, MCP or compaction failure.  turn_error    *)
(* and turn_status follow only when an earlier turn was announced.         *)
StartFails ==
    /\ sp = "starting"
    /\ outcome' = "error"
    /\ sp' = IF announcedRunning THEN "ending" ELSE "idle"
    /\ UNCHANGED <<lock, mirror, running, drainedEvents, drainedContents,
                   announcedRunning, signalled, engine, request, announced>>

(* _on_step_start takes the lock ...                                       *)
ConsumeStep ==
    /\ sp = "consuming" /\ unread > 0 /\ lock = Free
    /\ lock' = Stream /\ sp' = "announcing" /\ unread' = unread - 1
    /\ UNCHANGED <<mirror, running, drainedEvents, drainedContents, outcome,
                   announcedRunning, signalled, turnNo, phase, turnOutcome, held,
                   steps, abortAsked, delivered, request, announced>>

(* ... announces every pending message as the user_message it became ...   *)
AnnounceNext ==
    /\ sp = "announcing" /\ pendingEvents # <<>>
    /\ announced' = Append(announced, Head(pendingEvents))
    /\ pendingEvents' = Tail(pendingEvents)
    /\ pendingContents' = Tail(pendingContents)
    /\ shownQueue' = pendingEvents'
    /\ UNCHANGED <<lock, running, stream, engine, request>>

(* ... and releases it.                                                    *)
AnnounceDone ==
    /\ sp = "announcing" /\ pendingEvents = <<>>
    /\ lock' = Free /\ sp' = "consuming"
    /\ UNCHANGED <<mirror, running, drainedEvents, drainedContents, outcome,
                   announcedRunning, signalled, engine, request, announced>>

(* turn.events() is exhausted; turn.result() returns or raises.            *)
FinishConsuming ==
    /\ sp = "consuming" /\ phase = "done" /\ unread = 0
    /\ \/ /\ turnOutcome = "ok"
          /\ sp' = "finalizing" /\ outcome' = "ok"
       \/ /\ turnOutcome = "abort" /\ ~signalled
          /\ sp' = "draining" /\ outcome' = "abort"
       \/ /\ turnOutcome = "abort" /\ signalled
          /\ sp' = "ending" /\ outcome' = "signal"
       \/ /\ turnOutcome = "error"
          /\ sp' = "ending" /\ outcome' = "error"
    /\ UNCHANGED <<lock, mirror, running, drainedEvents, drainedContents,
                   announcedRunning, signalled, engine, request, announced>>

(* _finalize_turn and _ensure_final_assistant_persisted, which may raise.  *)
Finalize ==
    /\ sp = "finalizing"
    /\ \/ sp' = "draining" /\ UNCHANGED outcome
       \/ sp' = "ending" /\ outcome' = "error"
    /\ UNCHANGED <<lock, mirror, running, drainedEvents, drainedContents,
                   announcedRunning, signalled, engine, request, announced>>

(* _drain_remaining_steering under the lock: copy both lists, clear both,  *)
(* broadcast the empty queue.  With nothing to drain the stream ends.      *)
Drain ==
    /\ sp = "draining" /\ lock = Free
    /\ drainedEvents' = pendingEvents /\ drainedContents' = pendingContents
    /\ pendingEvents' = <<>> /\ pendingContents' = <<>>
    /\ \/ /\ pendingEvents = <<>>
          /\ sp' = "ending" /\ UNCHANGED shownQueue
       \/ /\ pendingEvents # <<>>
          /\ sp' = "reporting" /\ shownQueue' = <<>>
    /\ UNCHANGED <<lock, running, outcome, announcedRunning, signalled, engine,
                   request, announced>>

(* The drained messages are announced, one emit each, outside the lock.    *)
Report ==
    /\ sp = "reporting" /\ drainedEvents # <<>>
    /\ announced' = Append(announced, Head(drainedEvents))
    /\ drainedEvents' = Tail(drainedEvents)
    /\ UNCHANGED <<lock, mirror, running, sp, drainedContents, outcome,
                   announcedRunning, signalled, engine, request>>

(* "auto-restarting turn for n un-drained steering item(s)".               *)
Restart ==
    /\ sp = "reporting" /\ drainedEvents = <<>>
    /\ sp' = "starting"
    /\ UNCHANGED <<lock, mirror, running, drainedEvents, drainedContents, outcome,
                   announcedRunning, signalled, engine, request, announced>>

(* The finally clause: turn_status(running = False) with the queue.        *)
End ==
    /\ sp = "ending"
    /\ sp' = "idle"
    /\ running' = FALSE /\ shownQueue' = pendingEvents
    /\ UNCHANGED <<lock, pendingEvents, pendingContents, drainedEvents,
                   drainedContents, outcome, announcedRunning, signalled, engine,
                   request, announced>>

-----------------------------------------------------------------------------
(* steer_current_turn, by request c.                                       *)

SteersInFlight == Cardinality({c \in Clients : cpc[c] \in SteerPCs})

SteerAsk(c) ==
    /\ cpc[c] = "ready" /\ TurnActive
    /\ nextId + SteersInFlight <= MaxSteers
    /\ cpc' = [cpc EXCEPT ![c] = "steerWait"]
    /\ captured' = [captured EXCEPT ![c] = turnNo]
    /\ UNCHANGED <<lock, mirror, running, stream, engine, target, removed, nextId,
                   cancelled, announced>>

(* The lock is granted.  A turn that ended meanwhile gives {status: idle}. *)
SteerEnter(c) ==
    /\ cpc[c] = "steerWait" /\ lock = Free
    /\ \/ /\ StillActive(c)
          /\ lock' = c /\ cpc' = [cpc EXCEPT ![c] = "steerCall"]
          /\ UNCHANGED <<captured, target, removed>>
       \/ /\ ~StillActive(c)
          /\ Return(c) /\ UNCHANGED lock
    /\ UNCHANGED <<mirror, running, stream, engine, nextId, cancelled, announced>>

(* await turn.steer(content): a turn that is over by now holds nothing.    *)
SteerAccept(c) ==
    /\ cpc[c] = "steerCall"
    /\ cpc' = [cpc EXCEPT ![c] = "steerMirror"]
    /\ target' = [target EXCEPT ![c] = nextId]
    /\ nextId' = nextId + 1
    /\ held' = IF StillActive(c) THEN held \cup {nextId} ELSE held
    /\ UNCHANGED <<lock, mirror, running, stream, turnNo, phase, turnOutcome,
                   unread, steps, abortAsked, delivered, captured, removed,
                   cancelled, announced>>

(* await turn.steer(content) raises on a turn that is over: the lock is    *)
(* released and nothing was recorded.                                      *)
SteerRefused(c) ==
    /\ cpc[c] = "steerCall" /\ ~StillActive(c)
    /\ lock' = Free /\ Return(c)
    /\ UNCHANGED <<mirror, running, stream, engine, nextId, cancelled, announced>>

(* Both lists get the message, the queue is broadcast, the lock released.  *)
SteerMirror(c) ==
    /\ cpc[c] = "steerMirror"
    /\ pendingContents' = Append(pendingContents, target[c])
    /\ pendingEvents' = Append(pendingEvents, target[c])
    /\ shownQueue' = pendingEvents'
    /\ lock' = Free /\ Return(c)
    /\ UNCHANGED <<running, stream, engine, nextId, cancelled, announced>>

-----------------------------------------------------------------------------
(* cancel_steering(index), by request c; index 0 stands for None, the last.*)

CancelAsk(c) ==
    /\ cpc[c] = "ready" /\ TurnActive /\ pendingEvents # <<>>
    /\ \E index \in 0 .. Len(pendingEvents) :
          target' = [target EXCEPT ![c] = index]
    /\ cpc' = [cpc EXCEPT ![c] = "cancelWait"]
    /\ captured' = [captured EXCEPT ![c] = turnNo]
    /\ UNCHANGED <<lock, mirror, running, stream, engine, removed, nextId,
                   cancelled, announced>>

(* Under the lock: nothing left to cancel, or an index out of range        *)
(* (ValueError), ends the request; otherwise the index is fixed.           *)
CancelEnter(c) ==
    LET index == IF target[c] = 0 THEN Len(pendingEvents) ELSE target[c]
        valid == StillActive(c) /\ index \in 1 .. Len(pendingEvents)
    IN  /\ cpc[c] = "cancelWait" /\ lock = Free
        /\ \/ /\ valid
              /\ lock' = c /\ cpc' = [cpc EXCEPT ![c] = "cancelCall"]
              /\ target' = [target EXCEPT ![c] = index]
              /\ UNCHANGED <<captured, removed>>
           \/ /\ ~valid
              /\ Return(c) /\ UNCHANGED lock
        /\ UNCHANGED <<mirror, running, stream, engine, nextId, cancelled, announced>>

(* await turn.cancel_steering(id): true when the turn still held it.       *)
CancelCall(c) ==
    LET id == pendingEvents[target[c]]
    IN  /\ cpc[c] = "cancelCall"
        /\ cpc' = [cpc EXCEPT ![c] = "cancelMirror"]
        /\ removed' = [removed EXCEPT ![c] = StillActive(c) /\ id \in held]
        /\ held' = IF StillActive(c) THEN held \ {id} ELSE held
        /\ UNCHANGED <<lock, mirror, running, stream, turnNo, phase, turnOutcome,
                       unread, steps, abortAsked, delivered, captured, target,
                       nextId, cancelled, announced>>

(* Both lists lose the message if it was removed; the queue is broadcast.  *)
CancelMirror(c) ==
    /\ cpc[c] = "cancelMirror"
    /\ \/ /\ removed[c]
          /\ pendingContents' = RemoveAt(pendingContents, target[c])
          /\ pendingEvents' = RemoveAt(pendingEvents, target[c])
          /\ cancelled' = cancelled \cup {pendingEvents[target[c]]}
       \/ /\ ~removed[c]
          /\ UNCHANGED <<pendingContents, pendingEvents, cancelled>>
    /\ shownQueue' = pendingEvents'
    /\ lock' = Free /\ Return(c)
    /\ UNCHANGED <<running, stream, engine, nextId, announced>>

-----------------------------------------------------------------------------
(* Aborts.                                                                 *)

(* abort_current_turn: a client asks to abort the active turn.             *)
AbortCurrentTurn ==
    /\ TurnActive /\ ~abortAsked
    /\ abortAsked' = TRUE
    /\ UNCHANGED <<lock, mirror, running, stream, turnNo, phase, turnOutcome, held,
                   unread, steps, delivered, request, announced>>

(* The HTTP caller of the stream goes away: its AbortSignal fires.         *)
SignalAbort ==
    /\ sp # "idle" /\ ~signalled
    /\ signalled' = TRUE /\ abortAsked' = TRUE
    /\ UNCHANGED <<lock, mirror, running, sp, drainedEvents, drainedContents,
                   outcome, announcedRunning, turnNo, phase, turnOutcome, held,
                   unread, steps, delivered, request, announced>>

-----------------------------------------------------------------------------
EngineNext == EngineBoundary \/ EngineFinish

StreamNext ==
    \/ BeginStream \/ StartTurn \/ StartFails
    \/ ConsumeStep \/ AnnounceNext \/ AnnounceDone
    \/ FinishConsuming \/ Finalize \/ Drain \/ Report \/ Restart \/ End

RequestNext(c) ==
    \/ SteerAsk(c) \/ SteerEnter(c) \/ SteerAccept(c) \/ SteerRefused(c)
    \/ SteerMirror(c)
    \/ CancelAsk(c) \/ CancelEnter(c) \/ CancelCall(c) \/ CancelMirror(c)

Next ==
    \/ EngineNext
    \/ StreamNext
    \/ \E c \in Clients : RequestNext(c)
    \/ AbortCurrentTurn
    \/ SignalAbort

Spec == Init /\ [][Next]_vars

(***************************************************************************)
(* Fairness.  The event loop resumes a coroutine that can run, and the     *)
(* lock, an asyncio.Lock, wakes its waiters first come first served, so    *)
(* nobody waits for ever while it is released again and again.  Nothing    *)
(* obliges a client to send a request, nor a caller to start a stream.     *)
(***************************************************************************)
Enter(c) == SteerEnter(c) \/ CancelEnter(c)
Inside(c) ==
    SteerAccept(c) \/ SteerRefused(c) \/ SteerMirror(c) \/ CancelCall(c) \/ CancelMirror(c)
StreamWork ==
    \/ StartTurn \/ StartFails \/ AnnounceNext \/ AnnounceDone
    \/ FinishConsuming \/ Finalize \/ Report \/ Restart \/ End

Fairness ==
    /\ WF_vars(StreamWork)
    /\ SF_vars(ConsumeStep) /\ SF_vars(Drain)
    /\ \A c \in Clients : SF_vars(Enter(c)) /\ WF_vars(Inside(c))

FairSpec == Spec /\ Fairness

-----------------------------------------------------------------------------
(* Properties.                                                             *)

InHand == {target[c] : c \in {d \in Clients : cpc[d] = "steerMirror"}}

(* A steered message the server accepted is in exactly one place: being    *)
(* recorded, pending, drained and waiting for its announcement, announced, *)
(* or cancelled.  It is never lost, and never announced twice or announced *)
(* after it was cancelled (the double removal from two lists by three      *)
(* coroutines in steer, cancel, _on_step_start and the drain).             *)
Places(id) ==
    <<id \in InHand,
      id \in ToSet(pendingEvents),
      id \in ToSet(drainedEvents),
      id \in ToSet(announced),
      id \in cancelled>>

EachMessageInOnePlace ==
    \A id \in 1 .. (nextId - 1) :
        Cardinality({i \in DOMAIN Places(id) : Places(id)[i]}) = 1

(* A request that returned "canceled" told the truth: the model never got  *)
(* the message, not even through the follow-up turn a drain starts.        *)
CancelledNeverDelivered == cancelled \cap delivered = {}

(* Transcript order: the user_message events of steered messages come in   *)
(* the order in which the messages were accepted.                          *)
AnnouncedInOrder ==
    \A i, j \in DOMAIN announced : i < j => announced[i] < announced[j]

(* A follow-up turn is given only messages the model has not had: what the *)
(* drain takes was never injected at a step boundary.                      *)
RestartDeliversFresh ==
    sp \in {"reporting", "starting"} => ToSet(drainedContents) \cap delivered = {}

(* A stream that ends with a result, or with a user's abort, leaves no     *)
(* steered message behind: a request that raced the end of the turn either *)
(* got into the drain or was answered idle.                                *)
CleanStopLeavesNothing ==
    sp = "idle" /\ outcome \in {"ok", "abort"} => pendingEvents = <<>>

(* What clients were last shown is what the server holds whenever no       *)
(* handler is in the middle of changing it, and an idle session was last   *)
(* reported as not running.                                                *)
ViewInSync ==
    /\ lock = Free => shownQueue = pendingEvents /\ pendingContents = pendingEvents
    /\ sp = "idle" => ~running

(* A steer or cancel request is always answered: it is never left waiting  *)
(* for the lock behind a handler that does not let go.                     *)
RequestsReturn == \A c \in Clients : cpc[c] # "ready" ~> cpc[c] = "ready"

(* A turn that is over is left by the stream: it is reported as ended or   *)
(* followed by a turn with the messages that came too late.                *)
TurnEndsReported ==
    phase = "done" /\ sp = "consuming" ~> sp \in {"idle", "starting"}

(* client/CHANGELOG.md:611 says of steered messages that they are requeued *)
(* as normal turns if the active turn finishes before a steering boundary, *)
(* and the test of the abort path asserts that the terminal turn_status    *)
(* has an empty steering queue.  So no message is left pending once the    *)
(* session is idle, however the turn ended.                                *)
NoStrandedSteering == sp = "idle" => pendingEvents = <<>>

(* Every message the server accepted is accounted for, wherever steer,     *)
(* cancel, _on_step_start and the drain interleave: it is in one place, in *)
(* order, not given to the model twice by a follow-up turn, and not left   *)
(* behind when the turn ends (agent.py, the two pending lists).            *)
MessagesAccounted ==
    /\ TypeOK
    /\ EachMessageInOnePlace
    /\ AnnouncedInOrder
    /\ RestartDeliversFresh
    /\ CleanStopLeavesNothing

(* Whatever waits for the steering lock gets it: requests are answered and *)
(* finished turns are reported or followed up.                             *)
TurnsSettle == RequestsReturn /\ TurnEndsReported

=============================================================================
