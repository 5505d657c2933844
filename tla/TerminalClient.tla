---------------------------- MODULE TerminalClient ----------------------------
(***************************************************************************)
(* The terminal client (client/src/app/app.ts): what happens to the lines  *)
(* the user types and how the client keeps up with the turns of the        *)
(* session it shows.                                                       *)
(*                                                                         *)
(* Two coroutines run beside each other: readInputLoop reads lines and     *)
(* steers a running turn with them or queues them; the main loop takes     *)
(* lines from the queue and runs a turn for each (runChatTurn) or switches *)
(* to another session (handleSlashCommand).  The answers of a turn come on *)
(* one connection, the events of the session on another (sse.ts), so that  *)
(* the client learns of one turn twice and in either order.                *)
(*                                                                         *)
(* A server runs one turn of a session at a time.  Turns are begun by this *)
(* client or by another one.                                               *)
(***************************************************************************)
EXTENDS Naturals, Sequences, FiniteSets, SequencesExt

CONSTANTS
    Sessions,
    MaxLines,    \* bound: the lines typed, 1 .. MaxLines in this order
    MaxOthers,   \* bound: turns begun by other clients
    MaxFailures, \* bound: turns that fail
    MaxDrops,    \* bound: connections of the event stream lost
    MaxPops,     \* bound: messages the user takes back
    None

\* What the constants are.
Assumptions ==
    /\ None \notin Sessions \cup Nat \cup {"own", "other", "local", "remote", "idle", "steered"}
    /\ {MaxLines, MaxOthers, MaxFailures, MaxDrops, MaxPops} \subseteq Nat

VARIABLES
    turn,      \* the server: whose turn a session runs, "own", "other" or None
    pend,      \* messages it accepted and has not given to the model
    log,       \* the events of each session
    delivered, \* the lines the models got, in order
    config,    \* config.agentId, the session requests are for
    shown,     \* the session on the screen, whose events are streamed
    cursor,    \* lastServerEventId
    up, wire,  \* the connection of the event stream, and the events on their way
    late,      \* events that were read from a stream that is closed now
    typed,     \* how many lines were typed
    queue,     \* lineQueue
    reader,    \* readInputLoop
    main,      \* the main loop
    turnNo,    \* the number of local turns
    local,     \* liveSync.hasLocalTurn
    pending,   \* pendingSteeringSubmissions of the local turn
    steer,     \* activeSteerHandler: "local", "remote" or None
    pop,       \* what setQueuedLinePopHandler set: "local", "remote", "queue"
    remote,    \* remoteTurnRunning
    cancels,   \* cancelLastSteering requests on their way
    gone,      \* lines the user took back, and commands done or refused
    bounds,    \* how often others began a turn, turns failed, ...
    excused,   \* history: lines the known gaps of the code concern
    crossed    \* history: a turn of another client was seen while a local one ended

server == <<turn, pend, log, delivered>>
stream == <<cursor, up, wire, late>>
input == <<typed, queue, reader>>
handlers == <<steer, pop, remote>>
localTurn == <<turnNo, local, pending>>
history == <<excused, crossed>>
sessions == <<config, shown>>
vars == <<server, sessions, stream, input, main, localTurn, handlers, cancels, gone, bounds, history>>

(***************************************************************************)
(* The server: events, turns and steering.                                 *)
(***************************************************************************)
Running(who) == [type |-> "turn_status", running |-> TRUE, who |-> who, line |-> None]
Ended == [type |-> "turn_status", running |-> FALSE, who |-> None, line |-> None]
Steered(line) == [type |-> "user_message", running |-> TRUE, who |-> None, line |-> line]

Emit(s, events) ==
    /\ log' = [log EXCEPT ![s] = @ \o events]
    /\ wire' = IF up /\ shown = s THEN wire \o events ELSE wire

\* What the handler of the local turn will remember.
Remembered(r) == {l \in {r.line} : r.by = "local"}

ClientIdle == UNCHANGED <<sessions, cursor, up, late, input, localTurn, handlers, history>>

Count(what) == bounds' = [bounds EXCEPT ![what] = @ + 1]

BeginOther ==
    /\ bounds.others < MaxOthers
    /\ \E s \in Sessions :
          /\ turn[s] = None
          /\ turn' = [turn EXCEPT ![s] = "other"]
          /\ Emit(s, <<Running("other")>>)
    /\ Count("others")
    /\ UNCHANGED <<pend, delivered, main, cancels, gone>> /\ ClientIdle

\* The request of runChatTurn arrives.
BeginOwn ==
    /\ main.pc = "sent" /\ turn[main.session] = None
    /\ turn' = [turn EXCEPT ![main.session] = "own"]
    /\ delivered' = Append(delivered, main.line)
    /\ Emit(main.session, <<Running("own")>>)
    /\ main' = [main EXCEPT !.pc = "answer"]
    /\ UNCHANGED <<pend, cancels, gone, bounds>> /\ ClientIdle

\* A step boundary gives the model the messages that wait.  The end of a turn,
\* or its abort, does so too and the turn goes on.
Boundary(s) ==
    /\ turn[s] # None /\ pend[s] # <<>>
    /\ delivered' = delivered \o pend[s]
    /\ Emit(s, [i \in DOMAIN pend[s] |-> Steered(pend[s][i])])
    /\ pend' = [pend EXCEPT ![s] = <<>>]
    /\ UNCHANGED <<turn, main, cancels, gone, bounds>> /\ ClientIdle

\* A turn ends when nothing waits, or fails whatever waits: no model gets that.
\* The client can send it again only if the handler of its own turn sent it.
EndTurn(s) ==
    /\ turn[s] # None
    /\ \/ pend[s] = <<>> /\ UNCHANGED bounds
       \/ bounds.failures < MaxFailures /\ Count("failures")
    /\ turn' = [turn EXCEPT ![s] = None]
    /\ pend' = [pend EXCEPT ![s] = <<>>]
    /\ Emit(s, <<Ended>>)
    /\ main' = IF turn[s] = "own" THEN [main EXCEPT !.pc = "ended"] ELSE main
    /\ excused' = excused \cup (ToSet(pend[s]) \ (ToSet(pending) \cup Remembered(reader)))
    /\ UNCHANGED <<delivered, sessions, cursor, up, late, input, localTurn, handlers, cancels, gone,
                   crossed>>

\* steer_current_turn
AcceptSteering ==
    /\ reader.pc = "steering" /\ reader.answer = None
    /\ IF turn[reader.session] = None
       THEN reader' = [reader EXCEPT !.answer = "idle"] /\ UNCHANGED pend
       ELSE /\ reader' = [reader EXCEPT !.answer = "steered"]
            /\ pend' = [pend EXCEPT ![reader.session] = Append(@, reader.line)]
    /\ UNCHANGED <<turn, log, delivered, sessions, stream, typed, queue, main, localTurn, handlers,
                   cancels, gone, bounds, history>>

\* cancel_last_steering
CancelSteering ==
    /\ \E s \in Sessions :
          /\ cancels[s] > 0
          /\ cancels' = [cancels EXCEPT ![s] = @ - 1]
          /\ IF pend[s] = <<>> THEN UNCHANGED <<pend, gone>>
             ELSE /\ pend' = [pend EXCEPT ![s] = Front(@)]
                  /\ gone' = gone \cup {Last(pend[s])}
    /\ UNCHANGED <<turn, log, delivered, sessions, stream, input, main, localTurn, handlers, bounds,
                   history>>

(***************************************************************************)
(* applyTurnStatus (createSharedTurnSync).                                 *)
(***************************************************************************)
ApplyTurnStatus(running) ==
    /\ remote' = running
    /\ IF local THEN UNCHANGED <<steer, pop>>
       ELSE IF running THEN /\ steer' = IF steer = None THEN "remote" ELSE steer
                            /\ pop' = "remote"
       ELSE steer' = None /\ pop' = "queue"

(***************************************************************************)
(* readInputLoop.                                                          *)
(***************************************************************************)
Reading == [pc |-> "reading", line |-> None, by |-> None, turn |-> 0, session |-> None,
            answer |-> None]

\* AsyncLineQueue.push: the main loop takes its line from the queue (shift).
Push(line) == queue' = Append(queue, line)

\* A line to chat with steers the turn if one runs.
TypeText ==
    /\ reader.pc = "reading" /\ typed < MaxLines
    /\ typed' = typed + 1
    /\ IF steer # None
       THEN /\ reader' = [pc |-> "steering", line |-> typed + 1, by |-> steer, turn |-> turnNo,
                          session |-> config, answer |-> None]
            /\ UNCHANGED queue
       ELSE Push([text |-> TRUE, line |-> typed + 1, session |-> None]) /\ UNCHANGED reader
    /\ UNCHANGED <<server, sessions, stream, main, localTurn, handlers, cancels, gone, bounds, history>>

\* A command that switches sessions is refused while a turn runs, except for
\* /sub (isBlockedActiveSlashCommand).
TypeSwitch ==
    /\ reader.pc = "reading" /\ typed < MaxLines
    /\ typed' = typed + 1
    /\ \/ /\ steer # None
          /\ gone' = gone \cup {typed + 1} /\ UNCHANGED queue
       \/ /\ \E s \in Sessions : Push([text |-> FALSE, line |-> typed + 1, session |-> s])
          /\ UNCHANGED gone
    /\ UNCHANGED <<server, sessions, stream, reader, main, localTurn, handlers, cancels, bounds, history>>

\* The answer: the local handler remembers the message in the list of its turn,
\* which nobody reads when that turn is over; refused messages are queued.
SteerAnswered ==
    /\ reader.pc = "steering" /\ reader.answer # None
    /\ LET remembered == reader.answer = "steered" /\ reader.by = "local"
           alive == local /\ reader.turn = turnNo
           overtaken == Steered(reader.line) \in ToSet(SubSeq(log[shown], 1, cursor))
       IN /\ pending' = IF remembered /\ alive THEN Append(pending, reader.line) ELSE pending
          /\ excused' = IF remembered /\ (~alive \/ overtaken) THEN excused \cup {reader.line} ELSE excused
    /\ IF reader.answer = "steered" THEN UNCHANGED queue
       ELSE Push([text |-> TRUE, line |-> reader.line, session |-> None])
    /\ reader' = Reading
    /\ UNCHANGED <<server, sessions, stream, typed, main, turnNo, local, handlers, cancels, gone, bounds,
                   crossed>>

\* The user takes the last message back.
TakeBack ==
    /\ bounds.pops < MaxPops
    /\ \/ /\ pop = "queue" /\ queue # <<>>
          /\ gone' = gone \cup {Last(queue).line} /\ queue' = Front(queue)
          /\ UNCHANGED <<pending, cancels>>
       \/ /\ pop = "local" /\ pending # <<>>
          /\ gone' = gone \cup {Last(pending)} /\ pending' = Front(pending)
          /\ cancels' = [cancels EXCEPT ![config] = @ + 1]
          /\ UNCHANGED queue
       \/ /\ pop = "remote"
          /\ cancels' = [cancels EXCEPT ![config] = @ + 1]
          /\ UNCHANGED <<gone, queue, pending>>
    /\ Count("pops")
    /\ UNCHANGED <<server, sessions, stream, typed, reader, main, turnNo, local, handlers, history>>

(***************************************************************************)
(* The main loop.                                                          *)
(***************************************************************************)
Waiting == [pc |-> "shift", line |-> None, session |-> None, status |-> None, seen |-> None]

\* runChatTurn, up to its first await.
StartTurn ==
    /\ main.pc = "shift" /\ queue # <<>> /\ Head(queue).text
    /\ queue' = Tail(queue)
    /\ main' = [Waiting EXCEPT !.pc = "sent", !.line = Head(queue).line, !.session = config]
    /\ local' = TRUE /\ turnNo' = turnNo + 1 /\ pending' = <<>>
    /\ steer' = "local" /\ pop' = "local"
    /\ UNCHANGED <<server, sessions, stream, typed, reader, remote, cancels, gone, bounds, history>>

Texts(lines) == [i \in DOMAIN lines |-> [text |-> TRUE, line |-> lines[i], session |-> None]]

\* What of the shown session's log the client has not handled.
Unseen == SubSeq(log[shown], cursor + 1, Len(log[shown]))
LastTurn(events) ==
    LET i == SelectLastInSeq(events, LAMBDA e : e.type = "turn_status")
    IN IF i = 0 THEN Ended ELSE events[i]

\* Faulty: what the turn did not take is forgotten.
TurnSettledForgets ==
    /\ main.pc = "ended"
    /\ local' = FALSE /\ pending' = <<>>
    /\ remote' = FALSE /\ steer' = None /\ pop' = "queue"
    /\ main' = Waiting
    /\ crossed' = (LastTurn(SubSeq(log[shown], 1, cursor)) = Running("other"))
    /\ UNCHANGED <<server, sessions, stream, typed, reader, queue, turnNo, cancels, gone, bounds, excused>>

\* The finally block of runChatTurn, and install: messages that were not taken
\* at a step boundary go back to the front of the queue.
TurnSettled ==
    /\ main.pc = "ended"
    /\ local' = FALSE /\ pending' = <<>>
    /\ remote' = FALSE /\ steer' = None /\ pop' = "queue"
    /\ queue' = Texts(pending) \o queue
    /\ main' = Waiting
    /\ excused' = excused \cup {l \in ToSet(pending) : Steered(l) \in ToSet(Unseen)
                                                       \/ l \in ToSet(pend[shown])}
    /\ crossed' = (LastTurn(SubSeq(log[shown], 1, cursor)) = Running("other"))
    /\ UNCHANGED <<server, sessions, stream, typed, reader, turnNo, cancels, gone, bounds>>

\* handleSlashCommand, session, up to its first await: the stream is closed.
\* What was read from it may still be handled.
StartSwitch ==
    /\ main.pc = "shift" /\ queue # <<>> /\ ~Head(queue).text
    /\ queue' = Tail(queue)
    /\ gone' = gone \cup {Head(queue).line}
    /\ remote' = FALSE /\ steer' = None /\ pop' = "queue"
    /\ main' = [Waiting EXCEPT !.pc = "hydrate", !.session = Head(queue).session]
    /\ late' = wire /\ wire' = <<>> /\ up' = FALSE
    /\ crossed' = FALSE
    /\ UNCHANGED <<server, sessions, cursor, typed, reader, localTurn, cancels, bounds, excused>>

\* getStatus and getEventLog of renderSwitchedSession.
AnswerStatus ==
    /\ main.pc = "hydrate" /\ main.status = None
    /\ main' = [main EXCEPT !.status = turn[main.session] # None]
    /\ UNCHANGED <<server, sessions, stream, input, localTurn, handlers, cancels, gone, bounds, history>>

AnswerEventLog ==
    /\ main.pc = "hydrate" /\ main.seen = None
    /\ main' = [main EXCEPT !.seen = Len(log[main.session])]
    /\ UNCHANGED <<server, sessions, stream, input, localTurn, handlers, cancels, gone, bounds, history>>

\* resolveRemoteTurnHydration: the log decides, if it says anything.
Hydrated(status, events) ==
    IF \E e \in ToSet(events) : e.type = "turn_status" THEN LastTurn(events).running ELSE status

\* setRemoteTurnStatus and restartEventStream: the stream goes on after the log.
Rejoin ==
    /\ main.pc = "hydrate" /\ main.status # None /\ main.seen # None
    /\ ApplyTurnStatus(Hydrated(main.status, SubSeq(log[main.session], 1, main.seen)))
    /\ shown' = main.session
    /\ cursor' = main.seen
    /\ up' = FALSE /\ wire' = <<>>
    /\ main' = [main EXCEPT !.pc = "rejoined"]
    /\ UNCHANGED <<server, config, late, input, localTurn, cancels, gone, bounds, history>>

\* The command returns once the suggestions for the session have been loaded.
Switched ==
    /\ main.pc = "rejoined"
    /\ config' = main.session
    /\ main' = Waiting
    /\ reader' = IF reader.pc = "off" THEN Reading ELSE reader
    /\ UNCHANGED <<server, shown, stream, typed, queue, localTurn, handlers, cancels, gone, bounds,
                   history>>

(***************************************************************************)
(* The event stream.                                                       *)
(***************************************************************************)
Connect ==
    /\ ~up /\ main.pc # "hydrate"
    /\ up' = TRUE /\ wire' = Unseen
    /\ UNCHANGED <<server, sessions, cursor, late, input, main, localTurn, handlers, cancels, gone,
                   bounds, history>>

Drop ==
    /\ up /\ bounds.drops < MaxDrops /\ Count("drops")
    /\ up' = FALSE /\ wire' = <<>>
    /\ UNCHANGED <<server, sessions, cursor, late, input, main, localTurn, handlers, cancels, gone, history>>

\* setSteeringAcceptedHook
SteeringAccepted(line) ==
    pending' = IF local THEN RemoveFirst(pending, line) ELSE pending

Handle(e) ==
    \/ /\ e.type = "turn_status"
       /\ ApplyTurnStatus(e.running)
       /\ crossed' = FALSE
       /\ UNCHANGED pending
    \/ /\ e.type = "user_message"
       /\ SteeringAccepted(e.line)
       /\ UNCHANGED <<handlers, crossed>>

\* consumeSse: an event that has arrived whole, and its id.
TakeEvent == wire # <<>> /\ wire' = Tail(wire) /\ cursor' = cursor + 1

Receive ==
    /\ up /\ TakeEvent
    /\ Handle(Head(wire))
    /\ UNCHANGED <<server, sessions, up, late, input, main, turnNo, local, cancels, gone, bounds,
                   excused>>

\* startEventStream: an event of a stream that was closed is of an old
\* generation, it is dropped.
ReceiveLate ==
    /\ late # <<>>
    /\ late' = Tail(late)
    /\ UNCHANGED <<server, sessions, cursor, up, wire, input, main, localTurn, handlers, cancels, gone,
                   bounds, history>>

(***************************************************************************)
(* Specification.                                                          *)
(***************************************************************************)
Init ==
    /\ turn = [s \in Sessions |-> None] /\ pend = [s \in Sessions |-> <<>>]
    /\ log = [s \in Sessions |-> <<>>] /\ delivered = <<>>
    /\ shown \in Sessions /\ config = shown /\ cursor = 0 /\ up = FALSE /\ wire = <<>> /\ late = <<>>
    /\ typed = 0 /\ queue = <<>> /\ reader = [Reading EXCEPT !.pc = "off"]
    /\ main = [Waiting EXCEPT !.pc = "hydrate", !.session = shown]
    /\ turnNo = 0 /\ local = FALSE /\ pending = <<>>
    /\ steer = None /\ pop = "queue" /\ remote = FALSE
    /\ cancels = [s \in Sessions |-> 0] /\ gone = {}
    /\ bounds = [others |-> 0, failures |-> 0, drops |-> 0, pops |-> 0]
    /\ excused = {} /\ crossed = FALSE

ServerNext ==
    \/ BeginOther \/ BeginOwn \/ AcceptSteering \/ CancelSteering
    \/ \E s \in Sessions : Boundary(s) \/ EndTurn(s)
ClientNext ==
    \/ TypeText \/ TypeSwitch \/ SteerAnswered \/ TakeBack
    \/ StartTurn \/ TurnSettled \/ StartSwitch \/ AnswerStatus \/ AnswerEventLog \/ Rejoin \/ Switched
    \/ Connect \/ Drop \/ Receive \/ ReceiveLate
Next == ServerNext \/ ClientNext

Spec == Init /\ [][Next]_vars

(***************************************************************************)
(* Properties.                                                             *)
(***************************************************************************)
QueuedLines == {queue[i].line : i \in DOMAIN queue}
Waits == UNION {ToSet(pend[s]) : s \in Sessions}

(* A line that was typed is never lost: it waits to be sent, is on its way *)
(* or with the server, was given to a model, or was taken back or refused  *)
(* before the user's eyes; also when the turn it should have steered fails *)
(* (client/CHANGELOG.md: "Requeue steered messages as normal turns").  Not *)
(* so for messages that steered another client's turn which failed, or     *)
(* whose turn was over when their answer came.                             *)
NothingTypedIsLost ==
    1 .. typed \subseteq QueuedLines \cup {reader.line, main.line} \cup ToSet(pending) \cup Waits
                          \cup ToSet(delivered) \cup gone \cup excused

(* No line is given to a model twice, unless the chat ended before the     *)
(* event arrived that says its message was taken.                          *)
GivenOnce ==
    \A i, j \in DOMAIN delivered :
        i # j /\ delivered[i] = delivered[j] => delivered[i] \in excused

(* When everything has arrived, the client is on the right side of the     *)
(* turn of the session it shows: it steers if, and only if, a turn runs    *)
(* (resolveRemoteTurnHydration trusts the log that owns the cursor, not    *)
(* the status).  Not so when another client's turn was seen to begin while *)
(* the answer of the local one was still on its way.                       *)
KnowsTheTurn ==
    main.pc = "shift" /\ up /\ wire = <<>> /\ ~crossed =>
        /\ remote = (turn[shown] # None)
        /\ steer = (IF remote THEN "remote" ELSE None)

(***************************************************************************)
(* What holds of every state, and is why no line is lost or given twice.   *)
(***************************************************************************)
Events == [type : {"turn_status", "user_message"}, running : BOOLEAN,
           who : {"own", "other", None}, line : Nat \cup {None}]
Queued == [text : BOOLEAN, line : Nat, session : Sessions \cup {None}]
Readers == [pc : {"off", "reading", "steering"}, line : Nat \cup {None},
            by : {"local", "remote", None}, turn : Nat, session : Sessions \cup {None},
            answer : {"idle", "steered", None}]
InTurn == {"sent", "answer", "ended"}
MainLoops == [pc : {"shift", "hydrate", "rejoined"} \cup InTurn, line : Nat \cup {None},
              session : Sessions \cup {None}, status : BOOLEAN \cup {None}, seen : Nat \cup {None}]

TypeOK ==
    /\ turn \in [Sessions -> {"own", "other", None}] /\ pend \in [Sessions -> Seq(Nat)]
    /\ log \in [Sessions -> Seq(Events)] /\ delivered \in Seq(Nat)
    /\ config \in Sessions /\ shown \in Sessions
    /\ cursor \in Nat /\ up \in BOOLEAN /\ wire \in Seq(Events) /\ late \in Seq(Events)
    /\ typed \in Nat /\ queue \in Seq(Queued) /\ reader \in Readers /\ main \in MainLoops
    /\ turnNo \in Nat /\ local \in BOOLEAN /\ pending \in Seq(Nat)
    /\ steer \in {"local", "remote", None} /\ pop \in {"local", "remote", "queue"}
    /\ remote \in BOOLEAN /\ cancels \in [Sessions -> Nat] /\ gone \subseteq Nat
    /\ bounds \in [{"others", "failures", "drops", "pops"} -> Nat]
    /\ excused \subseteq Nat /\ crossed \in BOOLEAN

\* What either loop has in hand, and which turn is the client's own.
LoopsFit ==
    /\ IF reader.pc = "steering" THEN reader.line \in 1 .. typed /\ reader.session \in Sessions
       ELSE reader.line = None
    /\ IF local THEN main.line \in Nat ELSE main.line = None /\ pending = <<>>
    /\ local = (main.pc \in InTurn)
    /\ main.pc # "shift" => main.session \in Sessions
    /\ \A i \in DOMAIN queue : queue[i].text \/ queue[i].session \in Sessions
    /\ \A s \in Sessions : turn[s] = "own" <=> main.pc = "answer" /\ main.session = s
    /\ IF main.pc = "rejoined" THEN shown = main.session ELSE config = shown
    /\ reader.turn <= turnNo
    /\ reader.pc = "steering" /\ reader.by = "local" /\ local /\ reader.turn = turnNo =>
           reader.session = shown

\* The lines there are have been typed.
LinesKnown ==
    QueuedLines \cup ({main.line} \ {None}) \cup ToSet(pending) \cup Waits \cup ToSet(delivered)
        \subseteq 1 .. typed

\* The client has a line once.
ClientHasOne ==
    /\ \A i, j \in DOMAIN queue : queue[i].line = queue[j].line => i = j
    /\ IsInjective(pending)
    /\ QueuedLines \cap ToSet(pending) = {}
    /\ main.line \notin QueuedLines \cup ToSet(pending)
    /\ reader.pc = "steering" => reader.line \notin QueuedLines \cup ToSet(pending) \cup {main.line}

\* So has the server, in the session the line was sent to.
ServerHasOne ==
    /\ \A s, t \in Sessions : \A i \in DOMAIN pend[s], j \in DOMAIN pend[t] :
           pend[s][i] = pend[t][j] => s = t /\ i = j
    /\ reader.pc = "steering" =>
           /\ reader.answer # "steered" => reader.line \notin Waits \cup ToSet(delivered)
           /\ reader.line \in Waits => reader.line \in ToSet(pend[reader.session])
           /\ reader.line \in ToSet(delivered) => Steered(reader.line) \in ToSet(log[reader.session])

\* A line that was given, or will be, is not sent again.
ToSend == QueuedLines \cup {l \in {main.line} : main.pc = "sent"}
SentOnce ==
    /\ GivenOnce
    /\ \A l \in ToSet(delivered) \ excused :
           l \notin ToSend \cup Waits /\ (l \in ToSet(pending) => Steered(l) \in ToSet(Unseen))
    /\ \A l \in Waits \ excused :
           l \notin ToSend /\ (l \in ToSet(pending) => l \in ToSet(pend[shown]))

\* Where a line is that left the client's hands.
LeftHandsFit ==
    /\ main.pc \in {"answer", "ended"} => main.line \in ToSet(delivered)
    /\ reader.pc = "steering" /\ reader.by # "local" /\ reader.answer = "steered" =>
           reader.line \in Waits \cup ToSet(delivered) \cup gone \cup excused
    /\ \A s \in Sessions : \A e \in ToSet(log[s]) :
           e.type = "user_message" => e.line \in ToSet(delivered)

\* What is on its way is the rest of the log, which tells what runs.
TellsTurn(events) == \E e \in ToSet(events) : e.type = "turn_status"
StreamFits ==
    /\ cursor <= Len(log[shown]) /\ wire = (IF up THEN Unseen ELSE <<>>)
    /\ main.pc = "hydrate" =>
           /\ ~up
           /\ main.seen # None => main.seen <= Len(log[main.session])
           /\ main.status # None /\ main.status = TRUE => TellsTurn(log[main.session])
    /\ \A s \in Sessions : LastTurn(log[s]) = IF turn[s] = None THEN Ended ELSE Running(turn[s])

\* What the client believes of the turn, unless the stream will tell.
TurnFits ==
    /\ steer = IF local THEN "local" ELSE IF remote THEN "remote" ELSE None
    /\ main.pc \in {"shift", "rejoined"} /\ ~crossed /\ ~TellsTurn(Unseen) =>
           remote = (turn[shown] # None)

LinesInv ==
    /\ TypeOK /\ LoopsFit /\ LinesKnown /\ ClientHasOne /\ ServerHasOne /\ SentOnce
    /\ LeftHandsFit /\ StreamFits /\ TurnFits /\ NothingTypedIsLost
=============================================================================
