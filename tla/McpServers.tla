----------------------------- MODULE McpServers ------------------------------
(***************************************************************************)
(* One MCP server of a workspace (server/chump_server/mcp_runtime.py): the *)
(* MCPManager that connects, replaces and removes it, and the connections, *)
(* each a task that serves a queue of tool calls (MCPConnection._run).     *)
(*                                                                         *)
(* The sections under MCPManager._change_lock contain no await, so the     *)
(* lock is never contended and a section is part of one step.  Coroutines  *)
(* interleave at the awaits: while a connection opens, while a call is     *)
(* served, while a connection closes.  The servers of a workspace have     *)
(* nothing else in common, so one is modelled.                             *)
(***************************************************************************)
EXTENDS Naturals, Sequences, SequencesExt, FiniteSets

CONSTANTS
    Calls,      \* tool calls, each made once
    Workers,    \* coroutines in sync_configs, reconnect or close
    Conns,      \* bound: connections ever opened
    None

ASSUME NamesApart == None \notin Calls \cup Workers \cup Conns

VARIABLES
    startTask,  \* state of _start_task
    startConn,  \* the connection _start_all opens
    configured, \* _configs[name]
    installed,  \* _connections[name]
    status,     \* _statuses[name].state
    closed,     \* history: close() has run
    worker,     \* where each coroutine stands
    opening,    \* the replacement a coroutine waits for
    victim,     \* the connection a coroutine closes
    runner,     \* where _run of each connection stands
    queue,      \* its _requests; None asks it to stop
    current,    \* the call it serves
    call,       \* the future of each call
    lost        \* history: calls in flight when a transport broke

manager == <<startTask, startConn, configured, installed, status, closed>>
workers == <<worker, opening, victim>>
connections == <<runner, queue, current>>
vars == <<manager, workers, connections, call, lost>>

Configs == {"absent", "disabled", "enabled"}
Statuses == {"not_started", "connecting", "connected", "disabled", "failed", "absent"}
Running == {"serving", "calling", "leaving", "failing"}
RunnerStates == {"none", "opening", "refused", "done"} \cup Running

TypeOK ==
    /\ startTask \in {"none", "running", "done"} /\ startConn \in Conns \cup {None}
    /\ configured \in Configs /\ status \in Statuses /\ closed \in BOOLEAN
    /\ installed \in Conns \cup {None}
    /\ worker \in [Workers -> {"idle", "connecting", "closing", "reconnecting"}]
    /\ opening \in [Workers -> Conns \cup {None}]
    /\ victim \in [Workers -> Conns \cup {None}]
    /\ runner \in [Conns -> RunnerStates]
    /\ queue \in [Conns -> Seq(Calls \cup {None})]
    /\ current \in [Conns -> Calls \cup {None}]
    /\ \A c \in Conns : runner[c] = "calling" <=> current[c] # None
    /\ call \in [Calls -> {"none", "pending", "value", "error", "cancelled"}]
    /\ lost \subseteq Calls

Init ==
    /\ startTask = "none" /\ startConn = None
    /\ configured \in Configs /\ installed = None /\ closed = FALSE
    /\ status = IF configured = "enabled" THEN "not_started" ELSE configured
    /\ worker = [w \in Workers |-> "idle"]
    /\ opening = [w \in Workers |-> None]
    /\ victim = [w \in Workers |-> None]
    /\ runner = [c \in Conns |-> "none"]
    /\ queue = [c \in Conns |-> <<>>]
    /\ current = [c \in Conns |-> None]
    /\ call = [q \in Calls |-> "none"] /\ lost = {}

\* MCPConnection(...): its task begins to try the transports.
Opens(c) ==
    /\ runner[c] = "none"
    /\ runner' = [runner EXCEPT ![c] = "opening"]

\* connect() returned: _ready has its result, or its exception.
Ready(c) == runner[c] \notin {"none", "opening"}
Refused(c) == runner[c] = "refused"

\* MCPConnection.close, up to its wait for the task to end.
AskToStop(c) ==
    queue' = IF runner[c] = "done" THEN queue
                                   ELSE [queue EXCEPT ![c] = Append(@, None)]

\* Coroutine w takes the connection c out of use; next is what it does then.
ClosesThen(w, c, next) ==
    \/ /\ c = None
       /\ worker' = [worker EXCEPT ![w] = next] /\ UNCHANGED <<victim, queue>>
    \/ /\ c # None
       /\ worker' = [worker EXCEPT ![w] = IF next = "idle" THEN "closing" ELSE next]
       /\ victim' = [victim EXCEPT ![w] = c] /\ AskToStop(c)

-----------------------------------------------------------------------------
(* Faulty forms of the actions below, no part of Spec.                     *)

\* A failed call does not reach the future.
AnswerDropsErrors(c) ==
    /\ runner[c] = "calling"
    /\ \/ UNCHANGED call
       \/ call' = [call EXCEPT ![current[c]] = IF @ = "pending" THEN "value" ELSE @]
    /\ runner' = [runner EXCEPT ![c] = "serving"]
    /\ current' = [current EXCEPT ![c] = None]
    /\ UNCHANGED <<manager, workers, queue, lost>>

\* The previous connection is overwritten.
UpsertCommitLeaks(w) ==
    LET c == opening[w]
    IN  /\ worker[w] = "connecting" /\ Ready(c)
        /\ configured' = "enabled"
        /\ installed' = IF Refused(c) THEN None ELSE c
        /\ status' = IF Refused(c) THEN "failed" ELSE "connected"
        /\ opening' = [opening EXCEPT ![w] = None]
        /\ worker' = [worker EXCEPT ![w] = "idle"]
        /\ UNCHANGED <<startTask, startConn, closed, victim, runner, queue,
                       current, call, lost>>

\* The status is left to the upsert that follows.
ReconnectKeepsStatus(w) ==
    /\ startTask = "done" /\ worker[w] = "idle" /\ configured = "enabled"
    /\ installed' = None
    /\ ClosesThen(w, installed, "reconnecting")
    /\ UNCHANGED <<startTask, startConn, configured, status, closed, opening, runner,
                   current, call, lost>>

-----------------------------------------------------------------------------
(* MCPConnection._run of connection c.                                     *)

(* The session is initialized and its tools are listed in time.            *)
Open(c) ==
    /\ runner[c] = "opening"
    /\ runner' = [runner EXCEPT ![c] = "serving"]
    /\ UNCHANGED <<manager, workers, queue, current, call, lost>>

(* All transports of the configuration failed or took too long.            *)
OpenFails(c) ==
    /\ runner[c] = "opening"
    /\ runner' = [runner EXCEPT ![c] = "refused"]
    /\ UNCHANGED <<manager, workers, queue, current, call, lost>>

(* _serve takes the next request; one that was cancelled is served as well.*)
Take(c) ==
    /\ runner[c] = "serving" /\ queue[c] # <<>>
    /\ queue' = [queue EXCEPT ![c] = Tail(@)]
    /\ current' = [current EXCEPT ![c] = Head(queue[c])]
    /\ runner' = [runner EXCEPT ![c] = IF Head(queue[c]) = None THEN "leaving"
                                                                ELSE "calling"]
    /\ UNCHANGED <<manager, workers, call, lost>>

(* call_tool returns, fails or times out; a cancelled future is left alone.*)
Answer(c) ==
    LET q == current[c]
    IN  /\ runner[c] = "calling"
        /\ \E reply \in {"value", "error"} :
              call' = [call EXCEPT ![q] = IF @ = "pending" THEN reply ELSE @]
        /\ runner' = [runner EXCEPT ![c] = "serving"]
        /\ current' = [current EXCEPT ![c] = None]
        /\ UNCHANGED <<manager, workers, queue, lost>>

(* The transport's tasks fail, which cancels whatever _serve awaits; the   *)
(* call being served is no longer in the queue.                            *)
TransportBreaks(c) ==
    /\ runner[c] \in {"serving", "calling", "leaving"}
    /\ runner' = [runner EXCEPT ![c] = "failing"]
    /\ current' = [current EXCEPT ![c] = None]
    /\ lost' = IF runner[c] = "calling" THEN lost \cup {current[c]} ELSE lost
    /\ UNCHANGED <<manager, workers, queue, call>>

(* The session was closed after None ...                                   *)
Leave(c) ==
    /\ runner[c] = "leaving"
    /\ runner' = [runner EXCEPT ![c] = "done"]
    /\ UNCHANGED <<manager, workers, queue, current, call, lost>>

(* ... or after a failure, which all queued calls get to hear.             *)
FailQueued(c) ==
    /\ runner[c] = "failing"
    /\ runner' = [runner EXCEPT ![c] = "done"]
    /\ queue' = [queue EXCEPT ![c] = <<>>]
    /\ call' = [q \in Calls |-> IF q \in ToSet(queue[c]) /\ call[q] = "pending"
                                THEN "error" ELSE call[q]]
    /\ UNCHANGED <<manager, workers, current, lost>>

-----------------------------------------------------------------------------
(* MCPManager.start: everybody waits for one _start_all.                   *)

Start ==
    /\ startTask = "none"
    /\ \/ /\ configured = "enabled"
          /\ \E c \in Conns : Opens(c) /\ startConn' = c
          /\ startTask' = "running" /\ status' = "connecting"
       \/ /\ configured # "enabled"
          /\ startTask' = "done" /\ UNCHANGED <<startConn, status, runner>>
    /\ UNCHANGED <<configured, installed, closed, workers, queue,
                   current, call, lost>>

StartDone ==
    /\ startTask = "running" /\ Ready(startConn)
    /\ startTask' = "done" /\ startConn' = None
    /\ \/ /\ Refused(startConn) /\ status' = "failed" /\ UNCHANGED installed
       \/ /\ ~Refused(startConn) /\ status' = "connected" /\ installed' = startConn
    /\ UNCHANGED <<configured, closed, workers, connections, call, lost>>

-----------------------------------------------------------------------------
(* upsert, remove, reconnect and close, by coroutine w.                    *)

(* upsert of an enabled server opens the replacement first ...             *)
UpsertEnabled(w) ==
    /\ startTask = "done" /\ worker[w] = "idle"
    /\ status' = "connecting"
    /\ \E c \in Conns : Opens(c) /\ opening' = [opening EXCEPT ![w] = c]
    /\ worker' = [worker EXCEPT ![w] = "connecting"]
    /\ UNCHANGED <<startTask, startConn, configured, installed, closed, victim,
                   queue, current, call, lost>>

(* ... then takes the place of whatever is installed by then.              *)
UpsertCommit(w) ==
    LET c == opening[w]
    IN  /\ worker[w] = "connecting" /\ Ready(c)
        /\ configured' = "enabled"
        /\ installed' = IF Refused(c) THEN None ELSE c
        /\ status' = IF Refused(c) THEN "failed" ELSE "connected"
        /\ opening' = [opening EXCEPT ![w] = None]
        /\ ClosesThen(w, installed, "idle")
        /\ UNCHANGED <<startTask, startConn, closed, runner, current,
                       call, lost>>

(* upsert of a disabled server has nothing to wait for.                    *)
UpsertDisabled(w) ==
    /\ startTask = "done" /\ worker[w] = "idle"
    /\ configured' = "disabled" /\ installed' = None /\ status' = "disabled"
    /\ ClosesThen(w, installed, "idle")
    /\ UNCHANGED <<startTask, startConn, closed, opening, runner, current,
                   call, lost>>

RemoveServer(w) ==
    /\ startTask = "done" /\ worker[w] = "idle"
    /\ configured' = "absent" /\ installed' = None /\ status' = "absent"
    /\ ClosesThen(w, installed, "idle")
    /\ UNCHANGED <<startTask, startConn, closed, opening, runner, current,
                   call, lost>>

(* reconnect: close the connection, then upsert the configuration it read. *)
Reconnect(w) ==
    /\ startTask = "done" /\ worker[w] = "idle" /\ configured = "enabled"
    /\ installed' = None /\ status' = "connecting"
    /\ ClosesThen(w, installed, "reconnecting")
    /\ UNCHANGED <<startTask, startConn, configured, closed, opening, runner,
                   current, call, lost>>

ReconnectOpens(w) ==
    /\ worker[w] = "reconnecting"
    /\ victim[w] # None => runner[victim[w]] = "done"
    /\ victim' = [victim EXCEPT ![w] = None]
    /\ status' = "connecting"
    /\ \E c \in Conns : Opens(c) /\ opening' = [opening EXCEPT ![w] = c]
    /\ worker' = [worker EXCEPT ![w] = "connecting"]
    /\ UNCHANGED <<startTask, startConn, configured, installed, closed,
                   queue, current, call, lost>>

\* Bound: no connection is left for the replacement.
ReconnectGivesUp(w) ==
    /\ worker[w] = "reconnecting" /\ \A c \in Conns : runner[c] # "none"
    /\ victim[w] # None => runner[victim[w]] = "done"
    /\ victim' = [victim EXCEPT ![w] = None]
    /\ worker' = [worker EXCEPT ![w] = "idle"]
    /\ UNCHANGED <<manager, opening, connections, call, lost>>

(* The connection that was taken out of use has ended.                     *)
CloseDone(w) ==
    /\ worker[w] = "closing" /\ runner[victim[w]] = "done"
    /\ victim' = [victim EXCEPT ![w] = None]
    /\ worker' = [worker EXCEPT ![w] = "idle"]
    /\ UNCHANGED <<manager, opening, connections, call, lost>>

(* MCPManager.close: statuses and configurations stay as they are.         *)
CloseManager(w) ==
    /\ startTask # "running" /\ worker[w] = "idle"
    /\ closed' = TRUE /\ installed' = None
    /\ ClosesThen(w, installed, "idle")
    /\ UNCHANGED <<startTask, startConn, configured, status, opening, runner,
                   current, call, lost>>

-----------------------------------------------------------------------------
Usable == installed # None /\ runner[installed] # "done"

(* MCPManager.call and MCPConnection.call: from the look-up of the         *)
(* connection to the queue there is no await.                              *)
Call(q) ==
    /\ startTask = "done" /\ call[q] = "none"
    /\ \/ /\ ~Usable
          /\ call' = [call EXCEPT ![q] = "error"] /\ UNCHANGED queue
       \/ /\ Usable
          /\ call' = [call EXCEPT ![q] = "pending"]
          /\ queue' = [queue EXCEPT ![installed] = Append(@, q)]
    /\ UNCHANGED <<manager, workers, runner, current, lost>>

(* The tool execution that made the call is cancelled.                     *)
CancelCall(q) ==
    /\ call[q] = "pending"
    /\ call' = [call EXCEPT ![q] = "cancelled"]
    /\ UNCHANGED <<manager, workers, connections, lost>>

-----------------------------------------------------------------------------
RunnerWork(c) ==
    Open(c) \/ OpenFails(c) \/ Take(c) \/ Answer(c) \/ Leave(c) \/ FailQueued(c)
WorkerProceeds(w) ==
    UpsertCommit(w) \/ ReconnectOpens(w) \/ ReconnectGivesUp(w) \/ CloseDone(w)
WorkerBegins(w) ==
    UpsertEnabled(w) \/ UpsertDisabled(w) \/ RemoveServer(w) \/ Reconnect(w) \/ CloseManager(w)

Next ==
    \/ Start \/ StartDone
    \/ \E c \in Conns : RunnerWork(c) \/ TransportBreaks(c)
    \/ \E w \in Workers : WorkerBegins(w) \/ WorkerProceeds(w)
    \/ \E q \in Calls : Call(q) \/ CancelCall(q)

Spec == Init /\ [][Next]_vars

(***************************************************************************)
(* Fairness: the event loop runs every coroutine whose await is over, and  *)
(* asyncio.timeout bounds the opening of a transport and every call.  That *)
(* a session is closed in the end is assumed of the MCP library.           *)
(***************************************************************************)
Fairness ==
    /\ WF_vars(StartDone)
    /\ \A c \in Conns : WF_vars(RunnerWork(c))
    /\ \A w \in Workers : WF_vars(WorkerProceeds(w))

FairSpec == Spec /\ Fairness

-----------------------------------------------------------------------------
(* Properties.                                                             *)

(* A connection that has ended left no call in its queue: none was put     *)
(* there behind the request to stop, nor after the failure was told.       *)
EndedServedAll == \A c \in Conns : runner[c] = "done" =>
    \A q \in Calls : q \in ToSet(queue[c]) => call[q] # "pending"

(* No leak: a connection whose task has not ended is installed, or waited  *)
(* for by whoever opened it, or was asked to stop or is stopping.          *)
ConnectionsAccounted ==
    /\ TypeOK
    /\ \A c \in Conns : runner[c] \in {"opening"} \cup Running =>
          \/ installed = c \/ startConn = c \/ \E w \in Workers : opening[w] = c
          \/ None \in ToSet(queue[c]) \/ runner[c] \in {"leaving", "failing"}

(* The tools of an installed connection find its configuration:            *)
(* direct_tools reads _configs[server] for each connection.                *)
InstalledIsConfigured == installed # None => configured = "enabled"

(* However concurrent changes interleave, the status never claims a        *)
(* connection that the manager does not have.                              *)
ConnectedIsInstalled == status = "connected" => installed # None \/ closed

(* Each connection is asked to stop by one coroutine, and once.            *)
StoppedOnce ==
    /\ \A v, w \in Workers : victim[v] = victim[w] /\ victim[v] # None => v = w
    /\ \A c \in Conns : \A i, j \in DOMAIN queue[c] :
          queue[c][i] = None /\ queue[c][j] = None => i = j

(* Every tool call is answered, except one in flight in a broken transport.*)
CallsAnswered == \A q \in Calls : call[q] = "pending" ~> call[q] # "pending" \/ q \in lost

(* sync_configs, reconnect and close come to an end, although each waits   *)
(* for the calls queued before its request to stop.                        *)
ChangesFinish == \A w \in Workers : worker[w] # "idle" ~> worker[w] = "idle"

(* The manager's maps agree whatever changes overlap at their awaits: a    *)
(* connection has its configuration, the status has its connection, each   *)
(* connection is stopped once, and one that ended owes nobody an answer.   *)
MapsAgree ==
    /\ InstalledIsConfigured
    /\ ConnectedIsInstalled
    /\ StoppedOnce
    /\ EndedServedAll

(* Tool calls are answered, and changes of a server come to an end.        *)
CallsAndChangesEnd == CallsAnswered /\ ChangesFinish

=============================================================================
