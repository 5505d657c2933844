----------------------------- MODULE Workspaces ------------------------------
(***************************************************************************)
(* The runtime of one registered project (server/chump_server/workspaces.py*)
(* and projects.py): WorkspaceRuntimeMap.get starts it lazily in a task    *)
(* shared by concurrent requests, remove_project (main.py) evicts it and   *)
(* then removes the project from the registry, close() ends them all.      *)
(*                                                                         *)
(* Projects share nothing but the lock of the map, so one is modelled.     *)
(* The lock is an asyncio.Lock: first come, first served.  A section under *)
(* it contains no await that another coroutine could run in, except the    *)
(* close() of a runtime that nobody else knows; so a section is one step   *)
(* of the waiter at the head of lockQueue.  The registry's own lock makes  *)
(* each of its operations one step too.                                    *)
(***************************************************************************)
EXTENDS Naturals, Sequences, FiniteSets

CONSTANTS
    Requests, \* concurrent HTTP requests for this project
    Tasks,    \* bound: start tasks ever created; a task names its runtime
    None

ASSUME ActorsApart == Requests \cap Tasks = {} /\ None \notin Requests \cup Tasks

VARIABLES
    registered, \* the project is in the registry
    installed,  \* _runtimes[project_id]
    start,      \* _starts[project_id]
    lockQueue,  \* who waits for _lock, in order
    task,       \* state of each start task
    result,     \* what each start task returned
    runtime,    \* state of the runtime each task built
    request,    \* where each request stands
    waitsFor,   \* the task a request awaits
    handle,     \* the runtime a request works with
    victim,     \* the runtime a request evicts
    up          \* the server has not shut down

requests == <<request, waitsFor, handle, victim>>
vars == <<registered, installed, start, lockQueue, task, result, runtime, requests, up>>

TaskStates == {"none", "lookup", "install", "done"}
RequestStates == {"idle", "getLock", "await", "getDone", "using",
                  "evictLock", "closing", "unregister"}

TypeOK ==
    /\ registered \in BOOLEAN /\ up \in BOOLEAN
    /\ installed \in Tasks \cup {None} /\ start \in Tasks \cup {None}
    /\ lockQueue \in Seq(Requests \cup Tasks)
    /\ task \in [Tasks -> TaskStates]
    /\ result \in [Tasks -> Tasks \cup {None}]
    /\ runtime \in [Tasks -> {"none", "open", "closed"}]
    /\ request \in [Requests -> RequestStates]
    /\ waitsFor \in [Requests -> Tasks \cup {None}]
    /\ handle \in [Requests -> Tasks \cup {None}]
    /\ victim \in [Requests -> Tasks \cup {None}]
    /\ \A r \in Requests :
          /\ request[r] = "using" => handle[r] # None
          /\ request[r] = "closing" => victim[r] # None

Init ==
    /\ registered = TRUE /\ up = TRUE
    /\ installed = None /\ start = None /\ lockQueue = <<>>
    /\ task = [t \in Tasks |-> "none"]
    /\ result = [t \in Tasks |-> None]
    /\ runtime = [t \in Tasks |-> "none"]
    /\ request = [r \in Requests |-> "idle"]
    /\ waitsFor = [r \in Requests |-> None]
    /\ handle = [r \in Requests |-> None]
    /\ victim = [r \in Requests |-> None]

HasLock(a) == lockQueue # <<>> /\ Head(lockQueue) = a
Goto(r, state) == request' = [request EXCEPT ![r] = state]
Uses(r, t) == handle' = [handle EXCEPT ![r] = t]

-----------------------------------------------------------------------------
(* Faulty forms of the actions below, no part of Spec.                     *)

\* Every request that finds no runtime starts one.
GetLockedStartsAgain(r) ==
    /\ request[r] = "getLock" /\ HasLock(r)
    /\ lockQueue' = Tail(lockQueue)
    /\ \/ /\ installed # None
          /\ Goto(r, "using") /\ Uses(r, installed)
          /\ UNCHANGED <<start, task, waitsFor>>
       \/ /\ installed = None
          /\ \E t \in Tasks :
                /\ task[t] = "none"
                /\ task' = [task EXCEPT ![t] = "lookup"] /\ start' = t
                /\ waitsFor' = [waitsFor EXCEPT ![r] = t]
          /\ Goto(r, "await") /\ UNCHANGED handle
    /\ UNCHANGED <<registered, installed, result, runtime, victim, up>>

\* The lock is not given back when the start failed.
GetDoneKeepsLock(r) ==
    /\ request[r] = "getDone" /\ HasLock(r)
    /\ lockQueue' = IF result[waitsFor[r]] = None THEN lockQueue ELSE Tail(lockQueue)
    /\ start' = IF start = waitsFor[r] THEN None ELSE start
    /\ waitsFor' = [waitsFor EXCEPT ![r] = None]
    /\ Uses(r, result[waitsFor[r]])
    /\ Goto(r, IF result[waitsFor[r]] = None THEN "idle" ELSE "using")
    /\ UNCHANGED <<registered, installed, task, result, runtime, victim, up>>

\* The runtime is closed and stays in the map.
EvictKeepsEntry(r) ==
    /\ request[r] = "evictLock" /\ HasLock(r)
    /\ lockQueue' = Tail(lockQueue)
    /\ victim' = [victim EXCEPT ![r] = installed]
    /\ Goto(r, IF installed = None THEN "unregister" ELSE "closing")
    /\ UNCHANGED <<registered, installed, start, task, result, runtime, waitsFor,
                   handle, up>>

-----------------------------------------------------------------------------
(* WorkspaceRuntimeMap.get, by the request r of a client.                  *)

(* The first look at the map needs no lock.                                *)
Get(r) ==
    /\ up /\ request[r] = "idle"
    /\ \/ /\ installed # None
          /\ Goto(r, "using") /\ Uses(r, installed) /\ UNCHANGED lockQueue
       \/ /\ installed = None
          /\ Goto(r, "getLock") /\ lockQueue' = Append(lockQueue, r)
          /\ UNCHANGED handle
    /\ UNCHANGED <<registered, installed, start, task, result, runtime, waitsFor,
                   victim, up>>

(* Under the lock: use the runtime, join the start or begin one.           *)
GetLocked(r) ==
    /\ request[r] = "getLock" /\ HasLock(r)
    /\ lockQueue' = Tail(lockQueue)
    /\ \/ /\ installed # None
          /\ Goto(r, "using") /\ Uses(r, installed)
          /\ UNCHANGED <<start, task, waitsFor>>
       \/ /\ installed = None /\ start # None
          /\ Goto(r, "await") /\ waitsFor' = [waitsFor EXCEPT ![r] = start]
          /\ UNCHANGED <<start, task, handle>>
       \/ /\ installed = None /\ start = None
          /\ \E t \in Tasks :
                /\ task[t] = "none"
                /\ task' = [task EXCEPT ![t] = "lookup"] /\ start' = t
                /\ waitsFor' = [waitsFor EXCEPT ![r] = t]
          /\ Goto(r, "await") /\ UNCHANGED handle
    /\ UNCHANGED <<registered, installed, result, runtime, victim, up>>

\* Bound: no task is left to begin, so the request gives up.
GetGivesUp(r) ==
    /\ request[r] = "getLock" /\ HasLock(r)
    /\ installed = None /\ start = None /\ \A t \in Tasks : task[t] # "none"
    /\ lockQueue' = Tail(lockQueue) /\ Goto(r, "idle")
    /\ UNCHANGED <<registered, installed, start, task, result, runtime, waitsFor,
                   handle, victim, up>>

(* await task, then the finally clause asks for the lock ...               *)
GetAwoken(r) ==
    /\ request[r] = "await" /\ task[waitsFor[r]] = "done"
    /\ Goto(r, "getDone") /\ lockQueue' = Append(lockQueue, r)
    /\ UNCHANGED <<registered, installed, start, task, result, runtime, waitsFor,
                   handle, victim, up>>

(* ... and takes the start out of the map if it is still this one.         *)
GetDone(r) ==
    /\ request[r] = "getDone" /\ HasLock(r)
    /\ lockQueue' = Tail(lockQueue)
    /\ start' = IF start = waitsFor[r] THEN None ELSE start
    /\ waitsFor' = [waitsFor EXCEPT ![r] = None]
    /\ Uses(r, result[waitsFor[r]])
    /\ Goto(r, IF result[waitsFor[r]] = None THEN "idle" ELSE "using")
    /\ UNCHANGED <<registered, installed, task, result, runtime, victim, up>>

(* The request is answered.                                                *)
Respond(r) ==
    /\ request[r] = "using"
    /\ Goto(r, "idle") /\ Uses(r, None)
    /\ UNCHANGED <<registered, installed, start, lockQueue, task, result, runtime,
                   waitsFor, victim, up>>

-----------------------------------------------------------------------------
(* WorkspaceRuntimeMap._create, by task t.                                 *)

(* The registry is read; a runtime is built (storage, search, MCP), unless *)
(* the project is not registered or its configuration does not load.       *)
Lookup(t) ==
    /\ task[t] = "lookup"
    /\ \/ /\ registered
          /\ task' = [task EXCEPT ![t] = "install"]
          /\ runtime' = [runtime EXCEPT ![t] = "open"]
          /\ lockQueue' = Append(lockQueue, t)
       \/ /\ task' = [task EXCEPT ![t] = "done"]
          /\ UNCHANGED <<runtime, lockQueue>>
    /\ UNCHANGED <<registered, installed, start, result, requests, up>>

(* Under the lock: install the runtime, or close it in favour of another.  *)
Install(t) ==
    /\ task[t] = "install" /\ HasLock(t)
    /\ lockQueue' = Tail(lockQueue)
    /\ task' = [task EXCEPT ![t] = "done"]
    /\ installed' = IF installed = None THEN t ELSE installed
    /\ result' = [result EXCEPT ![t] = installed']
    /\ runtime' = [runtime EXCEPT ![t] = IF installed = None THEN "open" ELSE "closed"]
    /\ UNCHANGED <<registered, start, requests, up>>

-----------------------------------------------------------------------------
(* remove_project and register, by request r.                              *)

RemoveCheck(r) ==
    /\ up /\ request[r] = "idle" /\ registered
    /\ Goto(r, "evictLock") /\ lockQueue' = Append(lockQueue, r)
    /\ UNCHANGED <<registered, installed, start, task, result, runtime, waitsFor,
                   handle, victim, up>>

(* evict pops the runtime under the lock ...                               *)
Evict(r) ==
    /\ request[r] = "evictLock" /\ HasLock(r)
    /\ lockQueue' = Tail(lockQueue)
    /\ victim' = [victim EXCEPT ![r] = installed] /\ installed' = None
    /\ Goto(r, IF installed = None THEN "unregister" ELSE "closing")
    /\ UNCHANGED <<registered, start, task, result, runtime, waitsFor, handle, up>>

(* ... and closes it after the lock was released.                          *)
EvictClose(r) ==
    /\ request[r] = "closing"
    /\ runtime' = [runtime EXCEPT ![victim[r]] = "closed"]
    /\ victim' = [victim EXCEPT ![r] = None]
    /\ Goto(r, "unregister")
    /\ UNCHANGED <<registered, installed, start, lockQueue, task, result, waitsFor,
                   handle, up>>

(* ProjectRegistry.remove.                                                 *)
Unregister(r) ==
    /\ request[r] = "unregister"
    /\ registered' = FALSE /\ Goto(r, "idle")
    /\ UNCHANGED <<installed, start, lockQueue, task, result, runtime, waitsFor,
                   handle, victim, up>>

(* ProjectRegistry.register, by a request to add the project.              *)
Register(r) ==
    /\ up /\ request[r] = "idle" /\ ~registered
    /\ registered' = TRUE
    /\ UNCHANGED <<installed, start, lockQueue, task, result, runtime, requests, up>>

(* Shutdown: once the requests are answered, close() closes what is in the *)
(* map.                                                                    *)
Shutdown ==
    /\ up /\ \A r \in Requests : request[r] = "idle"
    /\ up' = FALSE /\ installed' = None
    /\ runtime' = [t \in Tasks |-> IF t = installed THEN "closed" ELSE runtime[t]]
    /\ UNCHANGED <<registered, start, lockQueue, task, result, requests>>

-----------------------------------------------------------------------------
GetNext(r) ==
    Get(r) \/ GetLocked(r) \/ GetGivesUp(r) \/ GetAwoken(r) \/ GetDone(r) \/ Respond(r)
RemoveNext(r) == RemoveCheck(r) \/ Evict(r) \/ EvictClose(r) \/ Unregister(r)
TaskNext(t) == Lookup(t) \/ Install(t)

Next ==
    \/ \E r \in Requests : GetNext(r) \/ RemoveNext(r) \/ Register(r)
    \/ \E t \in Tasks : TaskNext(t)
    \/ Shutdown

Spec == Init /\ [][Next]_vars

(* The event loop resumes every coroutine whose await is over.             *)
Proceeds(r) ==
    \/ GetLocked(r) \/ GetGivesUp(r) \/ GetAwoken(r) \/ GetDone(r) \/ Respond(r)
    \/ Evict(r) \/ EvictClose(r) \/ Unregister(r)

Fairness ==
    /\ \A r \in Requests : WF_vars(Proceeds(r))
    /\ \A t \in Tasks : WF_vars(TaskNext(t))

FairSpec == Spec /\ Fairness

-----------------------------------------------------------------------------
(* Properties.                                                             *)

Starting == {t \in Tasks : task[t] \in {"lookup", "install"}}

(* Concurrent requests share one start: two tasks never build runtimes of  *)
(* one project, with two connections to its database, at the same time.    *)
OneStartAtATime == \A t, u \in Starting : t = u

(* A task that is about to install never finds a runtime installed by      *)
(* another: the branch that discards a runtime just built is not needed as *)
(* long as no request is cancelled.                                        *)
NothingBuiltInVain == \A t \in Tasks : task[t] = "install" => installed = None

(* No leak: a runtime whose resources are open is the installed one, or a  *)
(* task is about to install it, or an eviction is about to close it.       *)
OpenIsAccounted ==
    \A t \in Tasks : runtime[t] = "open" =>
        \/ installed = t
        \/ task[t] = "install"
        \/ \E r \in Requests : request[r] = "closing" /\ victim[r] = t

(* The map never hands out a runtime that was closed.                      *)
InstalledIsOpen == installed # None => runtime[installed] = "open"

(* After an orderly shutdown no storage, search index or MCP process of a  *)
(* workspace is left open, although close() does not look at the starts.   *)
ShutdownClosesAll == ~up => \A t \in Tasks : runtime[t] # "open"

(* Every request is answered: a start that fails or is evicted in between  *)
(* leaves nobody waiting.                                                  *)
RequestsAnswered == \A r \in Requests : request[r] # "idle" ~> request[r] = "idle"

(* Requests that want one project share one start, which is not repeated   *)
(* once it has built a runtime (workspaces.py: get).                       *)
StartsAreShared == OneStartAtATime /\ NothingBuiltInVain

(* Opened resources are owned by somebody who will close them, the map     *)
(* hands out no closed runtime, and a shutdown leaves none open.           *)
RuntimesAccounted == TypeOK /\ OpenIsAccounted /\ InstalledIsOpen /\ ShutdownClosesAll

=============================================================================
