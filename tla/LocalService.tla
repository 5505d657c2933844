---------------------------- MODULE LocalService -----------------------------
(***************************************************************************)
(* The one server of a user's machine: how clients find, start and stop it *)
(* (client/src/app/local-service.ts), and how the server publishes itself  *)
(* (server/chump_server/service.py, main.py).                              *)
(*                                                                         *)
(* Processes share a lock directory with an owner file, the registration   *)
(* file, and a fixed port that one process can be bound to.  A step is one *)
(* call of the file system or of the network; between any two of them      *)
(* another process may act, or this one die.  Removing the lock directory  *)
(* with what is in it is one step.                                         *)
(***************************************************************************)
EXTENDS Naturals, FiniteSets

CONSTANTS
    Clients,   \* client processes
    Servers,   \* bound: server processes
    Outdated,  \* servers of a version that clients replace
    Ops,       \* the operations clients ask for
    MayCrash,  \* processes may be killed
    MayAge,    \* a client may hold the lock beyond SERVICE_LOCK_STALE_MS
    MaySlow,   \* a server may take longer to answer than a client waits
    None

ASSUME Distinct == None \notin Clients \cup Servers
ASSUME AnswersApart == {"failed", "stopped", "notRunning"} \cap (Servers \cup {None}) = {}
ASSUME OutdatedServers == Outdated \subseteq Servers
ASSUME OpsAssumption == Ops \subseteq {"ensure", "run", "stop"}
ASSUME Switches == {MayCrash, MayAge, MaySlow} \subseteq BOOLEAN

VARIABLES
    lock,         \* the lock directory: NoLock, or who wrote owner.json, and its age
    registration, \* the server that service.json names
    port,         \* the server bound to the port
    server,       \* the state of each server process
    client,       \* where each client stands
    op,           \* the operation of each client
    seen,         \* the registration it read
    child,        \* the server it spawned
    answer,       \* what its operation returns
    wrongClear    \* history: a clear() removed a registration it had not read

clients == <<client, op, seen, child, answer>>
vars == <<lock, registration, port, server, clients, wrongClear>>

NoLock == [owner |-> None, old |-> FALSE, held |-> FALSE]
Bound == {"serving", "closing"}
Alive == {"starting", "registered", "cleaning", "unlinking"} \cup Bound
ServerStates == {"none", "exited", "killed"} \cup Alive
Waiting == {"mkdir", "checkOwner", "checkAge", "steal"}
UnderLock == {"read", "health", "shutdown", "waitExit", "clear", "unlink", "spawn",
              "wait", "waitHealth", "release"}
Answers == Servers \cup {None, "failed", "stopped", "notRunning"}

TypeOK ==
    /\ lock \in [owner : Clients \cup {None}, old : BOOLEAN, held : BOOLEAN]
    /\ ~lock.held => lock = NoLock
    /\ registration \in Servers \cup {None} /\ port \in Servers \cup {None}
    /\ server \in [Servers -> ServerStates]
    /\ client \in [Clients -> {"idle", "own", "dead"} \cup Waiting \cup UnderLock]
    /\ op \in [Clients -> Ops \cup {None}]
    /\ seen \in [Clients -> Servers \cup {None}]
    /\ child \in [Clients -> Servers \cup {None}]
    /\ answer \in [Clients -> Answers]
    /\ wrongClear \in BOOLEAN
    /\ \A s \in Servers : server[s] \in Bound <=> port = s
    /\ \A c \in Clients :
          /\ client[c] \in {"health", "shutdown", "waitExit", "clear", "unlink",
                            "waitHealth"} => seen[c] # None
          /\ client[c] \in {"wait", "waitHealth"} => child[c] # None

\* Nothing runs, or a server that an earlier version of the client started.
Init ==
    /\ lock = NoLock /\ wrongClear = FALSE
    /\ \/ port = None /\ registration = None /\ server = [s \in Servers |-> "none"]
       \/ \E o \in Outdated :
             /\ port = o /\ registration = o
             /\ server = [s \in Servers |-> IF s = o THEN "serving" ELSE "none"]
    /\ client = [c \in Clients |-> "idle"]
    /\ op = [c \in Clients |-> None]
    /\ seen = [c \in Clients |-> None]
    /\ child = [c \in Clients |-> None]
    /\ answer = [c \in Clients |-> None]

Goto(c, pc) == client' = [client EXCEPT ![c] = pc]
Reads(c) == seen' = [seen EXCEPT ![c] = registration]
Reply(c, a) == answer' = [answer EXCEPT ![c] = a]
Becomes(s, state) == server' = [server EXCEPT ![s] = state]

\* The operation is over, and its local state gone.
Returns(c) ==
    /\ Goto(c, "idle") /\ Reply(c, None)
    /\ op' = [op EXCEPT ![c] = None]
    /\ seen' = [seen EXCEPT ![c] = None] /\ child' = [child EXCEPT ![c] = None]

\* readServiceHealth names the registered process, or no answer came in time.
MayBeHealthy(s) == server[s] \in Bound
MayBeUnhealthy(s) == server[s] \notin Bound \/ MaySlow

\* Where an operation goes on when no registration is left.
AfterClear(c) == IF op[c] = "stop" THEN "release" ELSE "spawn"

-----------------------------------------------------------------------------
(* Faulty forms of the actions below, no part of Spec.                     *)

\* A lock directory without an owner file counts as stale.
CheckOwnerImpatient(c) ==
    /\ client[c] = "checkOwner"
    /\ Goto(c, IF lock.held /\ lock.owner = None THEN "steal" ELSE "checkAge")
    /\ UNCHANGED <<lock, registration, port, server, op, seen, child, answer, wrongClear>>

\* The deadline is never looked at.
GiveUpRetries(c) ==
    /\ client[c] = "checkAge" /\ ~lock.old
    /\ Goto(c, "mkdir")
    /\ UNCHANGED <<lock, registration, port, server, op, seen, child, answer, wrongClear>>

\* No child is killed.
StartFailsKeepsChild(c) ==
    /\ client[c] \in {"wait", "waitHealth"}
    /\ Goto(c, "release") /\ Reply(c, "failed")
    /\ UNCHANGED <<lock, registration, port, server, op, seen, child, wrongClear>>

-----------------------------------------------------------------------------
(* withServiceLock, by client c.                                           *)

Ask(c, o) ==
    /\ client[c] = "idle" /\ Goto(c, "mkdir")
    /\ op' = [op EXCEPT ![c] = o]
    /\ UNCHANGED <<lock, registration, port, server, seen, child, answer, wrongClear>>

Mkdir(c) ==
    /\ client[c] = "mkdir"
    /\ \/ /\ ~lock.held /\ lock' = [NoLock EXCEPT !.held = TRUE] /\ Goto(c, "own")
       \/ lock.held /\ Goto(c, "checkOwner") /\ UNCHANGED lock
    /\ UNCHANGED <<registration, port, server, op, seen, child, answer, wrongClear>>

(* A new entry renews the directory's time; one that is overwritten does   *)
(* not.  Without the directory the operation fails, and removes nothing.   *)
WriteOwner(c) ==
    /\ client[c] = "own"
    /\ \/ /\ lock.held
          /\ lock' = [held |-> TRUE, owner |-> c, old |-> lock.old /\ lock.owner # None]
          /\ Goto(c, "read") /\ UNCHANGED answer
          /\ UNCHANGED <<op, seen, child>>
       \/ ~lock.held /\ Returns(c) /\ UNCHANGED lock
    /\ UNCHANGED <<registration, port, server, wrongClear>>

(* serviceLockIsStale: first the process that owner.json names ...         *)
CheckOwner(c) ==
    /\ client[c] = "checkOwner"
    /\ Goto(c, IF lock.owner # None /\ client[lock.owner] = "dead" THEN "steal"
                                                                  ELSE "checkAge")
    /\ UNCHANGED <<lock, registration, port, server, op, seen, child, answer, wrongClear>>

(* ... then the age of the directory.                                      *)
CheckAge(c) ==
    /\ client[c] = "checkAge"
    /\ Goto(c, IF lock.old THEN "steal" ELSE "mkdir")
    /\ UNCHANGED <<lock, registration, port, server, op, seen, child, answer, wrongClear>>

(* A stale lock is removed, or whatever has taken its place by now.        *)
Steal(c) ==
    /\ client[c] = "steal"
    /\ lock' = NoLock /\ Goto(c, "mkdir")
    /\ UNCHANGED <<registration, port, server, op, seen, child, answer, wrongClear>>

(* The deadline has passed and the lock is not stale.                      *)
GiveUp(c) ==
    /\ client[c] = "checkAge" /\ ~lock.old
    /\ Returns(c)
    /\ UNCHANGED <<lock, registration, port, server, wrongClear>>

(* finally: remove the lock, whosever it is.                               *)
Release(c) ==
    /\ client[c] = "release"
    /\ lock' = NoLock /\ Returns(c)
    /\ UNCHANGED <<registration, port, server, wrongClear>>

-----------------------------------------------------------------------------
(* ensureLocalService, runLocalServiceForeground and stopLocalService.     *)

ReadRegistration(c) ==
    /\ client[c] = "read" /\ Reads(c)
    /\ \/ registration # None /\ Goto(c, "health") /\ UNCHANGED answer
       \/ registration = None /\ op[c] = "stop" /\ Goto(c, "release")
          /\ Reply(c, "notRunning")
       \/ registration = None /\ op[c] # "stop" /\ Goto(c, "spawn") /\ UNCHANGED answer
    /\ UNCHANGED <<lock, registration, port, server, op, child, wrongClear>>

(* runLocalServiceForeground takes any server, ensureLocalService one that *)
(* is up to date.                                                          *)
Reuses(c, s) == op[c] = "run" \/ (op[c] = "ensure" /\ s \notin Outdated)

(* A healthy server is the answer, or is to be stopped.                    *)
CheckHealth(c) ==
    LET s == seen[c]
        reuse == Reuses(c, s)
    IN  /\ client[c] = "health"
        /\ \/ MayBeHealthy(s) /\ reuse /\ Goto(c, "release") /\ Reply(c, s)
           \/ MayBeHealthy(s) /\ ~reuse /\ Goto(c, "shutdown") /\ UNCHANGED answer
           \/ /\ MayBeUnhealthy(s) /\ Goto(c, "clear")
              /\ Reply(c, IF op[c] = "stop" THEN "notRunning" ELSE None)
        /\ UNCHANGED <<lock, registration, port, server, op, seen, child, wrongClear>>

(* The request arrives or not, and the reply to it comes in time or not.   *)
RequestShutdown(c) ==
    LET s == seen[c]
        arrives == MayBeHealthy(s) /\ Becomes(s, "closing")
        misses == MayBeUnhealthy(s) /\ UNCHANGED server
    IN  /\ client[c] = "shutdown"
        /\ \/ arrives /\ Goto(c, "waitExit") /\ UNCHANGED answer
           \/ ((arrives /\ MaySlow) \/ misses) /\ Goto(c, "release") /\ Reply(c, "failed")
        /\ UNCHANGED <<lock, registration, port, op, seen, child, wrongClear>>

WaitForExit(c) ==
    /\ client[c] = "waitExit"
    /\ \/ /\ MayBeUnhealthy(seen[c]) /\ Goto(c, "clear")
          /\ Reply(c, IF op[c] = "stop" THEN "stopped" ELSE None)
       \/ MayBeHealthy(seen[c]) /\ Goto(c, "release") /\ Reply(c, "failed")
    /\ UNCHANGED <<lock, registration, port, server, op, seen, child, wrongClear>>

(* store.clear: the registration is read again ...                         *)
Clear(c) ==
    /\ client[c] = "clear"
    /\ Goto(c, IF registration = seen[c] THEN "unlink" ELSE AfterClear(c))
    /\ UNCHANGED <<lock, registration, port, server, op, seen, child, answer, wrongClear>>

(* ... and the file is removed, whatever is in it by now.                  *)
Unlink(c) ==
    /\ client[c] = "unlink" /\ Goto(c, AfterClear(c))
    /\ registration' = None
    /\ wrongClear' = (wrongClear \/ registration \notin {seen[c], None})
    /\ UNCHANGED <<lock, port, server, op, seen, child, answer>>

Spawn(c) ==
    /\ client[c] = "spawn"
    /\ \E s \in Servers \ Outdated :
          /\ server[s] = "none" /\ Becomes(s, "starting")
          /\ child' = [child EXCEPT ![c] = s]
    /\ Goto(c, "wait")
    /\ UNCHANGED <<lock, registration, port, op, seen, answer, wrongClear>>

SpawnFails(c) ==
    /\ client[c] = "spawn" /\ Goto(c, "release") /\ Reply(c, "failed")
    /\ UNCHANGED <<lock, registration, port, server, op, seen, child, wrongClear>>

(* waitForHealthyRegistration takes any server that is registered, not     *)
(* only the child.                                                         *)
PollRegistration(c) ==
    /\ client[c] = "wait" /\ registration # None
    /\ Reads(c) /\ Goto(c, "waitHealth")
    /\ UNCHANGED <<lock, registration, port, server, op, child, answer, wrongClear>>

PollHealth(c) ==
    LET s == seen[c]
    IN  /\ client[c] = "waitHealth"
        /\ \/ /\ MayBeHealthy(s) /\ s \notin Outdated
              /\ Goto(c, "release") /\ Reply(c, s)
           \/ MayBeUnhealthy(s) /\ Goto(c, "wait") /\ UNCHANGED answer
        /\ UNCHANGED <<lock, registration, port, server, op, seen, child, wrongClear>>

(* The child has exited, the version is wrong, or the time is up: ensure   *)
(* kills the child, run leaves it alone.                                   *)
StartFails(c) ==
    LET s == child[c]
        kills == op[c] = "ensure" /\ server[s] \in Alive
    IN  /\ client[c] \in {"wait", "waitHealth"}
        /\ server' = IF kills THEN [server EXCEPT ![s] = "killed"] ELSE server
        /\ port' = IF kills /\ port = s THEN None ELSE port
        /\ Goto(c, "release") /\ Reply(c, "failed")
        /\ UNCHANGED <<lock, registration, op, seen, child, wrongClear>>

-----------------------------------------------------------------------------
(* The server process s.                                                   *)

(* on_startup: the registration is linked into place before the port is    *)
(* bound; the link fails if another one is there.                          *)
Publish(s) ==
    /\ server[s] = "starting"
    /\ \/ registration = None /\ registration' = s /\ Becomes(s, "registered")
       \/ registration # None /\ Becomes(s, "exited") /\ UNCHANGED registration
    /\ UNCHANGED <<lock, port, clients, wrongClear>>

Bind(s) ==
    /\ server[s] = "registered"
    /\ \/ port = None /\ port' = s /\ Becomes(s, "serving")
       \/ port # None /\ Becomes(s, "cleaning") /\ UNCHANGED port
    /\ UNCHANGED <<lock, registration, clients, wrongClear>>

(* A signal ends a serving process in order, like /service/shutdown.       *)
Terminate(s) ==
    /\ server[s] = "serving" /\ Becomes(s, "closing")
    /\ UNCHANGED <<lock, registration, port, clients, wrongClear>>

(* The port is given back first, the registration last.                    *)
StopListening(s) ==
    /\ server[s] = "closing" /\ Becomes(s, "cleaning") /\ port' = None
    /\ UNCHANGED <<lock, registration, clients, wrongClear>>

(* on_cleanup and the finally of main(): clear reads, then unlinks.        *)
CleanUp(s) ==
    /\ server[s] = "cleaning"
    /\ Becomes(s, IF registration = s THEN "unlinking" ELSE "exited")
    /\ UNCHANGED <<lock, registration, port, clients, wrongClear>>

CleanUnlink(s) ==
    /\ server[s] = "unlinking" /\ Becomes(s, "exited")
    /\ registration' = None
    /\ wrongClear' = (wrongClear \/ registration \notin {s, None})
    /\ UNCHANGED <<lock, port, clients>>

-----------------------------------------------------------------------------
(* What may go wrong.                                                      *)

ClientDies(c) ==
    /\ MayCrash /\ client[c] \notin {"idle", "dead"} /\ Goto(c, "dead")
    /\ UNCHANGED <<lock, registration, port, server, op, seen, child, answer, wrongClear>>

ServerDies(s) ==
    /\ MayCrash /\ server[s] \in Alive /\ Becomes(s, "killed")
    /\ port' = IF port = s THEN None ELSE port
    /\ UNCHANGED <<lock, registration, clients, wrongClear>>

LockAges ==
    /\ MayAge /\ lock.held /\ ~lock.old
    /\ lock' = [lock EXCEPT !.old = TRUE]
    /\ UNCHANGED <<registration, port, server, clients, wrongClear>>

-----------------------------------------------------------------------------
TakeLock(c) == Mkdir(c) \/ WriteOwner(c) \/ CheckOwner(c) \/ CheckAge(c) \/ Steal(c)
StopServer(c) == RequestShutdown(c) \/ WaitForExit(c) \/ Clear(c) \/ Unlink(c)
StartServer(c) ==
    Spawn(c) \/ SpawnFails(c) \/ PollRegistration(c) \/ PollHealth(c) \/ StartFails(c)
ServerNext(s) == Publish(s) \/ Bind(s) \/ StopListening(s) \/ CleanUp(s) \/ CleanUnlink(s)

Next ==
    \/ \E c \in Clients :
          \/ \E o \in Ops : Ask(c, o)
          \/ TakeLock(c) \/ GiveUp(c) \/ Release(c)
          \/ ReadRegistration(c) \/ CheckHealth(c) \/ StopServer(c) \/ StartServer(c)
          \/ ClientDies(c)
    \/ \E s \in Servers : ServerNext(s) \/ Terminate(s) \/ ServerDies(s)
    \/ LockAges

Spec == Init /\ [][Next]_vars

-----------------------------------------------------------------------------
(* Fairness: a client that lives goes on, waits end at their deadlines, a  *)
(* server starts and stops.  No client must ask.                           *)

Fairness ==
    /\ \A c \in Clients :
          /\ WF_vars(TakeLock(c) \/ Release(c) \/ ReadRegistration(c) \/ CheckHealth(c)
                     \/ StopServer(c) \/ StartServer(c))
          /\ SF_vars(GiveUp(c)) /\ WF_vars(StartFails(c))
    /\ \A s \in Servers : WF_vars(ServerNext(s))

FairSpec == Spec /\ Fairness

-----------------------------------------------------------------------------
Inside == {c \in Clients : client[c] \in {"own"} \cup UnderLock}

(* withServiceLock excludes as long as no holder dies or is slow: two      *)
(* operations never overlap, from the first file to the last.              *)
OneHolder == \A c, d \in Inside : c = d

(* A server that is up can be found, reused and stopped by the next        *)
(* client, unless a clear() hit its registration by mistake.               *)
ServingIsRegistered ==
    ~wrongClear => \A s \in Servers : server[s] = "serving" => registration = s

(* `chump stop` says that no service runs, or that it stopped it, only     *)
(* when none runs, with the same exception.                                *)
StopIsTrue ==
    ~wrongClear => \A c \in Clients :
        client[c] = "release" /\ answer[c] \in {"notRunning", "stopped"} => port = None

(* A server that ends in order, also one that could not bind its port,     *)
(* leaves no registration behind.                                          *)
ExitedIsUnregistered == \A s \in Servers : server[s] = "exited" => registration # s

(* An operation ends, although a client may die at any step, inside the    *)
(* lock or not, servers may die or be slow, and the lock a dead client     *)
(* left may never be found stale - unless locks keep ageing for ever, as   *)
(* withServiceLock does not look at its deadline when it steals one.       *)
OperationsEnd ==
    \/ []<><<LockAges>>_vars
    \/ \A c \in Clients : client[c] # "idle" ~> client[c] \in {"idle", "dead"}

(* Operations under the service lock exclude each other, and a server that *)
(* ended in order, also one that could not bind, is registered no more.    *)
LockAndRegistryHold == OneHolder /\ ExitedIsUnregistered

(* No server is lost: one that is up can be found by its registration, and *)
(* a stop that says there is none tells the truth (local-service.ts).      *)
ServersAreAccounted == TypeOK /\ ServingIsRegistered /\ StopIsTrue

=============================================================================
