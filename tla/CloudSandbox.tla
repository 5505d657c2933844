----------------------------- MODULE CloudSandbox -----------------------------
(***************************************************************************)
(* The cloud sandbox (chump-cloud/src/index.ts): a container that runs     *)
(* chump-server on a workspace, and the backup of that workspace.          *)
(*                                                                         *)
(* The container's disk is lost when it stops.  The bucket keeps two       *)
(* objects per sandbox: the handle of the last backup and the state of the *)
(* workspace, with the time of the last backup.  Each request is handled   *)
(* by a worker of its own; nothing but the bucket and the container is     *)
(* shared, and every await is a point where the others go on.              *)
(*                                                                         *)
(* The disk is what properties tell apart: the turns whose work is on it,  *)
(* the directories, and the file that names the workspace.                 *)
(***************************************************************************)
EXTENDS Naturals, FiniteSets

CONSTANTS
    Paths,     \* directories under /workspace
    Repo,      \* /workspace/repo, what an unnamed workspace is called
    Starts,    \* requests to start the sandbox
    Tasks,     \* backups under way
    Overlap,   \* whether requests overlap, and containers stop in their midst
    MaxTurns,  \* bound: turns
    MaxStarts, \* bound: starts
    MaxFaults, \* bound: steps that fail, containers and servers that stop
    None

\* A /workspace, and a backup of it.
Disks == [done : SUBSET Nat, dirs : SUBSET Paths, path : Paths \cup {None}]
Backups == [files : Disks, path : Paths \cup {None}]

\* What the constants are.
Assumptions ==
    /\ Repo \in Paths /\ None \notin Paths \cup Backups
    /\ Overlap \in BOOLEAN
    /\ {MaxTurns, MaxStarts, MaxFaults} \subseteq Nat

VARIABLES
    disk,    \* /workspace of the container
    server,  \* the workspace chump-server runs in, or None
    handle,  \* workspace-backup.json
    record,  \* workspace-state.json
    start,   \* the handlers of /start
    task,    \* backupWorkspace, for a start, a proxied request or by hand
    turns, started, faults,
    saved,   \* history: turns that were in a stored backup since the last reset
    fresh,   \* history: a backup was stored in the last five minutes
    before,  \* history: turns made before the last reset
    risky    \* history: turns whose backup was not due, skipped, failed or given up

requests == <<start, task>>
bucket == <<handle, record>>
counts == <<turns, started, faults>>
history == <<saved, fresh, before, risky>>
vars == <<disk, server, bucket, requests, counts, history>>

-----------------------------------------------------------------------------
Empty == [done |-> {}, dirs |-> {}, path |-> None]

\* readWorkspacePath
WorkspacePath == IF disk.path = None THEN Repo ELSE disk.path

NoStart == [pc |-> "idle", want |-> None, reset |-> FALSE, path |-> None, stored |-> None]
NoTask == [pc |-> "idle", turn |-> 0, path |-> None, files |-> Empty]

Quiet == (\A s \in Starts : start[s].pc = "idle") /\ (\A t \in Tasks : task[t].pc = "idle")
MayCome == Overlap \/ Quiet

Step(s, pc) == start' = [start EXCEPT ![s].pc = pc]

-----------------------------------------------------------------------------
(* POST /start.                                                            *)

Begin(s) ==
    /\ MayCome /\ started < MaxStarts /\ started' = started + 1
    /\ start[s].pc = "idle"
    /\ \E want \in Paths, reset \in BOOLEAN :
          start' = [start EXCEPT ![s] = [NoStart EXCEPT !.pc = "check", !.want = want, !.reset = reset]]
    /\ UNCHANGED <<disk, server, bucket, task, turns, faults, history>>

\* isChumpServerReady
CheckReady(s) ==
    /\ start[s].pc = "check"
    /\ Step(s, IF start[s].reset THEN "clear" ELSE IF server # None THEN "fast" ELSE "fetch")
    /\ UNCHANGED <<disk, server, bucket, task, counts, history>>

\* A warm server in the right workspace is the answer.
FastResume(s) ==
    /\ start[s].pc = "fast"
    /\ start' = [start EXCEPT ![s] = IF WorkspacePath = @.want THEN NoStart ELSE [@ EXCEPT !.pc = "fetch"]]
    /\ UNCHANGED <<disk, server, bucket, task, counts, history>>

\* Faulty: the backup outlives the reset.
ClearStateOnly(s) ==
    /\ start[s].pc = "clear"
    /\ record' = None
    /\ saved' = {} /\ fresh' = FALSE /\ risky' = 1 .. turns
    /\ Step(s, "clean")
    /\ UNCHANGED <<disk, server, handle, task, counts, before>>

\* clearWorkspaceBackup
ClearBackup(s) ==
    /\ start[s].pc = "clear"
    /\ handle' = None /\ record' = None
    /\ saved' = {} /\ fresh' = FALSE /\ risky' = 1 .. turns
    /\ Step(s, "clean")
    /\ UNCHANGED <<disk, server, task, counts, before>>

\* cleanWorkspace: the server is killed and /workspace removed.
CleanWorkspace(s) ==
    /\ start[s].pc = "clean"
    /\ disk' = Empty /\ server' = None
    /\ before' = 1 .. turns
    /\ Step(s, "prepare")
    /\ UNCHANGED <<bucket, task, counts, saved, fresh, risky>>

\* restoreWorkspaceBackup: the handle is read ...
FetchBackup(s) ==
    /\ start[s].pc = "fetch"
    /\ start' = [start EXCEPT ![s] = [@ EXCEPT !.pc = IF handle = None THEN "prepare" ELSE "restore",
                                               !.stored = handle]]
    /\ UNCHANGED <<disk, server, bucket, task, counts, history>>

\* ... and what it names takes the place of /workspace, whatever was there and
\* whatever workspace was asked for.
RestoreBackup(s) ==
    /\ start[s].pc = "restore"
    /\ disk' = [start[s].stored.files EXCEPT !.path = start[s].stored.path]
    /\ start' = [start EXCEPT ![s] = [@ EXCEPT !.pc = "remember", !.path = start[s].stored.path]]
    /\ UNCHANGED <<server, bucket, task, counts, history>>

\* prepareWorkspace: cloned or made, unless it is there.
PrepareWorkspace(s) ==
    /\ start[s].pc = "prepare"
    /\ disk' = [disk EXCEPT !.dirs = @ \cup {start[s].want}, !.path = start[s].want]
    /\ start' = [start EXCEPT ![s] = [@ EXCEPT !.pc = "remember", !.path = start[s].want]]
    /\ UNCHANGED <<server, bucket, task, counts, history>>

\* rememberWorkspaceState keeps the time of the last backup.
WithPath(path) == [path |-> path, recent |-> record # None /\ record.recent]

Launch(path, turn, pc) ==
    \E t \in Tasks :
        /\ task[t].pc = "idle"
        /\ task' = [task EXCEPT ![t] = [NoTask EXCEPT !.pc = pc, !.path = path, !.turn = turn]]

\* A fresh workspace is backed up at once, beside the rest of the start.
Remember(s) ==
    /\ start[s].pc = "remember"
    /\ record' = WithPath(start[s].path)
    /\ IF start[s].stored = None THEN Launch(start[s].path, 0, "mark") ELSE UNCHANGED task
    /\ Step(s, "boot")
    /\ UNCHANGED <<disk, server, handle, counts, history>>

\* bootstrapChumpServer: a server that answers is left as it is.
Bootstrap(s) ==
    /\ start[s].pc = "boot"
    /\ server' = IF server = None THEN start[s].path ELSE server
    /\ Step(s, "wait")
    /\ UNCHANGED <<disk, bucket, task, counts, history>>

\* waitForChumpServerReady and exposePort; a server that does not answer in
\* time fails the start.
Ready(s) ==
    /\ start[s].pc = "wait"
    /\ start' = [start EXCEPT ![s] = NoStart]
    /\ UNCHANGED <<disk, server, bucket, task, counts, history>>

\* Any step may throw: a command fails or takes too long.
StartFails(s) ==
    /\ start[s].pc # "idle"
    /\ faults < MaxFaults /\ faults' = faults + 1
    /\ start' = [start EXCEPT ![s] = NoStart]
    /\ UNCHANGED <<disk, server, bucket, task, turns, started, history>>

-----------------------------------------------------------------------------
(* Proxied requests, and backups.                                          *)

\* shouldBackupAfterProxy: a chat or a change of the history, not what is done
\* in the terminal.
BacksUp(kind) == kind = "chat"

\* responseWithPostCompletionBackup: when the answer was read to its end.
AfterResponse(turn, whole) ==
    IF whole THEN Launch(None, turn, "auto") /\ UNCHANGED risky
             ELSE UNCHANGED task /\ risky' = risky \cup {turn}

\* Work through /connect.
Turn ==
    /\ MayCome /\ server # None /\ turns < MaxTurns
    /\ turns' = turns + 1
    /\ disk' = [disk EXCEPT !.done = @ \cup {turns + 1}]
    /\ \E kind \in {"chat", "terminal"}, whole \in BOOLEAN :
          AfterResponse(turns + 1, BacksUp(kind) /\ whole)
    /\ UNCHANGED <<server, bucket, start, started, faults, saved, fresh, before>>

Begun(t, path) == task' = [task EXCEPT ![t].pc = "mark", ![t].path = path]

\* backupCurrentWorkspace: no backup if there was one less than five minutes ago.
AutoBackup(t) ==
    /\ task[t].pc = "auto"
    /\ \/ /\ record = None
          /\ Begun(t, WorkspacePath) /\ record' = WithPath(WorkspacePath) /\ UNCHANGED risky
       \/ /\ record # None /\ ~record.recent
          /\ Begun(t, record.path) /\ UNCHANGED <<record, risky>>
       \/ /\ record # None /\ record.recent
          /\ task' = [task EXCEPT ![t] = NoTask] /\ risky' = risky \cup {task[t].turn}
          /\ UNCHANGED record
    /\ UNCHANGED <<disk, server, handle, start, counts, saved, fresh, before>>

\* POST /backup
ManualBackup ==
    /\ MayCome /\ (Overlap \/ server # None)
    /\ record' = WithPath(WorkspacePath)
    /\ Launch(WorkspacePath, 0, "mark")
    /\ UNCHANGED <<disk, server, handle, start, counts, history>>

\* backupWorkspace: the file that names the workspace is written ...
Mark(t) ==
    /\ task[t].pc = "mark"
    /\ disk' = [disk EXCEPT !.path = task[t].path]
    /\ task' = [task EXCEPT ![t].pc = "copy"]
    /\ UNCHANGED <<server, bucket, start, counts, history>>

\* ... createBackup copies /workspace ...
Copy(t) ==
    /\ task[t].pc = "copy"
    /\ task' = [task EXCEPT ![t].pc = "store", ![t].files = disk]
    /\ UNCHANGED <<disk, server, bucket, start, counts, history>>

\* ... and the copy becomes the backup of this sandbox.
Store(t) ==
    /\ task[t].pc = "store"
    /\ handle' = [files |-> task[t].files, path |-> task[t].path]
    /\ task' = [task EXCEPT ![t].pc = "note"]
    /\ saved' = saved \cup task[t].files.done
    /\ fresh' = TRUE
    /\ UNCHANGED <<disk, server, record, start, counts, before, risky>>

\* rememberWorkspaceBackup
Note(t) ==
    /\ task[t].pc = "note"
    /\ record' = [path |-> task[t].path, recent |-> TRUE]
    /\ task' = [task EXCEPT ![t] = NoTask]
    /\ UNCHANGED <<disk, server, handle, start, counts, history>>

TaskFails(t) ==
    /\ task[t].pc # "idle"
    /\ faults < MaxFaults /\ faults' = faults + 1
    /\ task' = [task EXCEPT ![t] = NoTask]
    /\ risky' = risky \cup {task[t].turn}
    /\ UNCHANGED <<disk, server, bucket, start, turns, started, saved, fresh, before>>

-----------------------------------------------------------------------------
(* The world around.                                                       *)

\* Five minutes pass.
Expire ==
    /\ MayCome /\ record # None /\ record.recent
    /\ record' = [record EXCEPT !.recent = FALSE]
    /\ fresh' = FALSE
    /\ UNCHANGED <<disk, server, handle, requests, counts, saved, before, risky>>

\* The container sleeps or is moved: the disk is gone.
ContainerStops ==
    /\ MayCome /\ faults < MaxFaults /\ faults' = faults + 1
    /\ disk' = Empty /\ server' = None
    /\ UNCHANGED <<bucket, requests, turns, started, history>>

\* CHUMP_MANAGED_SERVER_IDLE_TIMEOUT: the server exits, the container stays.
ServerExits ==
    /\ MayCome /\ server # None
    /\ faults < MaxFaults /\ faults' = faults + 1
    /\ server' = None
    /\ UNCHANGED <<disk, bucket, requests, turns, started, history>>

-----------------------------------------------------------------------------
Init ==
    /\ disk = Empty /\ server = None
    /\ handle = None /\ record = None
    /\ start = [s \in Starts |-> NoStart] /\ task = [t \in Tasks |-> NoTask]
    /\ turns = 0 /\ started = 0 /\ faults = 0
    /\ saved = {} /\ fresh = FALSE /\ before = {} /\ risky = {}

StartNext(s) ==
    \/ Begin(s) \/ CheckReady(s) \/ FastResume(s) \/ ClearBackup(s) \/ CleanWorkspace(s)
    \/ FetchBackup(s) \/ RestoreBackup(s) \/ PrepareWorkspace(s) \/ Remember(s)
    \/ Bootstrap(s) \/ Ready(s) \/ StartFails(s)
TaskNext(t) == AutoBackup(t) \/ Mark(t) \/ Copy(t) \/ Store(t) \/ Note(t) \/ TaskFails(t)
Next ==
    \/ \E s \in Starts : StartNext(s)
    \/ \E t \in Tasks : TaskNext(t)
    \/ Turn \/ ManualBackup \/ Expire \/ ContainerStops \/ ServerExits

Spec == Init /\ [][Next]_vars

-----------------------------------------------------------------------------
(* What a stored backup held is in the backup that the next start restores *)
(* until the user resets the sandbox: no later backup drops it ("The       *)
(* backup handle is stored in the same bucket and restored on the next     *)
(* /sandbox/phase1/start", chump-cloud/README.md).                         *)
SavedSurvives == saved # {} => handle # None /\ saved \subseteq handle.files.done

(* A reset forgets: once /workspace was removed, the work from before is   *)
(* neither on the disk nor in what a later start would restore, also when  *)
(* the rest of the start, or its first backup, fails.                      *)
ResetForgets ==
    /\ disk.done \cap before = {}
    /\ handle # None => handle.files.done \cap before = {}

(* Work is lost only if its own backup was skipped, less than five minutes *)
(* after the last, or failed, was never due, or if a reset gave it up:     *)
(* restoring over a container that kept its disk drops nothing else.       *)
LossIsBounded ==
    (1 .. turns) \ (before \cup disk.done \cup (IF handle = None THEN {} ELSE handle.files.done))
        \subseteq risky \cup {task[t].turn : t \in Tasks}

(* A backup is left out only if one was really stored in the last five     *)
(* minutes: the note of a backup is never older or newer than the backup.  *)
SkippedOnlyWhenSaved == record # None /\ record.recent => fresh /\ handle # None

-----------------------------------------------------------------------------
\* What holds of every state when requests do not overlap, and is why the
\* backups are safe.

Records == [path : Paths \cup {None}, recent : BOOLEAN]
StartHandlers ==
    [pc : {"idle", "check", "fast", "clear", "clean", "fetch", "restore", "prepare",
           "remember", "boot", "wait"},
     want : Paths \cup {None}, reset : BOOLEAN, path : Paths \cup {None},
     stored : Backups \cup {None}]
BackupTasks == [pc : {"idle", "auto", "mark", "copy", "store", "note"}, turn : Nat,
                path : Paths \cup {None}, files : Disks]

TypeOK ==
    /\ disk \in Disks /\ server \in Paths \cup {None}
    /\ handle \in Backups \cup {None} /\ record \in Records \cup {None}
    /\ start \in [Starts -> StartHandlers] /\ task \in [Tasks -> BackupTasks]
    /\ {turns, started, faults} \subseteq Nat
    /\ saved \subseteq Nat /\ fresh \in BOOLEAN /\ before \subseteq 1 .. turns
    /\ risky \subseteq Nat

Stored == IF handle = None THEN {} ELSE handle.files.done

\* One start at a time, and one backup, which is beside a start only when the
\* workspace is ready.
OneAtATime ==
    /\ \A r, s \in Starts : start[r].pc # "idle" /\ start[s].pc # "idle" => r = s
    /\ \A t, u \in Tasks : task[t].pc # "idle" /\ task[u].pc # "idle" => t = u
    /\ \A s \in Starts, t \in Tasks :
         task[t].pc # "idle" => start[s].pc \in {"idle", "boot", "wait"}

\* A start prepares an empty workspace only when there is no backup, and what
\* it restores is the backup.
StartsFromTheBackup ==
    \A s \in Starts :
      /\ start[s].pc # "idle" => start[s].want \in Paths
      /\ start[s].pc \in {"clean", "prepare"} => handle = None /\ saved = {}
      /\ start[s].pc = "restore" => start[s].stored = handle /\ handle # None
      /\ start[s].pc \in {"remember", "boot", "wait"} => saved \subseteq disk.done

\* A backup is made of a disk that holds what was saved before, and the turn
\* it is made for.
CopiesAreWhole ==
    /\ server # None => saved \subseteq disk.done
    /\ \A t \in Tasks :
         /\ task[t].pc # "idle" => saved \subseteq disk.done
         /\ task[t].pc \in {"auto", "mark", "copy"} => task[t].turn \in disk.done \cup {0}
         /\ task[t].pc = "store" =>
              task[t].files.done = disk.done /\ task[t].turn \in disk.done \cup {0}
         /\ task[t].pc = "note" => fresh /\ handle # None /\ task[t].turn \in Stored \cup {0}
         /\ task[t].pc = "idle" => task[t].turn = 0

\* The backup holds what was saved, and every other turn is at risk.
BackupIsOfTheSaved ==
    /\ Stored = saved /\ disk.done \subseteq 1 .. turns /\ Stored \subseteq 1 .. turns
    /\ (1 .. turns) \ (before \cup Stored) \subseteq risky \cup {task[t].turn : t \in Tasks}

SandboxInv ==
    /\ TypeOK /\ OneAtATime /\ StartsFromTheBackup /\ CopiesAreWhole /\ BackupIsOfTheSaved
    /\ SavedSurvives /\ ResetForgets /\ SkippedOnlyWhenSaved
=============================================================================
