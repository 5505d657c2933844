----------------------------- MODULE Installation -----------------------------
(***************************************************************************)
(* Where the terminal client gets its chump-server from: the runtime an    *)
(* npm installation downloads before it first starts one                   *)
(* (client/src/app/server-runtime-install.ts), and the server beside a     *)
(* standalone binary, which "chump update" replaces (update.ts); and which *)
(* of the executables that lie about is taken (server-command.ts).         *)
(*                                                                         *)
(* Any number of clients do this at once, each may be killed at any step,  *)
(* and any step may fail; they share the directories and nothing else.  A  *)
(* rename is one step, removing a directory is not.                        *)
(***************************************************************************)
EXTENDS Naturals, FiniteSets

CONSTANTS
    Clients,    \* client processes
    MaxVersion, \* bound: releases of the server
    MaxRuns     \* bound: clients run

\* What the constants are.
Assumptions ==
    /\ {MaxVersion, MaxRuns} \subseteq Nat

VARIABLES
    kind,    \* "npm" or "standalone"
    runtime, \* npm: the installed runtime, "none", "partial" or "whole"
    loose,   \* standalone: chump-server-<platform> beside the binary
    server,  \* standalone: the server directory
    latest,  \* the last release, and whether it has an archive
    client,  \* what each client does, and the version it wants
    runs,
    started, \* history: the states of what clients started
    broken   \* history: a client failed or was killed while it replaced the server

files == <<runtime, loose, server>>
vars == <<kind, files, latest, client, runs, started, broken>>

-----------------------------------------------------------------------------
None == 0
NoDir == [exe |-> None, asset |-> None, whole |-> TRUE]
Idle == [pc |-> "idle", want |-> None]

\* isStandaloneBinary; a source checkout has neither (isSourceCheckout).
Kinds == {"npm", "standalone"}

\* installedServerRuntimePath: there is something at it.
Installed == runtime # "none"

\* bundledServerCandidates, bundledServerPath: the first that exists.
Used ==
    IF loose # None THEN loose
    ELSE IF server.asset # None THEN server.asset ELSE server.exe

At(c, pc) == client[c].pc = pc
Go(c, pc) == client' = [client EXCEPT ![c].pc = pc]
Stop(c) == client' = [client EXCEPT ![c] = Idle]

\* What a client that replaces the server has taken away and not put back.
Replacing(c) == client[c].pc \in {"removing", "removed"}

-----------------------------------------------------------------------------
(* npm: installServerRuntimeWith.                                          *)

\* resolveServerCommand, prepareNpmServerRuntime
Begin(c) ==
    /\ kind = "npm" /\ At(c, "idle") /\ runs < MaxRuns
    /\ runs' = runs + 1
    /\ IF Installed THEN Go(c, "installed") ELSE Go(c, "fetch")
    /\ UNCHANGED <<kind, files, latest, started, broken>>

\* Faulty: the archive is extracted where the runtime belongs.
ExtractInPlace(c) ==
    /\ At(c, "fetch")
    /\ IF Installed THEN UNCHANGED runtime ELSE runtime' = "partial"
    /\ Go(c, "extracted")
    /\ UNCHANGED <<kind, loose, server, latest, runs, started, broken>>

\* downloadArchive and extractArchive, into a directory of this process.
Extract(c) ==
    /\ At(c, "fetch")
    /\ Go(c, "extracted")
    /\ UNCHANGED <<kind, files, latest, runs, started, broken>>

\* The runtime is moved into its place; where there is one already, or the
\* move fails although there is one, that is as good.
Place(c, works) ==
    /\ At(c, "extracted")
    /\ IF Installed \/ works THEN Go(c, "installed") ELSE Stop(c)
    /\ runtime' = IF works /\ runtime # "whole" THEN "whole" ELSE runtime
    /\ UNCHANGED <<kind, loose, server, latest, runs, started, broken>>

\* The server is started.
Start(c) ==
    /\ At(c, "installed")
    /\ started' = started \union {runtime}
    /\ Stop(c)
    /\ UNCHANGED <<kind, files, latest, runs, broken>>

-----------------------------------------------------------------------------
(* Standalone: runUpdateCommand, updateStandaloneBinary.                   *)

\* A release of the server, with an archive or a single executable.
Release(archive) ==
    /\ kind = "standalone" /\ latest.version < MaxVersion
    /\ latest' = [version |-> latest.version + 1, archive |-> archive]
    /\ UNCHANGED <<kind, files, client, runs, started, broken>>

\* readBundledServerVersion: the server is started and asked.
ReportedVersion == IF server.whole THEN Used ELSE None

\* checkForUpdate: a server that reports no version has no update.
UpdateAvailable == ReportedVersion # None /\ ReportedVersion < latest.version

\* updateStandaloneBinary, updateBundledServerBinary: what is to be done.
Download ==
    [pc |-> IF latest.archive THEN "archive" ELSE "binary", want |-> latest.version]

\* runUpdateCommand; CHUMP_UPDATE_FORCE compares nothing.
Check(c, force) ==
    /\ kind = "standalone" /\ At(c, "idle") /\ runs < MaxRuns
    /\ runs' = runs + 1
    /\ force \/ UpdateAvailable
    /\ client' = [client EXCEPT ![c] = Download]
    /\ UNCHANGED <<kind, files, latest, started, broken>>

\* downloadFile, tar, or the executable is missing: nothing was touched.
Fail(c) ==
    /\ client[c].pc \in {"fetch", "archive", "binary", "unpacked", "loaded"}
    /\ Stop(c)
    /\ UNCHANGED <<kind, files, latest, runs, started, broken>>

\* installBundledServerArchive up to the first rename.
Unpack(c) ==
    /\ At(c, "archive")
    /\ Go(c, "unpacked")
    /\ UNCHANGED <<kind, files, latest, runs, started, broken>>

\* rm -r of the old server begins.
RemoveOld(c) ==
    /\ At(c, "unpacked")
    /\ server' = IF server.exe = None /\ server.asset = None THEN server
                 ELSE [server EXCEPT !.whole = FALSE]
    /\ Go(c, "removing")
    /\ UNCHANGED <<kind, runtime, loose, latest, runs, started, broken>>

RemoveLoose == loose' = None

OldRemoved(c) ==
    /\ At(c, "removing")
    /\ server' = NoDir
    /\ RemoveLoose
    /\ Go(c, "removed")
    /\ UNCHANGED <<kind, runtime, latest, runs, started, broken>>

\* rename: refused when another client was faster.
PutNew(c) ==
    /\ At(c, "removed")
    /\ IF server = NoDir
       THEN server' = [NoDir EXCEPT !.exe = client[c].want] /\ Go(c, "updated")
       ELSE UNCHANGED server /\ Stop(c)
    /\ UNCHANGED <<kind, runtime, loose, latest, runs, started, broken>>

\* updateBundledServerBinary without an archive: mkdir, download, chmod.
Load(c) ==
    /\ At(c, "binary")
    /\ Go(c, "loaded")
    /\ UNCHANGED <<kind, files, latest, runs, started, broken>>

\* The old one goes, and the new one is moved into the server directory.
Replace(c) ==
    /\ At(c, "loaded")
    /\ RemoveLoose
    /\ server' = [server EXCEPT !.asset = client[c].want]
    /\ Go(c, "updated")
    /\ UNCHANGED <<kind, runtime, latest, runs, started, broken>>

Updated(c) ==
    /\ At(c, "updated")
    /\ Stop(c)
    /\ UNCHANGED <<kind, files, latest, runs, started, broken>>

\* Killed, or rm or rename fails: `finally` removes what was staged.
Killed(c) ==
    /\ client[c].pc # "idle"
    /\ broken' = (broken \/ Replacing(c))
    /\ Stop(c)
    /\ UNCHANGED <<kind, files, latest, runs, started>>

Init ==
    /\ kind \in Kinds
    /\ runtime = "none"
    /\ \/ loose = 1 /\ server = NoDir
       \/ loose = None /\ server \in {[NoDir EXCEPT !.exe = 1], [NoDir EXCEPT !.asset = 1]}
    /\ latest = [version |-> 1, archive |-> TRUE]
    /\ client = [c \in Clients |-> Idle]
    /\ runs = 0 /\ started = {} /\ broken = FALSE

Next ==
    \/ \E archive \in BOOLEAN : Release(archive)
    \/ \E c \in Clients :
         \/ Begin(c) \/ Extract(c) \/ Start(c)
         \/ \E b \in BOOLEAN : Place(c, b) \/ Check(c, b)
         \/ Unpack(c) \/ RemoveOld(c) \/ OldRemoved(c) \/ PutNew(c)
         \/ Load(c) \/ Replace(c) \/ Updated(c)
         \/ Fail(c) \/ Killed(c)

Spec == Init /\ [][Next]_vars

-----------------------------------------------------------------------------
(* Properties.                                                             *)

(* However many clients install at once, and wherever one is killed, what  *)
(* a client starts is a whole runtime (installServerRuntimeWith extracts   *)
(* elsewhere and moves the directory into place).                          *)
StartsWholeRuntime == started \subseteq {"whole"}

(* An update that fails leaves the server there was: without a server are  *)
(* only clients in the midst of replacing it, and those one of which was   *)
(* killed then (installBundledServerArchive checks the archive before it   *)
(* removes anything).                                                      *)
OldServerStays ==
    kind = "standalone" /\ ~broken =>
      Used # None \/ \E c \in Clients : Replacing(c)

(* After an update the new server is the one that is used, whatever forms  *)
(* of older ones lie beside it: of two clients the later one decides       *)
(* (bundledServerCandidates and the removals of update.ts).                *)
Updates ==
    \A c \in Clients : client'[c].pc = "updated" /\ client[c].pc # "updated" =>
      Used' = client[c].want

UpdatedIsUsed == [][Updates]_vars

-----------------------------------------------------------------------------
\* What holds of every state, and is what keeps an installation whole.

Steps == {"idle", "fetch", "extracted", "installed", "archive", "binary", "unpacked",
          "loaded", "removing", "removed", "updated"}

TypeOK ==
    /\ kind \in Kinds /\ runtime \in {"none", "whole"}
    /\ loose \in Nat
    /\ server \in [exe : Nat, asset : Nat, whole : BOOLEAN]
    /\ latest \in [version : Nat \ {0}, archive : BOOLEAN]
    /\ client \in [Clients -> [pc : Steps, want : Nat]]

\* A client that is about to start or to replace the server has what it needs.
ReadyToGo ==
    \A c \in Clients :
      /\ client[c].pc = "installed" => runtime = "whole"
      /\ client[c].pc \in {"archive", "binary", "unpacked", "loaded", "removing", "removed"} =>
           client[c].want # None
      /\ client[c].pc = "removed" => loose = None

\* A directory that is being removed is that of a server.
HalfIsOfServer == ~server.whole => server.exe # None \/ server.asset # None

InstallInv ==
    /\ TypeOK /\ ReadyToGo /\ HalfIsOfServer
    /\ StartsWholeRuntime /\ OldServerStays
=============================================================================
