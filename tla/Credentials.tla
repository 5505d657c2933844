----------------------------- MODULE Credentials ------------------------------
(***************************************************************************)
(* The credentials of the model providers: auth.json, the commands of the  *)
(* client that change it (client/src/app/auth.ts, and /model and /thinking *)
(* in app.ts), the sign-ins they go through (codex-auth.ts, xai-auth.ts,   *)
(* github-copilot-auth.ts) and the sessions of the server, which renew a   *)
(* token with the copy of the file they loaded with their model.           *)
(*                                                                         *)
(* Nobody locks the file: each writer reads it, changes its copy and       *)
(* writes the copy back, and while a copy is written the file is no JSON.  *)
(* A reader of the client takes that for an empty file.                    *)
(*                                                                         *)
(* A credential is a number that grows with each token the issuer gives    *)
(* out for the provider; 0 is none.  A refresh is refused for any but the  *)
(* last one.                                                               *)
(***************************************************************************)
EXTENDS Naturals, FiniteSets

CONSTANTS
    Providers, \* providers with tokens
    Commands,  \* commands of clients that run at the same time
    Sessions,  \* sessions of the server
    MaxTokens, \* bound: tokens of a provider
    MaxTries,  \* bound: browser callbacks, and answers to one device
    MaxRuns,   \* bound: commands run
    None

\* What the constants are.
Assumptions ==
    /\ {MaxTokens, MaxTries, MaxRuns} \subseteq Nat
    /\ Commands \intersect Sessions = {} /\ None \notin Commands \union Providers

VARIABLES
    file,    \* auth.json: its credentials, or Torn while it is written
    command, \* connectProvider, updateGlobalAuth
    port,    \* the command that listens for the browser of each provider
    session, \* the model of a session: its provider and its copy of the file
    issued,  \* the last token of each provider
    runs,
    stored,  \* history: the credential last written for each provider
    missed,  \* history: what was written since a writer read, or read torn
    lost     \* history: what a writer that had missed it wrote over

writers == Commands \union Sessions
history == <<stored, missed, lost>>
vars == <<file, command, port, session, issued, runs, history>>

-----------------------------------------------------------------------------
Empty == [p \in Providers |-> 0]
Torn == [p \in {} |-> 0]

Idle == [pc |-> "idle", for |-> None, token |-> 0, exchanges |-> 0, tries |-> 0, seen |-> Empty]

\* A command that ended, with credentials or without.
Gone(c) == command' = [command EXCEPT ![c] = Idle]

Issue(p) == issued[p] < MaxTokens /\ issued' = [issued EXCEPT ![p] = @ + 1]

-----------------------------------------------------------------------------
(* Signing in.                                                             *)

\* waitForBrowserCallback listens; its server fails if the port is taken.
Listen(c, p) ==
    IF port[p] = None
    THEN /\ port' = [port EXCEPT ![p] = c]
         /\ command' = [command EXCEPT ![c].pc = "browser", ![c].for = p]
    ELSE UNCHANGED <<command, port>>

\* connectProvider: by browser, by device code, or an API key typed in.
Connect(c, p, how) ==
    /\ command[c].pc = "idle" /\ runs < MaxRuns
    /\ runs' = runs + 1
    /\ \/ how = "browser" /\ Listen(c, p) /\ UNCHANGED issued
       \/ /\ how = "device"
          /\ command' = [command EXCEPT ![c].pc = "device", ![c].for = p]
          /\ UNCHANGED <<port, issued>>
       \/ /\ how = "key" /\ Issue(p)
          /\ command' = [command EXCEPT ![c].pc = "signed", ![c].for = p, ![c].token = issued'[p]]
          /\ UNCHANGED port
    /\ UNCHANGED <<file, session, history>>

\* server.close()
Close(c) == port' = [port EXCEPT ![command[c].for] = None]

\* waitForBrowserCallback: an error, no code, or the state of another sign-in.
CallbackRefused(c) ==
    /\ command[c].pc = "browser"
    /\ Close(c)
    /\ Gone(c)
    /\ UNCHANGED <<file, session, issued, runs, history>>

\* A code for this sign-in; the page may be loaded again meanwhile.
Callback(c) ==
    /\ command[c].pc = "browser" /\ command[c].tries < MaxTries
    /\ command' = [command EXCEPT ![c].exchanges = @ + 1, ![c].tries = @ + 1]
    /\ UNCHANGED <<file, port, session, issued, runs, history>>

\* exchangeCodeForTokens, credentialsFromTokens: the first to settle counts.
Exchanged(c, ok) ==
    /\ command[c].pc = "browser" /\ command[c].exchanges > 0
    /\ Close(c)
    /\ IF ok THEN /\ Issue(command[c].for)
                  /\ command' = [command EXCEPT ![c].pc = "signed", ![c].exchanges = 0,
                                                ![c].token = issued'[command[c].for]]
       ELSE Gone(c) /\ UNCHANGED issued
    /\ UNCHANGED <<file, session, runs, history>>

\* The five minutes are over; an exchange under way no longer counts.
CallbackTimeout(c) ==
    /\ command[c].pc = "browser"
    /\ Close(c)
    /\ Gone(c)
    /\ UNCHANGED <<file, session, issued, runs, history>>

\* One poll of a device sign-in: tokens,
PollSigned(c) ==
    /\ command[c].pc = "device"
    /\ Issue(command[c].for)
    /\ command' = [command EXCEPT ![c].pc = "signed", ![c].token = issued'[command[c].for]]
    /\ UNCHANGED <<file, port, session, runs, history>>

\* not yet, or slow down,
PollPending(c) ==
    /\ command[c].pc = "device" /\ command[c].tries < MaxTries
    /\ command' = [command EXCEPT ![c].tries = @ + 1]
    /\ UNCHANGED <<file, port, session, issued, runs, history>>

\* or denied; for xAI also because the device code expired.
PollRefused(c) ==
    /\ command[c].pc = "device"
    /\ Gone(c)
    /\ UNCHANGED <<file, port, session, issued, runs, history>>

-----------------------------------------------------------------------------
(* The file.                                                               *)

\* readAuthFile: a file that does not parse is an empty one.
Parsed == IF file = Torn THEN Empty ELSE file

\* What a writer that reads now knows nothing of.
MissedNow == IF file = Torn THEN Providers ELSE {}

\* connectProvider after the sign-in; updateGlobalAuth for /model, /thinking.
ReadFile(c) ==
    /\ \/ command[c].pc = "signed" /\ UNCHANGED runs
       \/ command[c].pc = "idle" /\ runs < MaxRuns /\ runs' = runs + 1
    /\ command' = [command EXCEPT ![c].pc = "read", ![c].seen = Parsed]
    /\ missed' = [missed EXCEPT ![c] = MissedNow]
    /\ UNCHANGED <<file, port, session, issued, stored, lost>>

\* writeFile empties the file before it writes.
Truncate(c) ==
    /\ command[c].pc = "read"
    /\ file' = Torn
    /\ command' = [command EXCEPT ![c].pc = "torn"]
    /\ UNCHANGED <<port, session, issued, runs, history>>

\* Faulty: the credentials of the update replace those of the file.
Replaced(c) ==
    IF command[c].for = None THEN command[c].seen
    ELSE [Empty EXCEPT ![command[c].for] = command[c].token]

\* The credential of this sign-in beside those the file had.
Merged(c) ==
    IF command[c].for = None THEN command[c].seen
    ELSE [command[c].seen EXCEPT ![command[c].for] = command[c].token]

\* w, which wrote ps, is done: whoever holds a copy missed that.
Wrote(w, ps) ==
    /\ missed' = [v \in writers |-> IF v = w THEN {} ELSE missed[v] \union ps]
    /\ lost' = (lost \ ps) \union (missed[w] \ ps)

Store(c) ==
    /\ command[c].pc = "torn"
    /\ file' = Merged(c)
    /\ LET ps == IF command[c].for = None THEN {} ELSE {command[c].for}
       IN  /\ Wrote(c, ps)
           /\ stored' = [p \in Providers |-> IF p \in ps THEN command[c].token ELSE stored[p]]
    /\ Gone(c)
    /\ UNCHANGED <<port, session, issued, runs>>

\* The client is killed: the file stays as it is.
Killed(c) ==
    /\ command[c].pc # "idle"
    /\ port' = [p \in Providers |-> IF port[p] = c THEN None ELSE port[p]]
    /\ IF command[c].pc = "torn" THEN lost' = Providers ELSE UNCHANGED lost
    /\ Gone(c)
    /\ UNCHANGED <<file, session, issued, runs, stored, missed>>

-----------------------------------------------------------------------------
(* Sessions of the server.                                                 *)

\* load_auth_config, _create_model: a torn file is refused.
Resolve(s, p) ==
    /\ session[s] = None /\ file # Torn
    /\ file[p] # 0
    /\ session' = [session EXCEPT ![s] = [provider |-> p, seen |-> file]]
    /\ missed' = [missed EXCEPT ![s] = {}]
    /\ UNCHANGED <<file, command, port, issued, runs, stored, lost>>

\* _refresh_if_needed, write_auth_config: the token expired; the session writes
\* its whole copy.  (The file is written within one call: its being torn in the
\* meantime is left to the commands.)
Refresh(s) ==
    /\ session[s] # None
    /\ LET p == session[s].provider
       IN  /\ session[s].seen[p] = issued[p]
           /\ Issue(p)
           /\ LET copy == [session[s].seen EXCEPT ![p] = issued'[p]]
              IN  /\ file' = copy
                  /\ session' = [session EXCEPT ![s].seen = copy]
                  /\ stored' = [stored EXCEPT ![p] = issued'[p]]
                  /\ missed' = [v \in writers |-> IF v = s THEN missed[s]
                                                  ELSE missed[v] \union {p}]
                  /\ lost' = (lost \ {p}) \union (missed[s] \ {p})
    /\ UNCHANGED <<command, port, runs>>

\* The session is closed, or its model is chosen anew.
Drop(s) ==
    /\ session[s] # None
    /\ session' = [session EXCEPT ![s] = None]
    /\ UNCHANGED <<file, command, port, issued, runs, history>>

Init ==
    /\ file = Empty /\ port = [p \in Providers |-> None]
    /\ command = [c \in Commands |-> Idle] /\ session = [s \in Sessions |-> None]
    /\ issued = Empty /\ runs = 0
    /\ stored = Empty /\ missed = [w \in writers |-> {}] /\ lost = {}

Next ==
    \/ \E c \in Commands :
         \/ \E p \in Providers, how \in {"browser", "device", "key"} : Connect(c, p, how)
         \/ CallbackRefused(c) \/ Callback(c) \/ CallbackTimeout(c)
         \/ \E ok \in BOOLEAN : Exchanged(c, ok)
         \/ PollSigned(c) \/ PollPending(c) \/ PollRefused(c)
         \/ ReadFile(c) \/ Truncate(c) \/ Store(c) \/ Killed(c)
    \/ \E s \in Sessions :
         \/ \E p \in Providers : Resolve(s, p)
         \/ Refresh(s) \/ Drop(s)

Spec == Init /\ [][Next]_vars

-----------------------------------------------------------------------------
(* Properties.                                                             *)

(* A credential that was stored stays in the file until a newer one takes  *)
(* its place, but for what a writer writes over that had read the file     *)
(* before it was there, or while it was being written, and for a client    *)
(* killed in the middle of writing: one command after the other loses      *)
(* nothing (connectProvider and updateGlobalAuth in auth.ts).              *)
LossIsExplained ==
    file # Torn => \A p \in Providers : file[p] # stored[p] => p \in lost

(* The port of a provider's callback is held by a command that waits for   *)
(* it, and each command that waits holds it: a sign-in that failed, timed  *)
(* out or succeeded leaves the port for the next (waitForBrowserCallback). *)
PortIsFreed ==
    \A p \in Providers :
      {c \in Commands : command[c].pc = "browser" /\ command[c].for = p}
        = IF port[p] = None THEN {} ELSE {port[p]}

-----------------------------------------------------------------------------
\* What holds of every state, and is why a loss has its reason.

Copies == [Providers -> Nat]
Runs == [pc : {"idle", "browser", "device", "signed", "read", "torn"},
         for : Providers \union {None}, token : Nat, exchanges : Nat, tries : Nat,
         seen : Copies]

TypeOK ==
    /\ file \in Copies \union {Torn}
    /\ command \in [Commands -> Runs]
    /\ \A c \in Commands :
         command[c].pc \in {"browser", "device", "signed"} => command[c].for \in Providers
    /\ port \in [Providers -> Commands \union {None}]
    /\ session \in [Sessions -> [provider : Providers, seen : Copies] \union {None}]
    /\ issued \in Copies /\ stored \in Copies
    /\ missed \in [writers -> SUBSET Providers] /\ lost \subseteq Providers

\* PortIsFreed, command by command.
PortIsHeld ==
    \A p \in Providers, c \in Commands :
      port[p] = c <=> command[c].pc = "browser" /\ command[c].for = p

\* Where a copy differs from what was stored last, its holder missed that, or it
\* was lost before.
KnownIn(copy, w) == \A p \in Providers : copy[p] # stored[p] => p \in missed[w] \union lost

CopiesAreKnown ==
    /\ \A c \in Commands : command[c].pc \in {"read", "torn"} => KnownIn(command[c].seen, c)
    /\ \A s \in Sessions : session[s] # None => KnownIn(session[s].seen, s)

CredentialsInv == TypeOK /\ PortIsHeld /\ CopiesAreKnown /\ LossIsExplained
=============================================================================
