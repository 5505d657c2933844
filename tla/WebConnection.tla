---------------------------- MODULE WebConnection -----------------------------
(***************************************************************************)
(* How a page of the web application is connected (web/src/lib/            *)
(* Chat.svelte, chump/local-service-handoff.ts and                         *)
(* chump/local-service-connection-store.ts): to a local service, with its  *)
(* token and one of its projects, or directly to a server.                 *)
(*                                                                         *)
(* "chump app" opens a page, or navigates one, with the service in the     *)
(* address; the page takes it out of there and hands it to the other tabs  *)
(* through the storage of the browser, where it lies for two minutes.      *)
(* Connections are asked for while others are under way, in any tab, and   *)
(* end in any order; each sets what the page is connected to when it ends. *)
(* A service that is started again has another token.  What the session    *)
(* controller does with the connection is module WebSession's.             *)
(***************************************************************************)
EXTENDS Naturals, FiniteSets

CONSTANTS
    Tabs,
    Services,   \* local services
    Servers,    \* servers that are connected to directly
    Projects,
    ServiceOf,  \* the service of each project
    Ops,        \* connections being made at the same time
    MaxTokens,  \* bound: tokens of a service
    MaxOps,     \* bound: connections asked for
    None

\* What the constants are.
Assumptions ==
    /\ ServiceOf \in [Projects -> Services] /\ {MaxTokens, MaxOps} \subseteq Nat

VARIABLES
    token,   \* the token of each service, a number
    listed,  \* the projects a service has registered
    tab,     \* the pages
    transient, \* sessionStorage of each tab: a connection
    saved,   \* localStorage: the connection of the user
    pending, \* localStorage: the handoff
    op,      \* connections and registrations under way
    asked

vars == <<token, listed, tab, transient, saved, pending, op, asked>>
stores == <<transient, saved, pending>>
service == <<token, listed>>

-----------------------------------------------------------------------------
NoToken == 0

Connection(url, t, p) == [url |-> url, token |-> t, project |-> p]
NoConnection == Connection(None, NoToken, None)

Closed == [mounted |-> FALSE, url |-> None, token |-> NoToken, project |-> None,
           projects |-> {}, error |-> FALSE, stray |-> FALSE]
NoOp == [kind |-> "none", tab |-> None, to |-> NoConnection, byHand |-> FALSE, held |-> NoToken]

Here(c) == [c EXCEPT !.project = None]

\* An op o of kind begins in tab t, which holds this token.
Start(o, kind, t, c, byHand, held) ==
    /\ op[o] = NoOp /\ asked < MaxOps
    /\ asked' = asked + 1
    /\ op' = [op EXCEPT ![o] =
         [kind |-> kind, tab |-> t, to |-> c, byHand |-> byHand, held |-> held]]
Over(o) == op' = [op EXCEPT ![o] = NoOp]

-----------------------------------------------------------------------------
(* Pages.                                                                  *)

\* rememberLocalServiceConnection, readLocalServiceConnection: of this tab, or
\* else of the user.
Remember(t, c) == saved' = Here(c) /\ transient' = [transient EXCEPT ![t] = Here(c)]
Remembered(t) == IF transient[t] # NoConnection THEN transient[t] ELSE saved

\* consumeLocalServiceHandoff, the handoff in waiting, or the connection of
\* before.
SavedConnection(t, handoff) ==
    IF handoff # NoConnection THEN handoff
    ELSE IF pending # NoConnection THEN pending ELSE Remembered(t)

\* onMount of Chat.svelte, with ?server= or a handoff in the address, or
\* neither.  What was saved is applied and remembered, and as there is a
\* server then, it is connected to directly.
Mount(t, o, server, handoff) ==
    LET c == SavedConnection(t, handoff)
        applied == IF server # None THEN Connection(server, NoToken, None) ELSE c
    IN  /\ ~tab[t].mounted
        /\ tab' = [tab EXCEPT ![t] = [Closed EXCEPT !.mounted = TRUE,
             !.url = applied.url, !.token = applied.token, !.error = (applied.url = None)]]
        /\ IF server = None /\ c # NoConnection
           THEN Remember(t, c)
           ELSE /\ transient' = [transient EXCEPT ![t] =
                     IF handoff # NoConnection THEN Here(handoff) ELSE @]
                /\ UNCHANGED saved
        /\ IF applied.url = None THEN UNCHANGED <<op, asked>>
           ELSE Start(o, "direct", t, Connection(applied.url, NoToken, None), FALSE, applied.token)
        /\ UNCHANGED <<service, pending>>

\* The layout takes a handoff out of the address of a page, and publishes it:
\* this page hears of it, and each other one by a storage event.
Handoff(t, o, c) ==
    /\ tab[t].mounted
    /\ transient' = [transient EXCEPT ![t] = Here(c)]
    /\ pending' = c
    /\ Start(o, "service", t, c, FALSE, tab[t].token)
    /\ UNCHANGED <<service, tab, saved>>

\* handlePendingLocalServiceHandoff, in another tab.
StorageEvent(t, o) ==
    /\ tab[t].mounted /\ pending # NoConnection
    /\ Start(o, "service", t, pending, FALSE, tab[t].token)
    /\ UNCHANGED <<service, tab, stores>>

\* PENDING_LOCAL_SERVICE_HANDOFF_MAX_AGE_MS
Expire ==
    /\ pending # NoConnection
    /\ pending' = NoConnection
    /\ UNCHANGED <<service, tab, transient, saved, op, asked>>

\* connectWithCurrentSettings: what was typed or scanned in the dialog.
ByHand(t, o, c) ==
    /\ tab[t].mounted
    /\ Start(o, IF c.token = NoToken THEN "direct" ELSE "service", t, c, TRUE, tab[t].token)
    /\ UNCHANGED <<service, tab, stores>>

Close(t) ==
    /\ tab[t].mounted
    /\ tab' = [tab EXCEPT ![t] = Closed]
    /\ op' = [o \in Ops |-> IF op[o].tab = t THEN NoOp ELSE op[o]]
    /\ UNCHANGED <<service, stores, asked>>

-----------------------------------------------------------------------------
(* Connecting.                                                             *)

\* connectDirectly: a local service refuses whoever has no token.
Direct(o) ==
    /\ op[o].kind = "direct" /\ op[o].to.url \in Servers
    /\ tab' = [tab EXCEPT ![op[o].tab] = [@ EXCEPT !.url = op[o].to.url, !.token = NoToken,
         !.project = None, !.projects = {}, !.stray = FALSE]]
    /\ Over(o)
    /\ UNCHANGED <<service, stores, asked>>

\* The projects of the service c, if it takes the token.
Accepted(c) == c.url \in Services /\ token[c.url] = c.token

\* Faulty: connected while the project of before is still the active one.
ChooseAny(t, c) == IF c.project = None THEN {tab[t].project} ELSE {c.project}

\* The project that was asked for, the active one, or one of the others.
Choose(t, c) ==
    LET projects == listed[c.url]
    IN  IF c.project \in projects THEN {c.project}
        ELSE IF tab[t].project \in projects THEN {tab[t].project}
        ELSE IF projects # {} THEN projects ELSE {None}

\* connectToLocalService, from where the projects are there; selectProject.
Service(o) ==
    LET c == op[o].to
        t == op[o].tab
    IN  /\ op[o].kind = "service" /\ Accepted(c)
        /\ \E p \in Choose(t, c) :
             tab' = [tab EXCEPT ![t] = [@ EXCEPT !.url = c.url, !.token = c.token,
               !.projects = listed[c.url], !.project = p, !.error = FALSE, !.stray = FALSE]]
        /\ Remember(t, c)
        /\ pending' = NoConnection
        /\ Over(o)
        /\ UNCHANGED <<service, asked>>

\* Refused or out of reach: the dialog opens.
Refused(o) ==
    /\ op[o].kind \in {"direct", "service"}
    /\ tab' = [tab EXCEPT ![op[o].tab].error = TRUE]
    /\ Over(o)
    /\ UNCHANGED <<service, stores, asked>>

-----------------------------------------------------------------------------
(* Projects.                                                               *)

\* selectProject
SelectProject(t, p) ==
    /\ tab[t].mounted /\ tab[t].token # NoToken
    /\ p \in tab[t].projects
    /\ tab' = [tab EXCEPT ![t].project = p]
    /\ UNCHANGED <<service, stores, op, asked>>

\* registerProject, with the connection of now.
Register(t, o, p) ==
    /\ tab[t].mounted /\ tab[t].token # NoToken
    /\ ServiceOf[p] = tab[t].url
    /\ Start(o, "register", t, Connection(tab[t].url, tab[t].token, p), TRUE, tab[t].token)
    /\ UNCHANGED <<service, tab, stores>>

\* The service has it, and lists its projects; the page may be connected to
\* another one by then.
Registered(o) ==
    LET c == op[o].to
        t == op[o].tab
        all == listed[c.url] \union {c.project}
    IN  /\ op[o].kind = "register" /\ Accepted(c)
        /\ listed' = [listed EXCEPT ![c.url] = all]
        /\ tab' = [tab EXCEPT ![t] = [@ EXCEPT !.projects = all,
             !.project = IF tab[t].token = NoToken THEN tab[t].project ELSE c.project,
             !.stray = tab[t].url # c.url]]
        /\ Over(o)
        /\ UNCHANGED <<token, stores, asked>>

\* A service is started again.
Restart(s) ==
    /\ token[s] < MaxTokens
    /\ token' = [token EXCEPT ![s] = @ + 1]
    /\ UNCHANGED <<listed, tab, stores, op, asked>>

-----------------------------------------------------------------------------
Init ==
    /\ token = [s \in Services |-> 1]
    /\ listed \in {f \in [Services -> SUBSET Projects] :
                     \A s \in Services : \A p \in f[s] : ServiceOf[p] = s}
    /\ tab = [t \in Tabs |-> Closed]
    /\ transient = [t \in Tabs |-> NoConnection] /\ saved = NoConnection
    /\ pending = NoConnection
    /\ op = [o \in Ops |-> NoOp] /\ asked = 0

\* What "chump app" hands over.
Handoffs == {Connection(ServiceOf[p], token[ServiceOf[p]], p) : p \in Projects}

Typed == {Connection(s, token[s], None) : s \in Services}
           \union {Connection(s, NoToken, None) : s \in Servers}

Next ==
    \/ \E t \in Tabs, o \in Ops :
         \/ \E server \in Servers \union {None}, c \in Handoffs \union {NoConnection} :
              Mount(t, o, server, c)
         \/ \E c \in Handoffs : Handoff(t, o, c)
         \/ StorageEvent(t, o)
         \/ \E c \in Typed : ByHand(t, o, c)
         \/ \E p \in Projects : Register(t, o, p)
    \/ \E t \in Tabs : Close(t) \/ \E p \in Projects : SelectProject(t, p)
    \/ \E o \in Ops : Direct(o) \/ Service(o) \/ Refused(o) \/ Registered(o)
    \/ \E s \in Services : Restart(s)
    \/ Expire

Spec == Init /\ [][Next]_vars

-----------------------------------------------------------------------------
(* Properties.                                                             *)

(* The project a page works on is one of the service it is connected to,   *)
(* by a token that service gave out, however many connections were under   *)
(* way and in whatever order they ended; but for a project that was being  *)
(* registered while the page was connected elsewhere (applyConnection and  *)
(* selectProject in connectToLocalService, connectDirectly).               *)
TargetIsWhole ==
    \A t \in Tabs :
      LET p == tab[t].project
      IN  p # None /\ ~tab[t].stray => ServiceOf[p] = tab[t].url /\ tab[t].token # NoToken

-----------------------------------------------------------------------------
\* What holds of every state, and is why a page's project is of its service.

Urls == Services \union Servers \union {None}
Connections == [url : Urls, token : Nat, project : Projects \union {None}]
Pages == [mounted : BOOLEAN, url : Urls, token : Nat, project : Projects \union {None},
          projects : SUBSET Projects, error : BOOLEAN, stray : BOOLEAN]
Operations == [kind : {"none", "direct", "service", "register"}, tab : Tabs \union {None},
               to : Connections, byHand : BOOLEAN, held : Nat]

TypeOK ==
    /\ token \in [Services -> Nat \ {0}] /\ listed \in [Services -> SUBSET Projects]
    /\ tab \in [Tabs -> Pages]
    /\ transient \in [Tabs -> Connections] /\ {saved, pending} \subseteq Connections
    /\ op \in [Ops -> Operations] /\ asked \in Nat
    /\ \A o \in Ops : op[o].kind # "none" => op[o].tab \in Tabs

\* A service lists projects of its own.
ListsItsOwn == \A s \in Services : \A p \in listed[s] : ServiceOf[p] = s

RegistersItsOwn ==
    \A o \in Ops : op[o].kind = "register" =>
      op[o].to.project \in Projects /\ ServiceOf[op[o].to.project] = op[o].to.url

\* What a page may select from is of its service, and without a token there is
\* nothing to select.
PagesOfTheService ==
    \A t \in Tabs :
      /\ ~tab[t].stray => \A p \in tab[t].projects : ServiceOf[p] = tab[t].url
      /\ tab[t].token = NoToken => tab[t].project = None

ConnectionInv ==
    TypeOK /\ ListsItsOwn /\ RegistersItsOwn /\ PagesOfTheService /\ TargetIsWhole
=============================================================================
