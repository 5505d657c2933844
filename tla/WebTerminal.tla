----------------------------- MODULE WebTerminal ------------------------------
(***************************************************************************)
(* The terminal of the web application                                     *)
(* (web/src/lib/WorkspaceTerminal.svelte): a pane for the project that is  *)
(* shown, which loads the emulator when the tab is first opened and        *)
(* connects it to the shell of the server by a WebSocket.                  *)
(*                                                                         *)
(* Another project, or another token for it, makes another pane            *)
(* (terminalTargetIdentity), and the one before is destroyed, in the midst *)
(* of loading or connecting.  A socket that was closed tells so later, and *)
(* by then the pane may have another one.  The browser delivers no message *)
(* of a socket that close() was called on.                                 *)
(***************************************************************************)
EXTENDS Naturals, Sequences

CONSTANTS
    MaxPanes,  \* bound: panes
    MaxSockets \* bound: sockets

\* What the constants are.
Assumptions ==
    /\ {MaxPanes, MaxSockets} \subseteq Nat \ {0}

VARIABLES
    pane,      \* the panes, the last one is on the page
    socket,    \* the sockets: whose they are and their readyState
    active     \* whether the terminal is the active tab

vars == <<pane, socket, active>>

-----------------------------------------------------------------------------
None == 0
Live == {"connecting", "open"}
Offered == {"disconnected", "exited", "error"}

NewPane == [loading |-> FALSE, started |-> FALSE, terminal |-> FALSE, destroyed |-> FALSE,
            status |-> "idle", socket |-> None, screen |-> {}]

shown == Len(pane)

\* The pane of socket k goes by what k tells.
Current(k) == pane[socket[k].pane].socket = k
OfSocket(k) == socket[k].pane

\* ws.close() on the socket of p, if it has one.
Closing(p) ==
    IF pane[p].socket = None THEN socket
    ELSE [socket EXCEPT ![pane[p].socket].state = IF @ \in Live THEN "closing" ELSE @]

-----------------------------------------------------------------------------
\* The terminal tab is opened or left; a pane that was not started loads.
Select ==
    /\ active' = ~active
    /\ IF ~active /\ ~pane[shown].started
       THEN pane' = [pane EXCEPT ![shown].started = TRUE, ![shown].loading = TRUE,
                                 ![shown].status = "loading"]
       ELSE UNCHANGED pane
    /\ UNCHANGED socket

\* onDestroy of the old pane; the new one begins to load if the tab is open.
SwitchTarget ==
    /\ Len(pane) < MaxPanes
    /\ socket' = Closing(shown)
    /\ pane' = Append([pane EXCEPT ![shown].destroyed = TRUE, ![shown].terminal = FALSE,
                                   ![shown].socket = None],
                      IF active THEN [NewPane EXCEPT !.started = TRUE, !.loading = TRUE,
                                                     !.status = "loading"]
                      ELSE NewPane)
    /\ UNCHANGED active

\* terminalWebSocketConnection, and the socket opened with it.
Socket(p) == [pane |-> p, state |-> "connecting"]

\* connectSocket, on a screen that is empty.
ConnectSocket(p) ==
    /\ socket' = Append(Closing(p), Socket(p))
    /\ pane' = [pane EXCEPT ![p].loading = FALSE, ![p].terminal = TRUE,
                            ![p].status = "connecting", ![p].socket = Len(socket) + 1,
                            ![p].screen = {}]

\* startTerminal: Ghostty is there.
Loaded(p) ==
    /\ p \in DOMAIN pane /\ pane[p].loading
    /\ IF pane[p].destroyed
       THEN pane' = [pane EXCEPT ![p].loading = FALSE] /\ UNCHANGED socket
       ELSE Len(socket) < MaxSockets /\ ConnectSocket(p)
    /\ UNCHANGED active

\* or could not be loaded.
LoadFailed(p) ==
    /\ p \in DOMAIN pane /\ pane[p].loading
    /\ pane' = [pane EXCEPT ![p].loading = FALSE, ![p].status = "error"]
    /\ UNCHANGED <<socket, active>>

\* The button: reset() and connectSocket, which needs a terminal.
Reconnect ==
    /\ pane[shown].status \in Offered
    /\ pane[shown].terminal /\ Len(socket) < MaxSockets
    /\ ConnectSocket(shown)
    /\ UNCHANGED active

-----------------------------------------------------------------------------
(* What a socket tells: onopen, onmessage, onerror, onclose.               *)

Opened(k) ==
    /\ k \in DOMAIN socket /\ socket[k].state = "connecting"
    /\ socket' = [socket EXCEPT ![k].state = "open"]
    /\ IF Current(k) THEN pane' = [pane EXCEPT ![OfSocket(k)].status = "connected"]
       ELSE UNCHANGED pane
    /\ UNCHANGED active

\* Output of the shell.
Output(k) ==
    /\ k \in DOMAIN socket /\ socket[k].state = "open"
    /\ IF Current(k) THEN pane' = [pane EXCEPT ![OfSocket(k)].screen = @ \union {k}]
       ELSE UNCHANGED pane
    /\ UNCHANGED <<socket, active>>

\* applyControlMessage: a status, the exit of the shell or an error.
Control(k, status) ==
    /\ k \in DOMAIN socket /\ socket[k].state = "open"
    /\ IF Current(k) THEN pane' = [pane EXCEPT ![OfSocket(k)].status = status]
       ELSE UNCHANGED pane
    /\ UNCHANGED <<socket, active>>

\* The connection fails; the close follows.
Errored(k) ==
    /\ k \in DOMAIN socket /\ socket[k].state \in Live \union {"closing"}
    /\ socket' = [socket EXCEPT ![k].state = "failed"]
    /\ IF Current(k) THEN pane' = [pane EXCEPT ![OfSocket(k)].status = "error"]
       ELSE UNCHANGED pane
    /\ UNCHANGED active

\* Faulty: whichever socket closed, the pane has none.
NoneLeft(k) == [pane[OfSocket(k)] EXCEPT !.socket = None, !.status =
                  IF @ \in {"exited", "error"} THEN @ ELSE "disconnected"]

\* A late close of an older socket, or of a destroyed pane, is ignored.
LeftBy(k) ==
    IF ~Current(k) THEN pane[OfSocket(k)]
    ELSE [pane[OfSocket(k)] EXCEPT !.socket = None, !.status =
            IF @ \in {"exited", "error"} THEN @ ELSE "disconnected"]

Closed(k) ==
    /\ k \in DOMAIN socket /\ socket[k].state \in {"open", "closing", "failed"}
    /\ socket' = [socket EXCEPT ![k].state = "closed"]
    /\ pane' = [pane EXCEPT ![OfSocket(k)] = LeftBy(k)]
    /\ UNCHANGED active

Init ==
    /\ pane = <<NewPane>> /\ socket = <<>> /\ active = FALSE

Next ==
    \/ Select \/ SwitchTarget \/ Reconnect
    \/ \E p \in 1..MaxPanes : Loaded(p) \/ LoadFailed(p)
    \/ \E k \in 1..MaxSockets :
         \/ Opened(k) \/ Output(k) \/ Errored(k) \/ Closed(k)
         \/ \E status \in {"connecting", "connected", "exited", "error"} : Control(k, status)

Spec == Init /\ [][Next]_vars

-----------------------------------------------------------------------------
(* Properties.                                                             *)

(* A pane on the page holds the one connection it has, and a pane that is  *)
(* gone holds none, whatever was under way when it was destroyed or        *)
(* connected anew: no shell is attached to behind the user's back, and no  *)
(* connection is forgotten by its pane (connectSocket, onDestroy, and the  *)
(* guards of the handlers).                                                *)
OneConnection ==
    \A p \in DOMAIN pane :
      {k \in DOMAIN socket : OfSocket(k) = p /\ socket[k].state \in Live}
        \subseteq IF pane[p].destroyed THEN {} ELSE {pane[p].socket}

(* What the pane says of its connection is true of the one it has: it is   *)
(* connected only while it has a socket, a pane with a terminal and no     *)
(* socket offers to reconnect, and the screen shows one shell.             *)
StatusIsOfTheConnection ==
    \A p \in DOMAIN pane :
      LET this == pane[p]
      IN  ~this.destroyed =>
            /\ this.status \in {"connecting", "connected"} => this.socket # None
            /\ this.terminal /\ this.socket = None => this.status \in Offered
            /\ \A k \in this.screen : this.socket \in {k, None}

-----------------------------------------------------------------------------
\* What holds of every state, and is why a pane and its connection agree.

Panes == [loading : BOOLEAN, started : BOOLEAN, terminal : BOOLEAN, destroyed : BOOLEAN,
          status : {"idle", "loading", "connecting", "connected"} \union Offered,
          socket : Nat, screen : SUBSET Nat]
Sockets == [pane : Nat \ {0},
            state : Live \union {"closing", "failed", "closed"}]

TypeOK ==
    /\ pane \in Seq(Panes) /\ pane # <<>>
    /\ socket \in Seq(Sockets) /\ \A k \in DOMAIN socket : OfSocket(k) \in DOMAIN pane

\* A pane holds a socket of its own, and none when it is destroyed.
HoldsItsOwn ==
    \A p \in DOMAIN pane : pane[p].socket # None =>
      /\ pane[p].socket \in DOMAIN socket /\ OfSocket(pane[p].socket) = p
      /\ ~pane[p].destroyed

LiveIsHeld == \A k \in DOMAIN socket : socket[k].state \in Live => Current(k)

\* There is a terminal when it was loaded, and none in a pane that is gone.
TerminalIsStarted ==
    \A p \in DOMAIN pane :
      /\ pane[p].loading \/ pane[p].terminal => pane[p].started
      /\ pane[p].destroyed => ~pane[p].terminal

TerminalInv ==
    TypeOK /\ HoldsItsOwn /\ LiveIsHeld /\ TerminalIsStarted /\ StatusIsOfTheConnection
=============================================================================
