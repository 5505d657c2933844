--------------------------------- MODULE Share ---------------------------------
(***************************************************************************)
(* /share in the terminal client: ShareManager (client/src/app/share.ts)   *)
(* and the two loops that use it.  The main loop (client/src/app/app.ts)   *)
(* does one command after the other; while a turn runs, readInputLoop does *)
(* /share by itself, beside the main loop.  Neither knows of the other.    *)
(***************************************************************************)
EXTENDS Naturals, FiniteSets

CONSTANTS
    None,       \* no tunnel
    MaxStarts,  \* bound: the starts of the share
    MaxQueued   \* bound: lines of failed commands that wait

\* What the constants are.
Assumptions ==
    /\ None \notin Nat
    /\ {MaxStarts, MaxQueued} \subseteq Nat

VARIABLES
    active,     \* ShareManager.active
    tunnels,    \* the tunnels that run
    footer,     \* whether the footer says "shared"
    steps,      \* how far the /share of either loop is
    running,    \* whether the session runs a turn: a steer handler is set
    main,       \* the main loop: "idle", "busy", "closing" or "closed"
    queued,     \* /share lines readInputLoop queued
    starts,     \* the starts so far
    overlapped  \* history: a start was under way beside another or at the end

shvars == <<active, tunnels, footer, steps, running, main, queued, starts, overlapped>>

Loops == {"main", "reader"}
NoStep == [at |-> "none", tunnel |-> None]
Shared == active # None
NoCommand == \A l \in Loops : steps[l] = NoStep

Init ==
    /\ active = None /\ tunnels = {} /\ footer = FALSE
    /\ steps = [l \in Loops |-> NoStep]
    /\ running \in BOOLEAN /\ main = "idle" /\ queued = 0
    /\ starts = 0 /\ overlapped = FALSE

-----------------------------------------------------------------------------
\* Turns begin and end, and the main loop does other commands and turns.
TurnStatus ==
    /\ running' = ~running
    /\ UNCHANGED <<active, tunnels, footer, steps, main, queued, starts, overlapped>>
OtherCommand ==
    /\ steps["main"] = NoStep
    /\ \/ main = "idle" /\ main' = "busy" /\ UNCHANGED footer
       \/ main = "busy" /\ main' = "idle" /\ footer' \in {footer, Shared}
    /\ UNCHANGED <<active, tunnels, steps, running, queued, starts, overlapped>>

\* setAgentStatusHook
AgentStatus ==
    /\ main \in {"idle", "busy"} /\ footer' = Shared
    /\ UNCHANGED <<active, tunnels, steps, running, main, queued, starts, overlapped>>

-----------------------------------------------------------------------------
(* /share.  Who may do it: *)
May(l) ==
    /\ steps[l] = NoStep
    /\ IF l = "main" THEN main = "idle" ELSE running /\ main \in {"idle", "busy"}

At(l, where, tunnel) == steps' = [steps EXCEPT ![l] = [at |-> where, tunnel |-> tunnel]]
Starting(l) == steps[l].at = "starting"

\* ShareManager.start; the address of the server is always the same, so that
\* nothing has to be stopped.
StartOrReuse(l) == IF Shared THEN "footer" ELSE "starting"
Start(l) ==
    /\ May(l) /\ starts < MaxStarts /\ starts' = starts + 1
    /\ At(l, StartOrReuse(l), starts')
    /\ overlapped' = (overlapped \/ \E k \in Loops : Starting(k))
    /\ queued' \in {queued} \cup (IF l = "main" /\ queued > 0 THEN {queued - 1} ELSE {})
    /\ UNCHANGED <<active, tunnels, footer, running, main>>
TunnelUp(l) ==
    /\ Starting(l) /\ At(l, "footer", None)
    /\ active' = steps[l].tunnel /\ tunnels' = tunnels \cup {steps[l].tunnel}
    /\ UNCHANGED <<footer, running, main, queued, starts, overlapped>>

\* ShareManager.stop
Stop(l) ==
    /\ May(l) /\ Shared
    /\ At(l, "stopping", active) /\ active' = None
    /\ UNCHANGED <<tunnels, footer, running, main, queued, starts, overlapped>>
TunnelDown(l) ==
    /\ steps[l].at = "stopping" /\ tunnels' = tunnels \ {steps[l].tunnel}
    /\ IF main = "closing" /\ l = "main"
       THEN steps' = [steps EXCEPT ![l] = NoStep] /\ main' = "closed"
       ELSE At(l, "footer", None) /\ UNCHANGED main
    /\ UNCHANGED <<active, footer, running, queued, starts, overlapped>>

\* What the server answers comes into the footer.
Answered(l) ==
    /\ steps[l].at = "footer" /\ steps' = [steps EXCEPT ![l] = NoStep]
    /\ footer' = Shared
    /\ UNCHANGED <<active, tunnels, running, main, queued, starts, overlapped>>

\* readInputLoop catches what its command throws and queues the line, so that
\* the main loop does it again.
ReaderFails ==
    /\ steps["reader"].at \in {"starting", "footer"}
    /\ main \in {"idle", "busy"} => queued < MaxQueued
    /\ queued' = IF main \in {"idle", "busy"} THEN queued + 1 ELSE queued
    /\ steps' = [steps EXCEPT !["reader"] = NoStep]
    /\ UNCHANGED <<active, tunnels, footer, running, main, starts, overlapped>>

-----------------------------------------------------------------------------
\* Faulty: a tunnel is left to the exit of the process.
DisposeNothing == NoStep

\* ShareManager.dispose
Dispose == [at |-> IF Shared THEN "stopping" ELSE "none", tunnel |-> active]

\* /quit, the end of the input, or a command of the main loop throws.
Close ==
    /\ main = "busy" \/ (main = "idle" /\ steps["main"].at # "stopping")
    /\ steps' = [steps EXCEPT !["main"] = Dispose] /\ active' = None
    /\ main' = IF Shared THEN "closing" ELSE "closed"
    /\ overlapped' = (overlapped \/ Starting("reader"))
    /\ UNCHANGED <<tunnels, footer, running, queued, starts>>

Next ==
    \/ TurnStatus \/ OtherCommand \/ AgentStatus
    \/ \E l \in Loops : Start(l) \/ TunnelUp(l) \/ Stop(l) \/ TunnelDown(l) \/ Answered(l)
    \/ ReaderFails \/ Close

Spec == Init /\ [][Next]_shvars

-----------------------------------------------------------------------------
(* ShareManager: every tunnel that runs is the one /share stop would stop, *)
(* or is being stopped, and none outlives the client, whichever command    *)
(* failed and wherever the end came, unless one was started while another  *)
(* start was under way or the client ended.  When no command is under way  *)
(* or waits the footer says whether the server is shared.                  *)
SharesAccounted ==
    /\ ~overlapped =>
          /\ tunnels \subseteq
               {active} \cup {steps[l].tunnel : l \in {k \in Loops : steps[k].at = "stopping"}}
          /\ main = "closed" /\ NoCommand => tunnels = {}
    /\ main = "idle" /\ NoCommand /\ queued = 0 => footer = Shared
-----------------------------------------------------------------------------
\* What holds of every state, and is why no tunnel is lost.

CommandSteps == [at : {"none", "starting", "footer", "stopping"}, tunnel : Nat \cup {None}]

TypeOK ==
    /\ active \in Nat \cup {None} /\ tunnels \subseteq Nat
    /\ footer \in BOOLEAN /\ running \in BOOLEAN /\ overlapped \in BOOLEAN
    /\ steps \in [Loops -> CommandSteps]
    /\ \A l \in Loops :
         /\ steps[l].at = "none" => steps[l] = NoStep
         /\ Starting(l) => steps[l].tunnel \in Nat
    /\ main \in {"idle", "busy", "closing", "closed"} /\ queued \in Nat /\ starts \in Nat

\* The main loop has no /share beside another command.
OneCommand == main = "busy" => steps["main"] = NoStep

\* One start at a time, when nothing is shared; none when the client ends.
OneStart ==
    ~overlapped =>
      /\ \A k, l \in Loops : Starting(k) /\ Starting(l) => k = l
      /\ \A l \in Loops : Starting(l) => ~Shared /\ main \in {"idle", "busy"}
      /\ main \in {"closing", "closed"} => ~Shared

\* While the client runs, what was not brought into the footer will be.
FooterFollows == main \in {"idle", "busy"} /\ NoCommand /\ queued = 0 => footer = Shared

ShareInv == TypeOK /\ OneCommand /\ OneStart /\ FooterFollows /\ SharesAccounted
=============================================================================
