----------------------------- MODULE MCWebParts -------------------------------
(***************************************************************************)
(* The parts of the web application and of the hosted sandbox, the sub-    *)
(* agents of a turn, and the tools of a turn in the terminal, for TLC, each *)
(* by itself: a behaviour is one of the part it begins with.               *)
(***************************************************************************)
EXTENDS Integers, Sequences, FiniteSets, TLC

CONSTANTS
    NoValue, Paths, Repo, Starts, Copies, MaxTurns, MaxStarts, MaxFaults, Users,
    Shared, Teams, Logins, Requests, MaxRequests, MaxPanes, MaxSockets, Tabs,
    Services, Servers, PageProjects, Ops, MaxTokens, MaxPageOps, SubCalls, Names,
    Generated, Tools, MaxSubTurns, MaxProgress, MaxUnread, MaxBreaks, ToolIds,
    Session, MaxShownTurns, MaxCalls, MaxTexts, MaxReconnects, MaxQueue

VARIABLES
    part, \* whose behaviour this is
    x1, x2, x3, x4, x5, x6, x7, x8, x9, x10, x11, x12, x13 \* its variables

partsVars == <<part, x1, x2, x3, x4, x5, x6, x7, x8, x9, x10, x11, x12, x13>>

UserOf == CHOOSE f \in [Logins -> Users] : Users = {f[s] : s \in Logins}
ServiceOf == CHOOSE f \in [PageProjects -> Services] : Services = {f[p] : p \in PageProjects}

B == INSTANCE CloudSandbox WITH
    Tasks <- Copies, Overlap <- FALSE, None <- NoValue, disk <- x1, server <- x2,
    handle <- x3, record <- x4, start <- x5, task <- x6, turns <- x7,
    started <- x8, faults <- x9, saved <- x10, fresh <- x11, before <- x12,
    risky <- x13
O == INSTANCE Organizations WITH
    Sessions <- Logins, None <- NoValue, members <- x1, teams <- x2,
    active <- x3, request <- x4, served <- x5
W == INSTANCE WebTerminal WITH
    pane <- x1, socket <- x2, active <- x3
C == INSTANCE WebConnection WITH
    Projects <- PageProjects, MaxOps <- MaxPageOps, None <- NoValue,
    token <- x1, listed <- x2, tab <- x3, transient <- x4,
    saved <- x5, pending <- x6, op <- x7, asked <- x8
D == INSTANCE DelegatedSessions WITH
    Calls <- SubCalls, MaxTurns <- MaxSubTurns, None <- NoValue, turn <- x1,
    calls <- x2, stored <- x3, child <- x4, ledger <- x5, crashed <- x6,
    sent <- x7, wire <- x8, up <- x9, page <- x10, breaks <- x11
V == INSTANCE TerminalView WITH
    Ids <- ToolIds, MaxTurns <- MaxShownTurns, MaxDrops <- MaxReconnects,
    None <- NoValue, turn <- x1, calls <- x2, chat <- x3, stream <- x4,
    local <- x5, remote <- x6, tree <- x7, pending <- x8, completed <- x9,
    rows <- x10, texts <- x11, drops <- x12, handled <- x13

ASSUME ConstantsAssumption ==
    /\ B!Assumptions /\ O!Assumptions /\ W!Assumptions /\ C!Assumptions /\
       D!Assumptions /\ V!Assumptions

-----------------------------------------------------------------------------
(* A variable a part has no use for is 0. *)
InitCloud == part = "cloud" /\ B!Init
OfCloud == part = "cloud" /\ UNCHANGED <<part>>

InitOrganizations == part = "organizations" /\ O!Init
    /\ x6 = 0 /\ x7 = 0 /\ x8 = 0 /\ x9 = 0 /\ x10 = 0 /\ x11 = 0 /\ x12 = 0 /\
       x13 = 0
OfOrganizations == part = "organizations" /\ UNCHANGED <<part, x6, x7, x8,
                          x9, x10, x11, x12, x13>>

InitTerminal == part = "terminal" /\ W!Init
    /\ x4 = 0 /\ x5 = 0 /\ x6 = 0 /\ x7 = 0 /\ x8 = 0 /\ x9 = 0 /\ x10 = 0 /\
       x11 = 0 /\ x12 = 0 /\ x13 = 0
OfTerminal == part = "terminal" /\ UNCHANGED <<part, x4, x5, x6, x7, x8, x9,
                          x10, x11, x12, x13>>

InitConnection == part = "connection" /\ C!Init
    /\ x9 = 0 /\ x10 = 0 /\ x11 = 0 /\ x12 = 0 /\ x13 = 0
OfConnection == part = "connection" /\ UNCHANGED <<part, x9, x10, x11, x12,
                          x13>>

InitChildren == part = "children" /\ D!Init
    /\ x12 = 0 /\ x13 = 0
OfChildren == part = "children" /\ UNCHANGED <<part, x12, x13>>

InitView == part = "view" /\ V!Init
OfView == part = "view" /\ UNCHANGED <<part>>

PartsInit == InitCloud \/ InitOrganizations \/ InitTerminal \/ InitConnection \/
        InitChildren \/ InitView

PartsNext ==
    \/ OfCloud /\ B!Next
    \/ OfOrganizations /\ O!Next
    \/ OfTerminal /\ W!Next
    \/ OfConnection /\ C!Next
    \/ OfChildren /\ D!Next
    \/ OfView /\ V!Next

Symmetry ==
    Permutations(SubCalls) \union Permutations(Tools) \union Permutations(ToolIds)

PartsSpec == PartsInit /\ [][PartsNext]_partsVars

-----------------------------------------------------------------------------
(* The properties of the parts. *)

(* CloudSandbox: what was saved is in the backup of the next start, a reset *)
(* leaves nothing, and only turns whose backup failed are lost.            *)
BackupsAreSafe == part = "cloud" =>
    /\ B!SavedSurvives /\ B!ResetForgets /\ B!LossIsBounded /\
       B!SkippedOnlyWhenSaved

(* Organizations: the team shown is one of the organization shown, and the *)
(* first pages all get the personal workspace.                             *)
WorkspacesAgree == part = "organizations" =>
    /\ O!ShownTeamIsOfOrganization /\ O!FirstPagesAgree

(* WebTerminal: a pane holds its one connection, or none, and shows the    *)
(* status of it.                                                           *)
TerminalIsConnected == part = "terminal" =>
    /\ W!OneConnection /\ W!StatusIsOfTheConnection

(* WebConnection: project, server and token belong together.               *)
TargetIsWhole == part = "connection" => C!TargetIsWhole

(* DelegatedSessions: rows, stored state and sessions of sub-agents agree, *)
(* whatever is lost, refused, aborted or asked for twice.                  *)
SubagentsAgree == part = "children" =>
    /\ D!RowsAreOfRunningCalls /\ D!LedgerKnowsTheChild /\ D!ChildHasOneCall

(* TerminalView: one row for each result, and what is shown as running runs. *)
RowsAreCurrent == part = "view" =>
    /\ V!OneRowPerCall /\ V!RunningIsCurrent
=============================================================================
