----------------------------- MODULE MCViewParts ------------------------------
(***************************************************************************)
(* The parts that show what a session did for TLC, each by itself: a       *)
(* behaviour is one of the part it begins with.                            *)
(***************************************************************************)
EXTENDS Integers, Sequences, FiniteSets, TLC

CONSTANTS
    MaxKept, MaxBytes, PreviewLines, Collapsed, MaxShown, ColumnWidths,
    MaxOutput, Context, Limit, MaxScript, MaxLines, Sessions, Paths, Queries,
    NoValue, MaxRecords, MaxChanges, MaxCalls, MaxText, Peers, MaxNavEvents,
    MaxCommands, MaxStarts, MaxQueued, Delegated, MaxRows, MinVisible,
    RevealDelay, MaxEvents, MaxTime, JoinCalls, MaxLog, MaxJoinTurns, MaxSteers,
    MaxDrops, Heading, LineBreak, MaxWord, CallIds, Delay, Hold, MaxParts,
    MaxShownSteps, MaxLoads, MaxReplay, MaxItems, MaxNotes, MaxSwitches,
    MaxWire, MaxReplayWord

VARIABLES
    part, \* whose behaviour this is
    x1, x2, x3, x4, x5, x6, x7, x8, x9, x10, x11, x12, x13, x14, x15, x16,
    x17, x18 \* its variables

vars == <<part, x1, x2, x3, x4, x5, x6, x7, x8, x9, x10, x11, x12, x13, x14,
         x15, x16, x17, x18>>

D == INSTANCE DiffRows WITH
    script <- x1
P == INSTANCE PatchText WITH
    patch <- x1
O == INSTANCE CommandOutput WITH
    PreviewLimit <- MaxShown, Widths <- ColumnWidths, output <- x1,
    view <- x2
W == INSTANCE WorkspacePanel WITH
    None <- NoValue, server <- x1, active <- x2, state <- x3, loading <- x4,
    panel <- x5, collapsed <- x6, modal <- x7, width <- x8
M == INSTANCE PrintMode WITH
    None <- NoValue, log <- x1, text <- x2, turn <- x3, wire <- x4,
    cursor <- x5, pc <- x6, baseline <- x7, activity <- x8, output <- x9,
    chat <- x10, failures <- x11
N == INSTANCE SessionNavigation WITH
    None <- NoValue, Sessions <- Peers, MaxEvents <- MaxNavEvents,
    turn <- x1, compacting <- x2, view <- x3, root <- x4, subs <- x5,
    stream <- x6, wire <- x7, main <- x8, remote <- x9, status <- x10,
    count <- x11, muffled <- x12
H == INSTANCE Share WITH
    None <- NoValue, active <- x1, tunnels <- x2, footer <- x3, steps <- x4,
    running <- x5, main <- x6, queued <- x7, starts <- x8, overlapped <- x9
A == INSTANCE ActivityStatus WITH
    None <- NoValue, log <- x1, turn <- x2, handled <- x3, now <- x4,
    activity <- x5, timers <- x6
J == INSTANCE EventJoin WITH
    MaxTurns <- MaxJoinTurns, None <- NoValue, Calls <- JoinCalls, log <- x1,
    committed <- x2, phase <- x3, step <- x4, open <- x5, queue <- x6,
    turns <- x7, steers <- x8, drops <- x9, load <- x10, page <- x11,
    cursor <- x12, up <- x13, wire <- x14, own <- x15, base <- x16,
    torn <- x17, stale <- x18
T == INSTANCE WebTranscript WITH
    Ids <- CallIds, MaxSteps <- MaxShownSteps, None <- NoValue, Break <- LineBreak,
    messages <- x1, running <- x2, step <- x3, parts <- x4, loads <- x5,
    now <- x6, clocks <- x7
R == INSTANCE Transcript WITH
    Break <- LineBreak, MaxWord <- MaxReplayWord, None <- NoValue, phase <- x1,
    items <- x2, notes <- x3, messages <- x4, said <- x5, results <- x6,
    wire <- x7, load <- x8, view <- x9, first <- x10, whole <- x11,
    excused <- x12, switches <- x13

ASSUME ConstantsAssumption ==
    /\ D!Assumptions /\ P!Assumptions /\ O!Assumptions /\ W!Assumptions /\
       M!Assumptions /\ N!Assumptions /\ H!Assumptions /\ A!Assumptions /\
       J!Assumptions /\ T!Assumptions /\ R!Assumptions

-----------------------------------------------------------------------------
(* A variable a part has no use for is 0. *)
InitDiff == part = "diff" /\ D!Init
    /\ x2 = 0 /\ x3 = 0 /\ x4 = 0 /\ x5 = 0 /\ x6 = 0 /\ x7 = 0 /\ x8 = 0 /\
       x9 = 0 /\ x10 = 0 /\ x11 = 0 /\ x12 = 0 /\ x13 = 0 /\ x14 = 0 /\
       x15 = 0 /\ x16 = 0 /\ x17 = 0 /\ x18 = 0
OfDiff == part = "diff" /\ UNCHANGED <<part, x2, x3, x4, x5, x6, x7, x8, x9,
                          x10, x11, x12, x13, x14, x15, x16, x17, x18>>

InitPatch == part = "patch" /\ P!Init
    /\ x2 = 0 /\ x3 = 0 /\ x4 = 0 /\ x5 = 0 /\ x6 = 0 /\ x7 = 0 /\ x8 = 0 /\
       x9 = 0 /\ x10 = 0 /\ x11 = 0 /\ x12 = 0 /\ x13 = 0 /\ x14 = 0 /\
       x15 = 0 /\ x16 = 0 /\ x17 = 0 /\ x18 = 0
OfPatch == part = "patch" /\ UNCHANGED <<part, x2, x3, x4, x5, x6, x7, x8,
                          x9, x10, x11, x12, x13, x14, x15, x16, x17, x18>>

InitOutput == part = "output" /\ O!Init
    /\ x3 = 0 /\ x4 = 0 /\ x5 = 0 /\ x6 = 0 /\ x7 = 0 /\ x8 = 0 /\ x9 = 0 /\
       x10 = 0 /\ x11 = 0 /\ x12 = 0 /\ x13 = 0 /\ x14 = 0 /\ x15 = 0 /\
       x16 = 0 /\ x17 = 0 /\ x18 = 0
OfOutput == part = "output" /\ UNCHANGED <<part, x3, x4, x5, x6, x7, x8, x9,
                          x10, x11, x12, x13, x14, x15, x16, x17, x18>>

InitPanel == part = "panel" /\ W!Init
    /\ x9 = 0 /\ x10 = 0 /\ x11 = 0 /\ x12 = 0 /\ x13 = 0 /\ x14 = 0 /\
       x15 = 0 /\ x16 = 0 /\ x17 = 0 /\ x18 = 0
OfPanel == part = "panel" /\ UNCHANGED <<part, x9, x10, x11, x12, x13, x14,
                          x15, x16, x17, x18>>

InitPrint == part = "print" /\ M!Init
    /\ x12 = 0 /\ x13 = 0 /\ x14 = 0 /\ x15 = 0 /\ x16 = 0 /\ x17 = 0 /\
       x18 = 0
OfPrint == part = "print" /\ UNCHANGED <<part, x12, x13, x14, x15, x16, x17,
                          x18>>

InitNavigation == part = "navigation" /\ N!Init
    /\ x13 = 0 /\ x14 = 0 /\ x15 = 0 /\ x16 = 0 /\ x17 = 0 /\ x18 = 0
OfNavigation == part = "navigation" /\ UNCHANGED <<part, x13, x14, x15, x16,
                          x17, x18>>

InitShare == part = "share" /\ H!Init
    /\ x10 = 0 /\ x11 = 0 /\ x12 = 0 /\ x13 = 0 /\ x14 = 0 /\ x15 = 0 /\
       x16 = 0 /\ x17 = 0 /\ x18 = 0
OfShare == part = "share" /\ UNCHANGED <<part, x10, x11, x12, x13, x14, x15,
                          x16, x17, x18>>

InitActivity == part = "activity" /\ A!Init
    /\ x7 = 0 /\ x8 = 0 /\ x9 = 0 /\ x10 = 0 /\ x11 = 0 /\ x12 = 0 /\
       x13 = 0 /\ x14 = 0 /\ x15 = 0 /\ x16 = 0 /\ x17 = 0 /\ x18 = 0
OfActivity == part = "activity" /\ UNCHANGED <<part, x7, x8, x9, x10, x11,
                          x12, x13, x14, x15, x16, x17, x18>>

InitJoin == part = "join" /\ J!Init
OfJoin == part = "join" /\ UNCHANGED <<part>>

InitTranscript == part = "transcript" /\ T!Init
    /\ x8 = 0 /\ x9 = 0 /\ x10 = 0 /\ x11 = 0 /\ x12 = 0 /\ x13 = 0 /\
       x14 = 0 /\ x15 = 0 /\ x16 = 0 /\ x17 = 0 /\ x18 = 0
OfTranscript == part = "transcript" /\ UNCHANGED <<part, x8, x9, x10, x11,
                          x12, x13, x14, x15, x16, x17, x18>>

InitReplay == part = "replay" /\ R!Init
    /\ x14 = 0 /\ x15 = 0 /\ x16 = 0 /\ x17 = 0 /\ x18 = 0
OfReplay == part = "replay" /\ UNCHANGED <<part, x14, x15, x16, x17, x18>>

Init == InitDiff \/ InitPatch \/ InitOutput \/ InitPanel \/ InitPrint \/
        InitNavigation \/ InitShare \/ InitActivity \/
        InitJoin \/ InitTranscript \/ InitReplay

Next ==
    \/ OfDiff /\ D!Next
    \/ OfPatch /\ P!Next
    \/ OfOutput /\ O!Next
    \/ OfPanel /\ W!Next
    \/ OfPrint /\ M!Next
    \/ OfNavigation /\ N!Next
    \/ OfShare /\ H!Next
    \/ OfActivity /\ A!Next
    \/ OfJoin /\ J!Next
    \/ OfTranscript /\ T!Next
    \/ OfReplay /\ R!Next

Symmetry == Permutations(CallIds)

Spec == Init /\ [][Next]_vars

-----------------------------------------------------------------------------
(* The properties of the parts. *)

(* DiffRows, PatchText: a row of a diff has the numbers of its line and a  *)
(* key of its own; what is shown of a patch is what is applied, and the    *)
(* page and the terminal number its lines alike.                           *)
EditsAreShown ==
    /\ part = "diff" => D!RowsPointAtLines /\ D!RowsAreDistinct
    /\ part = "patch" => P!ShownAsApplied /\ P!SameNumbers

(* CommandOutput: every line of an output is shown, counted or marked.     *)
OutputIsAccounted == part = "output" => O!OutputIsAccounted

(* WorkspacePanel: what is shown can be left and found again, every file   *)
(* touched is listed once, and the modal opens when the user asks.         *)
PanelIsUsable ==
    /\ [](part = "panel" => W!PanelReachable /\ W!ListIsWhole)
    /\ [][part = "panel" => W!Asked]_vars

(* PrintMode: every tool has one line with its arguments, what was         *)
(* printed is the answer, and no turn runs on after the command.           *)
PromptIsAnswered == part = "print" =>
    /\ M!ToolsShownOnce /\ M!PrintedIsAnswer /\ M!NothingRunsOn

(* SessionNavigation: the way back from a sub-agent is always there, and   *)
(* the status row says what the session does.                              *)
NavigationIsTrue == part = "navigation" =>
    /\ N!CanComeBack /\ N!StatusIsTrue

(* Share: no tunnel is lost and none outlives the client.                  *)
SharesAccounted == part = "share" => H!SharesAccounted

(* ActivityStatus: no row is left and no failure hidden, a timer is set    *)
(* for what is to be shown, and a line stays long enough to be read.       *)
ActivityIsShown ==
    /\ [](part = "activity" => A!RowsTellTheStep /\ A!TimersAccounted)
    /\ [][part = "activity" => A!LineStays]_vars

(* EventJoin: text and tool calls are shown in order and once, and a page at *)
(* rest shows all there is and is not busy when no turn runs.              *)
JoinShowsAll == part = "join" =>
    /\ J!ShownInOrder /\ J!NothingMissing /\ J!BusyEnds

(* WebTranscript: fragments, calls and results are shown once, in order, and *)
(* a timer is due when what is shown is out of date.                       *)
AnswerIsShown == part = "transcript" =>
    /\ T!EachPartOnce /\ T!PresentationCatchesUp

(* Transcript: a session looks the same live and when it is opened again,  *)
(* in the order of the model, with its reasoning merged without loss.      *)
TranscriptIsFaithful == part = "replay" =>
    /\ R!ReplayMatchesLive /\ R!ModelInOrder /\ R!MergeIsShortest
=============================================================================
