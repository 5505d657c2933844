---------------------------- MODULE MCClientParts -----------------------------
(***************************************************************************)
(* The smaller parts of the terminal client for TLC, each by itself: a     *)
(* behaviour is one of the part it begins with.                            *)
(***************************************************************************)
EXTENDS Integers, Sequences, FiniteSets, TLC

CONSTANTS
    Images, MaxEnter, MaxQueued, MaxText, Requests, MaxLoads, MaxChanges,
    Providers, Commands, Sessions, MaxTokens, MaxTries, MaxRuns, NoValue,
    Clients, MaxVersion, MaxInstalls, Vendors, Lists, Pages, MaxAsked,
    MaxFetchFaults, Screens, MaxLines, MaxOthers, MaxFailures, MaxLost,
    MaxPops

VARIABLES
    part, \* whose behaviour this is
    x1, x2, x3, x4, x5, x6, x7, x8, x9, x10, x11, x12, x13, x14, x15, x16,
    x17, x18, x19, x20, x21, x22, x23, x24, x25 \* its variables

vars == <<part, x1, x2, x3, x4, x5, x6, x7, x8, x9, x10, x11, x12, x13, x14,
         x15, x16, x17, x18, x19, x20, x21, x22, x23, x24, x25>>

Extensions == <<"e1", "e2">>

\* Two providers whose entries have other names than they: models.dev withdraws
\* a model of one, and comes to know the other.
Published == <<[openai |-> [m \in {"gpt-5.6", "gpt-5.4"} |-> TRUE]],
               [openai |-> [m \in {"gpt-5.6", "gpt-5.4"} |-> m # "gpt-5.4"]]
                 @@ ("cloudflare-workers-ai" :> [m \in {"@cf/zai-org/glm-5.2"} |-> FALSE])>>
Served == {{"gpt-5.4", "gpt-5.6", "@cf/zai-org/glm-5.2", "@cf/moonshotai/kimi-k2.7-code"}}

P == INSTANCE Prompt WITH
    text <- x1, attachments <- x2, nextImage <- x3, reading <- x4,
    pending <- x5, waiting <- x6, given <- x7, shown <- x8, shell <- x9,
    extensions <- x10, pasted <- x11, queued <- x12, foreign <- x13
S == INSTANCE SessionPicker WITH
    generation <- x1, loader <- x2, complete <- x3, load <- x4,
    sessions <- x5, loads <- x6, request <- x7
C == INSTANCE Credentials WITH
    None <- NoValue, file <- x1, command <- x2, port <- x3, session <- x4,
    issued <- x5, runs <- x6, stored <- x7, missed <- x8, lost <- x9
I == INSTANCE Installation WITH
    MaxRuns <- MaxInstalls, kind <- x1, runtime <- x2, loose <- x3,
    server <- x4, latest <- x5, client <- x6, runs <- x7, started <- x8,
    broken <- x9
M == INSTANCE ModelCatalog WITH
    Providers <- Vendors, Requests <- Lists, MaxFaults <- MaxFetchFaults,
    version <- x1, file <- x2, process <- x3, request <- x4, asked <- x5,
    faults <- x6, answered <- x7
T == INSTANCE TerminalClient WITH
    Sessions <- Screens, MaxDrops <- MaxLost, None <- NoValue, turn <- x1,
    pend <- x2, log <- x3, delivered <- x4, config <- x5, shown <- x6,
    cursor <- x7, up <- x8, wire <- x9, late <- x10, typed <- x11,
    queue <- x12, reader <- x13, main <- x14, turnNo <- x15, local <- x16,
    pending <- x17, steer <- x18, pop <- x19, remote <- x20, cancels <- x21,
    gone <- x22, bounds <- x23, excused <- x24, crossed <- x25

ASSUME ConstantsAssumption ==
    /\ P!Assumptions /\ S!Assumptions /\ C!Assumptions /\ I!Assumptions /\
       M!Assumptions /\ T!Assumptions

-----------------------------------------------------------------------------
(* A variable a part has no use for is 0. *)
InitPrompt == part = "prompt" /\ P!Init
    /\ x14 = 0 /\ x15 = 0 /\ x16 = 0 /\ x17 = 0 /\ x18 = 0 /\ x19 = 0 /\
       x20 = 0 /\ x21 = 0 /\ x22 = 0 /\ x23 = 0 /\ x24 = 0 /\ x25 = 0
OfPrompt == part = "prompt" /\ UNCHANGED <<part, x14, x15, x16, x17, x18,
                          x19, x20, x21, x22, x23, x24, x25>>

InitPicker == part = "picker" /\ S!Init
    /\ x8 = 0 /\ x9 = 0 /\ x10 = 0 /\ x11 = 0 /\ x12 = 0 /\ x13 = 0 /\
       x14 = 0 /\ x15 = 0 /\ x16 = 0 /\ x17 = 0 /\ x18 = 0 /\ x19 = 0 /\
       x20 = 0 /\ x21 = 0 /\ x22 = 0 /\ x23 = 0 /\ x24 = 0 /\ x25 = 0
OfPicker == part = "picker" /\ UNCHANGED <<part, x8, x9, x10, x11, x12, x13,
                          x14, x15, x16, x17, x18, x19, x20, x21, x22, x23,
                          x24, x25>>

InitCredentials == part = "credentials" /\ C!Init
    /\ x10 = 0 /\ x11 = 0 /\ x12 = 0 /\ x13 = 0 /\ x14 = 0 /\ x15 = 0 /\
       x16 = 0 /\ x17 = 0 /\ x18 = 0 /\ x19 = 0 /\ x20 = 0 /\ x21 = 0 /\
       x22 = 0 /\ x23 = 0 /\ x24 = 0 /\ x25 = 0
OfCredentials == part = "credentials" /\ UNCHANGED <<part, x10, x11, x12,
                          x13, x14, x15, x16, x17, x18, x19, x20, x21, x22,
                          x23, x24, x25>>

InitInstallation == part = "installation" /\ I!Init
    /\ x10 = 0 /\ x11 = 0 /\ x12 = 0 /\ x13 = 0 /\ x14 = 0 /\ x15 = 0 /\
       x16 = 0 /\ x17 = 0 /\ x18 = 0 /\ x19 = 0 /\ x20 = 0 /\ x21 = 0 /\
       x22 = 0 /\ x23 = 0 /\ x24 = 0 /\ x25 = 0
OfInstallation == part = "installation" /\ UNCHANGED <<part, x10, x11, x12,
                          x13, x14, x15, x16, x17, x18, x19, x20, x21, x22,
                          x23, x24, x25>>

InitModels == part = "models" /\ M!Init
    /\ x8 = 0 /\ x9 = 0 /\ x10 = 0 /\ x11 = 0 /\ x12 = 0 /\ x13 = 0 /\
       x14 = 0 /\ x15 = 0 /\ x16 = 0 /\ x17 = 0 /\ x18 = 0 /\ x19 = 0 /\
       x20 = 0 /\ x21 = 0 /\ x22 = 0 /\ x23 = 0 /\ x24 = 0 /\ x25 = 0
OfModels == part = "models" /\ UNCHANGED <<part, x8, x9, x10, x11, x12, x13,
                          x14, x15, x16, x17, x18, x19, x20, x21, x22, x23,
                          x24, x25>>

InitTerminal == part = "terminal" /\ T!Init
OfTerminal == part = "terminal" /\ UNCHANGED <<part>>

Init == InitPrompt \/ InitPicker \/ InitCredentials \/ InitInstallation \/
        InitModels \/ InitTerminal

Next ==
    \/ OfPrompt /\ P!Next
    \/ OfPicker /\ S!Next
    \/ OfCredentials /\ C!Next
    \/ OfInstallation /\ I!Next
    \/ OfModels /\ M!Next
    \/ OfTerminal /\ T!Next

Symmetry == Permutations(Images)

Spec == Init /\ [][Next]_vars

-----------------------------------------------------------------------------
(* The properties of the parts. *)

(* Prompt: a typed submission sends the images its text shows, an image is *)
(* in the draft or in one submission, and a closed shell has no extensions. *)
PromptKeepsItsWord == part = "prompt" =>
    /\ P!SendsWhatItShows /\ P!ImageInOnePlace /\ P!ExtensionsAreDisposed

(* SessionPicker: what is listed was loaded for the current session.       *)
SuggestionsAreCurrent == part = "picker" => S!SuggestionsAreCurrent

(* Credentials: a stored credential is lost only to a race or a kill, and  *)
(* the callback port is free for the next sign-in.                         *)
CredentialsAreKept == part = "credentials" =>
    /\ C!LossIsExplained /\ C!PortIsFreed

(* Installation: no client starts half a runtime, a failed update leaves the *)
(* old server, and an updated server is the one that is used.              *)
InstallsWhole ==
    /\ [](part = "installation" => I!StartsWholeRuntime /\ I!OldServerStays)
    /\ [][part = "installation" => I!Updates]_vars

(* ModelCatalog: a client offers the same models whenever it is asked.     *)
OneCatalog == part = "models" => M!OneCatalog

(* TerminalClient: a line that was typed reaches a model or waits, none is *)
(* given twice, and the client knows whether a turn runs.                  *)
LinesAreAccounted == part = "terminal" =>
    /\ T!NothingTypedIsLost /\ T!GivenOnce /\ T!KnowsTheTurn
=============================================================================
