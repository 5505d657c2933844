---------------------------- MODULE WorkspacePanel ----------------------------
(***************************************************************************)
(* The workspace panel of the web page (web/src/lib/WorkspaceState.svelte, *)
(* web/src/lib/chump/workspace-changes.ts, and what Chat.svelte does with  *)
(* it): the files a session changed, the tabs, the diff of the files, on a *)
(* wide screen beside the chat and on a phone in a modal.                  *)
(*                                                                         *)
(* Every change adds one line.  After an action the effects have run.      *)
(***************************************************************************)
EXTENDS Naturals, Sequences, FiniteSets, SequencesExt

CONSTANTS
    Sessions,    \* the sessions of the workspace
    Paths,       \* the files: numbers, in the order of their names
    Queries,     \* the searches: what each leaves of the files
    None,        \* nothing
    MaxRecords,  \* MAX_CHANGE_RECORDS
    MaxChanges   \* bound: the changes between two times a session is cleared

\* What the constants are.
Assumptions ==
    /\ Sessions # {} /\ None \notin Sessions
    /\ Paths # {} /\ Paths \subseteq Nat /\ None \notin Paths
    /\ Paths \in Queries /\ Queries \subseteq SUBSET Paths
    /\ MaxRecords \in Nat \ {0} /\ MaxChanges \in Nat

VARIABLES
    server,     \* per session its state: records, totals, touched
    active,     \* activeSessionId
    state,      \* sessionState
    loading,    \* isLoadingSession
    panel,      \* the mounted WorkspaceState: selected (selectedPath), closed
                \* (userClosedDiff), tab (activeTab), query (the files the
                \* search leaves), selects (whether its effect still runs)
    collapsed,  \* isWorkspaceCollapsed
    modal,      \* modalOpen
    width       \* of the screen

wvars == <<server, active, state, loading, panel, collapsed, modal, width>>

\* Below 768 pixels, there, above, and from 1800.
Widths == {"phone", "768", "desktop", "wide"}
\* "other" are the terminal, the browser and the processes.
Tabs == {"other", "changes"}
IsDesktop(w) == w # "phone"

-----------------------------------------------------------------------------
(* The files. *)
NoState == [records |-> <<>>, totals |-> [p \in Paths |-> 0], touched |-> {}]
Changes(s) == FoldFunction(LAMBDA a, b : a + b, 0, s.totals)

\* The groups with records come last change first, the others by name.
Before(records, p, q) ==
    LET last(r) == IF r \in ToSet(records)
                   THEN CHOOSE i \in DOMAIN records :
                          records[i] = r /\ r \notin ToSet(SubSeq(records, i + 1, Len(records)))
                   ELSE 0
    IN last(p) > last(q) \/ (last(p) = last(q) /\ p < q)

\* Faulty: what is only touched is not listed.
GroupsOfRecords(current) ==
    IF current = None THEN <<>>
    ELSE LET paths == ToSet(current.records)
             added(p) == Len(SelectSeq(current.records, LAMBDA r : r = p))
             sorted == SetToSortSeq(paths, LAMBDA p, q : Before(current.records, p, q))
         IN [i \in DOMAIN sorted |-> [path |-> sorted[i], added |-> added(sorted[i])]]

\* buildFileGroups
Groups(current) ==
    IF current = None THEN <<>>
    ELSE LET changed == ToSet(current.records)
             paths == changed \cup current.touched \cup {p \in Paths : current.totals[p] > 0}
             added(p) == IF p \in changed THEN Len(SelectSeq(current.records, LAMBDA r : r = p))
                         ELSE current.totals[p]
             sorted == SetToSortSeq(paths, LAMBDA p, q : Before(current.records, p, q))
         IN [i \in DOMAIN sorted |-> [path |-> sorted[i], added |-> added(sorted[i])]]

\* filteredFiles, selectedFileIndex (0 is none)
Filtered(current, query) ==
    LET all == Groups(current) IN
    [i \in DOMAIN SelectSeq(all, LAMBDA g : g.path \in query) |->
        SelectSeq(all, LAMBDA g : g.path \in query)[i].path]
Index(files, path) == IF path \in ToSet(files) THEN CHOOSE i \in DOMAIN files : files[i] = path ELSE 0

-----------------------------------------------------------------------------
(* The component and its effects. *)

\* Mounted with a window that is wide enough, the effect that selects a file
\* reads what it depends on, and runs again when that changes.
Mounted(w) == [selected |-> None, closed |-> FALSE, tab |-> "changes", query |-> Paths,
               selects |-> w \in {"desktop", "wide"}]

\* The effect that selects the first file.
AutoSelect(p, current, w) ==
    IF ~p.selects \/ p.selected # None THEN p
    ELSE IF w \notin {"desktop", "wide"} THEN [p EXCEPT !.selects = FALSE]
    ELSE LET files == Filtered(current, p.query) IN
         IF files # <<>> /\ ~p.closed THEN [p EXCEPT !.selected = files[1]] ELSE p

\* Faulty: the modal is left open when there is nothing in it.
ModalStays(p, m, current) == m

\* The effect that closes an empty modal.
ModalAfter(p, m, current) == m /\ (p # None => Groups(current) # <<>>)

\* The page with its new state, panel (None: to be mounted, if shown), modal
\* and width, after the effects.
Settle(current, load, p, m, w) ==
    LET shown == current # None \/ load
        mounted == IF ~shown THEN None ELSE IF p = None THEN Mounted(w) ELSE p
        settled == IF mounted = None THEN None ELSE AutoSelect(mounted, current, w)
    IN /\ state' = current /\ loading' = load /\ width' = w
       /\ panel' = settled
       /\ modal' = ModalAfter(settled, m, current)

-----------------------------------------------------------------------------
Init ==
    /\ server = [s \in Sessions |-> NoState]
    /\ active \in Sessions
    /\ state = None /\ loading = FALSE /\ panel = None
    /\ collapsed \in BOOLEAN
    /\ modal = FALSE
    /\ width \in Widths

\* record_file_changes: a file is changed, or moved and changed.
Record(s, p, source) ==
    /\ Changes(server[s]) < MaxChanges
    /\ LET old == server[s]
           records == Append(old.records, p)
           kept == IF Len(records) > MaxRecords THEN Tail(records) ELSE records
       IN server' = [server EXCEPT ![s] =
              [records |-> kept, totals |-> [old.totals EXCEPT ![p] = @ + 1],
               touched |-> old.touched \cup {p} \cup ({source} \ {None})]]
    /\ UNCHANGED <<active, state, loading, panel, collapsed, modal, width>>

\* clear_messages
Clear(s) ==
    /\ server' = [server EXCEPT ![s] = NoState]
    /\ UNCHANGED <<active, state, loading, panel, collapsed, modal, width>>

\* selectSession, and refreshSession's answer
SelectSession(s) ==
    /\ active' = s
    /\ Settle(None, TRUE, panel, modal, width)
    /\ UNCHANGED <<server, collapsed>>
Loaded(ok) ==
    /\ loading
    /\ Settle(IF ok THEN server[active] ELSE None, FALSE, panel, modal, width)
    /\ UNCHANGED <<server, active, collapsed>>

\* handleStreamEvent: a "state" event
StateEvent ==
    /\ state # None /\ state # server[active]
    /\ Settle(server[active], loading, panel, modal, width)
    /\ UNCHANGED <<server, active, collapsed>>

\* Another workspace: disconnectSession, and the panel has another key.
Retarget ==
    /\ panel # None
    /\ Settle(None, FALSE, None, modal, width)
    /\ UNCHANGED <<server, active, collapsed>>

\* The window gets another width.  Chat mounts another panel on the other
\* side of 768 pixels; whether the panel that is removed still hears that it
\* should close its modal is the browser's choice.
Resize(w) ==
    /\ w # width
    /\ \E heard \in BOOLEAN :
          LET crosses == IsDesktop(w) # IsDesktop(width) IN
          /\ heard => crosses /\ IsDesktop(w) /\ panel # None
          /\ Settle(state, loading, IF crosses THEN None ELSE panel, modal /\ ~heard, w)
    /\ UNCHANGED <<server, active, collapsed>>

-----------------------------------------------------------------------------
(* What the user does in the panel. *)
Files == Filtered(state, panel.query)
Selected == Index(Files, panel.selected)
Do(p, m) == Settle(state, loading, p, m, width) /\ UNCHANGED <<server, active, collapsed>>

\* openFile
Opened(path) == Do([panel EXCEPT !.selected = path, !.closed = FALSE], width = "phone")
OpenFile(path) == panel # None /\ path \in ToSet(Files) /\ Opened(path)

\* selectPreviousFile, selectNextFile
SelectPreviousFile == panel # None /\ Selected > 1 /\ Opened(Files[Selected - 1])
SelectNextFile == panel # None /\ Selected \in 1 .. Len(Files) - 1 /\ Opened(Files[Selected + 1])

CloseModal == panel # None /\ modal /\ Do([panel EXCEPT !.closed = TRUE], FALSE)
CloseDiffView ==
    panel # None /\ panel.selected # None
    /\ Do([panel EXCEPT !.selected = None, !.closed = TRUE], FALSE)

\* "Back to file list", the tabs and the filter.
Back == panel # None /\ width = "phone" /\ modal /\ Do([panel EXCEPT !.selected = None], modal)
ChooseTab(tab) == panel # None /\ Do([panel EXCEPT !.tab = tab], modal)
Search(query) == panel # None /\ Do([panel EXCEPT !.query = query], modal)

\* toggleCollapse, in the panel
ToggleCollapse ==
    /\ panel # None /\ IsDesktop(width) /\ collapsed' = ~collapsed
    /\ UNCHANGED <<server, active, state, loading, panel, modal, width>>

\* workspaceChangesForTopBar and handleToggleWorkspace: the button of Chat,
\* where the sidebar does not cover it.
TopBar ==
    /\ state # None
    /\ IF IsDesktop(width) THEN collapsed ELSE Groups(state) # <<>>
ToggleWorkspace ==
    /\ TopBar
    /\ IF IsDesktop(width)
       THEN collapsed' = ~collapsed /\ UNCHANGED <<state, loading, panel, modal, width>>
       ELSE Settle(state, loading, panel, TRUE, width) /\ UNCHANGED collapsed
    /\ UNCHANGED <<server, active>>

Next ==
    \/ \E s \in Sessions :
          \/ \E p \in Paths, source \in Paths \cup {None} : Record(s, p, source)
          \/ Clear(s) \/ SelectSession(s)
    \/ \E ok \in BOOLEAN : Loaded(ok)
    \/ StateEvent \/ Retarget \/ \E w \in Widths : Resize(w)
    \/ \E p \in Paths : OpenFile(p)
    \/ SelectPreviousFile \/ SelectNextFile \/ CloseModal \/ CloseDiffView \/ Back
    \/ \E tab \in Tabs : ChooseTab(tab)
    \/ \E query \in Queries : Search(query)
    \/ ToggleCollapse \/ ToggleWorkspace

Spec == Init /\ [][Next]_wvars

-----------------------------------------------------------------------------
(* What is on the screen. *)

\* The panel beside the chat, from 768 pixels.
\* Faulty: beside the chat the diff is there for a selected file only.
DiffOfFile == ~collapsed /\ panel.selected # None

DiffShown == ~collapsed /\ (panel.tab # "changes" \/ panel.selected # None)
ListShown == ~collapsed /\ panel.tab = "changes" /\ (width = "wide" \/ panel.selected = None)
TabBarInList == ListShown /\ (width # "wide" \/ panel.selected = None)

\* The modal.
ModalShown == panel # None /\ modal /\ Groups(state) # <<>>
ModalList == width # "phone" \/ panel.selected = None
ModalDiff == width # "phone" \/ panel.selected # None

(* The markup decides in four places what is shown: beside the chat the    *)
(* tabs are there once and only once, over the diff or over the list, and  *)
(* when the panel is collapsed the top bar can open it again; in the modal *)
(* of a phone the list and the diff are never both there or both missing.  *)
PanelReachable ==
    panel # None =>
      /\ IsDesktop(width) /\ ~collapsed => (DiffShown <=> ~TabBarInList)
      /\ IsDesktop(width) /\ collapsed /\ state # None => TopBar
      /\ ~IsDesktop(width) /\ ModalShown => (ModalList <=> ~ModalDiff)

(* The server keeps the last MAX_CHANGE_RECORDS changes, the totals of     *)
(* every file and the files touched; buildFileGroups makes one list of     *)
(* them: every file that was touched is in it once, the last one changed   *)
(* comes first, and while no record was dropped the sum is that of all     *)
(* changes.                                                                *)
ListIsWhole ==
    state # None =>
      LET groups == Groups(state)
          sum[i \in 0 .. Len(groups)] == IF i = 0 THEN 0 ELSE sum[i - 1] + groups[i].added
      IN /\ {groups[i].path : i \in DOMAIN groups} = state.touched
         /\ Len(groups) = Cardinality(state.touched)
         /\ state.records # <<>> => groups[1].path = Last(state.records)
         /\ \A i \in DOMAIN groups :
              groups[i].added <= state.totals[groups[i].path]
              /\ (Len(state.records) < MaxRecords =>
                    groups[i].added = state.totals[groups[i].path])

(* modalOpen belongs to Chat and outlives sessions, panels and widths: the *)
(* modal of a phone never opens by itself, but only when the user opens a  *)
(* file or taps the button; so not because the first file of a session is  *)
(* changed or another session was loaded.                                  *)
Asked ==
    width = "phone" /\ width' = "phone" /\ ~ModalShown /\ ModalShown'
      => ToggleWorkspace \/ \E p \in Paths : OpenFile(p)
OpensWhenAsked == [][Asked]_wvars
=============================================================================
