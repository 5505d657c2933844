------------------------------ MODULE PatchText -------------------------------
(***************************************************************************)
(* The text of an apply_patch call as its three readers take it: the       *)
(* server applies it (parse_patch in patch_tool.py), the web page makes a  *)
(* unified diff of it (web/src/lib/chat/tool/diff.ts), and the terminal    *)
(* shows its sections (client/src/ui/tool-activity.ts) and, while the call *)
(* is still streamed, counts its lines.                                    *)
(*                                                                         *)
(* A patch is a sequence of lines, of which only the form is kept; the     *)
(* text of a line is its place.  The server puts the first and the last    *)
(* line where they are missing.  Every section has a path of its own.      *)
(***************************************************************************)
EXTENDS Naturals, Sequences, FiniteSets, SequencesExt

CONSTANT MaxLines  \* bound: the lines of a patch

\* What the constants are.
Assumptions ==
    /\ MaxLines \in Nat

VARIABLE patch

pvars == <<patch>>

Sections == {"Update", "Add", "Delete"}
Loose == "Update without a colon"
Directives == Sections \cup {Loose, "Move", "End of File", "End Patch"}
Hunks == {"@@", "@@ -5 +5 @@"}

\* A line that is added, removed, kept, kept and empty, and two that look
\* like the header of a file.
Plus == {"+", "+++"}
Minus == {"-", "---"}
Kept == {" ", "", "text"}
Forms == Directives \cup Hunks \cup Plus \cup Minus \cup Kept

\* How the rows of lines are numbered.
LOCAL R == INSTANCE DiffRows WITH Context <- 0, Limit <- 0, MaxScript <- 0, script <- patch
Line(mark, text) == R!Line(mark, text)
Header(old, new) == R!Header(old, new)
Places == [i \in DOMAIN patch |-> i]
Mark(form) == IF form \in Plus THEN "+" ELSE IF form \in Minus THEN "-"
              ELSE IF form \in Hunks THEN "@@" ELSE IF form = " " THEN " " ELSE "text"
AsLine(i) == IF patch[i] = "@@ -5 +5 @@" THEN Header(5, 5) ELSE Line(Mark(patch[i]), i)

\* The lines of a hunk that are in the file before, and after.
OldCount(lines) == Len(SelectSeq(lines, LAMBDA line : line.mark # "+"))
NewCount(lines) == Len(SelectSeq(lines, LAMBDA line : line.mark # "-"))

\* The acc of a fold with its last file changed.
InLast(files, line) ==
    [files EXCEPT ![Len(files)].lines = Append(@, line)]

-----------------------------------------------------------------------------
(* parse_patch.  "where" is what may come: "top" a section, "start" the    *)
(* line after Update File, "hunks" the header of a hunk, "hunk" its lines, *)
(* "add" the lines of a new file, "end" nothing, "error" that it failed.   *)
Section(kind) == IF kind = Loose THEN "Update" ELSE kind
NewFile(kind) == [kind |-> kind, lines |-> <<>>]

\* A line that begins with "*** ": it closes what is open.
ParseDirective(acc, form) ==
    LET closed == acc.where \in {"top", "add"}
                  \/ (acc.where \in {"hunk", "hunks"} /\ acc.full) IN
    CASE acc.where = "start" /\ form = "Move" -> [acc EXCEPT !.where = "hunks"]
      [] acc.where = "hunk" /\ acc.full /\ form = "End of File" -> [acc EXCEPT !.where = "hunks"]
      [] closed /\ form = "End Patch" -> [acc EXCEPT !.where = "end"]
      [] closed /\ form \in Sections \cup {Loose} ->
           [acc EXCEPT !.files = Append(@, NewFile(Section(form))), !.full = FALSE,
                       !.where = CASE form = "Add" -> "add" [] form = "Delete" -> "top"
                                   [] OTHER -> "start"]
      [] OTHER -> [acc EXCEPT !.where = "error"]

ParseLine(acc, form, i) ==
    CASE acc.where \in {"error", "end"} -> [acc EXCEPT !.where = "error"]
      [] form \in Directives -> ParseDirective(acc, form)
      [] acc.where = "add" /\ form \in Plus \cup {""} ->
           [acc EXCEPT !.files = InLast(@, Line("+", i))]
      [] acc.where \in {"start", "hunks", "hunk"} /\ form \in Hunks ->
           IF acc.where = "hunk" /\ ~acc.full THEN [acc EXCEPT !.where = "error"]
           ELSE [acc EXCEPT !.where = "hunk", !.full = FALSE]
      [] acc.where = "hunk" /\ form \in Plus \cup Minus \cup Kept ->
           [acc EXCEPT !.files = InLast(@, Line(Mark(form), i)), !.full = TRUE]
      [] OTHER -> [acc EXCEPT !.where = "error"]

Parsed == FoldLeft(LAMBDA acc, i : ParseLine(acc, patch[i], i),
                   [where |-> "top", files |-> <<>>, full |-> FALSE], Places)

\* With the last line put there if it is missing.
IsAccepted(acc) ==
    \/ acc.where \in {"top", "add", "end"}
    \/ acc.where \in {"hunk", "hunks"} /\ acc.full

-----------------------------------------------------------------------------
(* The web page. *)

\* One line in the loop of normalizeApplyPatch.
WebLine(acc, i) ==
    LET form == patch[i] IN
    CASE form \in {"Update", "Add"} -> [files |-> Append(acc.files, NewFile(form)), open |-> TRUE]
      [] form = "Delete" -> [files |-> Append(acc.files, NewFile(form)), open |-> FALSE]
      [] form = "Move" /\ i > 1 /\ patch[i - 1] = "Update" -> acc
      [] form \in Directives -> [acc EXCEPT !.open = FALSE]
      [] acc.open -> [acc EXCEPT !.files = InLast(@, AsLine(i))]
      [] OTHER -> acc

\* finalizeSimplifiedHunk, with what is counted after it.
Finalized(acc) ==
    IF acc.hunk = <<>> THEN acc
    ELSE [lines |-> acc.lines \o <<Header(acc.old, acc.new)>> \o acc.hunk, hunk |-> <<>>,
          old |-> acc.old + OldCount(acc.hunk), new |-> acc.new + NewCount(acc.hunk)]

\* normalizeApplyPatchBody: hunks without numbers follow each other from line 1.
WebBody(lines) ==
    IF \E i \in DOMAIN lines : lines[i].at # <<>> THEN lines
    ELSE Finalized(FoldLeft(LAMBDA acc, line :
                        IF line.mark = "@@" THEN Finalized(acc)
                        ELSE [acc EXCEPT !.hunk = Append(@, line)],
                     [lines |-> <<>>, hunk |-> <<>>, old |-> 1, new |-> 1], lines)).lines

\* normalizeApplyPatch; normalizeUnifiedPatchForRenderer puts the missing
\* space before a line that is kept.
WebFiles ==
    LET files == FoldLeft(WebLine, [files |-> <<>>, open |-> FALSE], Places).files
        lines(file) == CASE file.kind = "Update" -> WebBody(file.lines)
                         [] file.kind = "Add" -> <<Header(0, 1)>> \o file.lines
                         [] OTHER -> <<Header(1, 0), Line("-", 0)>>
        spaced(line) == IF line.mark = "text" THEN Line(" ", line.text) ELSE line
    IN [k \in DOMAIN files |->
          [files[k] EXCEPT !.lines = LET all == lines(files[k]) IN
                                     [j \in DOMAIN all |-> spaced(all[j])]]]

-----------------------------------------------------------------------------
(* The terminal. *)

\* One line in the loop of parsePatchTextDiffs.
TerminalLine(acc, i) ==
    IF patch[i] \in Sections THEN Append(acc, NewFile(patch[i]))
    ELSE IF acc = <<>> THEN acc ELSE InLast(acc, AsLine(i))

\* normalizeHunkLines
HunkLines(lines) ==
    LET flushed(acc) ==
            IF acc.hunk = <<>> THEN acc
            ELSE [lines |-> acc.lines \o <<Header(acc.old, acc.new)>> \o acc.hunk, hunk |-> <<>>,
                  old |-> acc.old + OldCount(acc.hunk), new |-> acc.new + NewCount(acc.hunk)]
    IN IF \E i \in DOMAIN lines : lines[i].at # <<>> THEN lines
       ELSE flushed(FoldLeft(LAMBDA acc, line :
                        IF line.mark = "@@" THEN flushed(acc)
                        ELSE [acc EXCEPT !.hunk = Append(@, line)],
                     [lines |-> <<>>, hunk |-> <<>>, old |-> 1, new |-> 1], lines)).lines

\* parsePatchTextDiffs: with the lines that are added and removed.
CountMark(lines, mark) == Len(SelectSeq(lines, LAMBDA line : line.mark = mark))
TerminalFiles ==
    LET files == FoldLeft(TerminalLine, <<>>, Places) IN
    [k \in DOMAIN files |->
        LET lines == HunkLines(files[k].lines) IN
        [kind |-> files[k].kind, lines |-> lines,
         added |-> CountMark(lines, "+"), removed |-> CountMark(lines, "-")]]

\* countPatchChanges, on as much of the patch as has come.
StreamCounts ==
    [added |-> Len(SelectSeq(patch, LAMBDA form : form = "+")),
     removed |-> Len(SelectSeq(patch, LAMBDA form : form = "-"))]

-----------------------------------------------------------------------------
Init == patch = <<>>

\* The next line of the arguments of the call.  What the server refuses
\* anyhow is not written on.
Write ==
    /\ Len(patch) < MaxLines
    /\ LET parsed == Parsed IN
       \E form \in Forms :
          /\ ParseLine(parsed, form, Len(patch) + 1).where # "error"
          /\ patch' = Append(patch, form)

Next == Write
Spec == Init /\ [][Next]_pvars

-----------------------------------------------------------------------------
IsChange(line) == line.mark \in {"+", "-"}
Texts(lines) == LET changed == SelectSeq(lines, IsChange) IN
                [k \in DOMAIN changed |-> <<changed[k].mark, changed[k].text>>]
Edits(files) == SelectSeq(files, LAMBDA file : file.kind # "Delete")
ChangesOf(files) == LET edits == Edits(files) IN [k \in DOMAIN edits |-> Texts(edits[k].lines)]

\* What neither the page nor the terminal know: a section without a colon
\* and an empty line of a new file.
IsPlain ==
    /\ Loose \notin ToSet(patch)
    /\ \A i \in DOMAIN patch : patch[i] = "" =>
          \E j \in 1 .. i : patch[j] = "Update" /\ "Add" \notin ToSet(SubSeq(patch, j, i))

\* What the page does not: hunks after the end of the file.
EndsOnce == \A i \in 1 .. Len(patch) - 1 : patch[i] = "End of File" => patch[i + 1] \notin Hunks

(* parse_patch decides what is changed; normalizeApplyPatch and            *)
(* parsePatchTextDiffs read the same text again, each by rules of its own. *)
(* For a patch the server takes, both show, file by file and in order,     *)
(* exactly the lines that are added and removed, apart from what IsPlain   *)
(* and EndsOnce name; and what the terminal counts, in the sections and on *)
(* the stream, are these lines, but on the stream for those that look like *)
(* the header of a file.                                                   *)
ShownAsApplied ==
    LET parsed == Parsed
        changes == ChangesOf(parsed.files)
        shown == TerminalFiles
    IN IsAccepted(parsed) /\ IsPlain /\ (patch # <<>> => Last(patch) # "") =>
         /\ ChangesOf(shown) = changes
         /\ EndsOnce => ChangesOf(WebFiles) = changes
         /\ \A k \in DOMAIN shown :
              shown[k].added + shown[k].removed = Len(Texts(shown[k].lines))
         /\ {"+++", "---"} \cap ToSet(patch) = {} =>
              StreamCounts.added + StreamCounts.removed = Len(FlattenSeq(changes))

(* The page and the terminal number the hunks each in its own loop: what   *)
(* is changed has the same number in both, unless the file is also moved,  *)
(* for the terminal takes that line for one of the file.                   *)
SameNumbers ==
    LET web == Edits(WebFiles)
        terminal == Edits(TerminalFiles)
        numbers(lines) ==
            LET rows == R!RowsFromLines(lines)
                changed == SelectSeq(rows, LAMBDA row : row.kind \in {"add", "remove"})
            IN [k \in DOMAIN changed |->
                  <<changed[k].text, IF changed[k].kind = "add" THEN changed[k].new ELSE changed[k].old>>]
    IN IsAccepted(Parsed) /\ IsPlain /\ EndsOnce /\ "Move" \notin ToSet(patch) =>
         \A k \in DOMAIN web : numbers(web[k].lines) = numbers(terminal[k].lines)
=============================================================================
