------------------------------- MODULE DiffRows -------------------------------
(***************************************************************************)
(* The rows in which a diff is shown: _diff_metadata of the server's tools *)
(* sends the lines of a unified diff and the list of the changes; the tool *)
(* block of the web page (web/src/lib/chat/tool/diff.ts), its workspace    *)
(* panel (WorkspaceState.svelte) and the terminal (client/src/ui/render.ts)*)
(* count the line numbers from the headers of the hunks.                   *)
(*                                                                         *)
(* A diff is written down as its script: "=" keeps a line, "-" removes and *)
(* "+" adds one, "~" removes one whose text begins with two dashes.  The   *)
(* text of a line is its place in the script.                              *)
(***************************************************************************)
EXTENDS Naturals, Sequences, FiniteSets, SequencesExt

CONSTANTS
    Context,   \* the lines kept around a change
    Limit,     \* the most lines, and changes, that are sent
    MaxScript  \* bound: the length of a script

\* What the constants are.
Assumptions ==
    /\ {Context, Limit, MaxScript} \subseteq Nat

VARIABLE script

dvars == <<script>>

Places == [i \in DOMAIN script |-> i]
IsOld(i) == script[i] # "+"
IsNew(i) == script[i] \notin {"-", "~"}

\* The number of the line in the file before and after.
OldLine(i) == Cardinality({j \in 1 .. i : IsOld(j)})
NewLine(i) == Cardinality({j \in 1 .. i : IsNew(j)})

-----------------------------------------------------------------------------
(* A line of a unified diff; of a header, at is where its hunk begins, if  *)
(* it says so.                                                             *)
Line(mark, text) == [mark |-> mark, text |-> text, at |-> <<>>]
Header(old, new) == [mark |-> "@@", text |-> <<old, new>>, at |-> <<old, new>>]
Row(kind, old, new, text) == [kind |-> kind, old |-> old, new |-> new, text |-> text]
None == 0

\* _diff_changes
Changes ==
    LET changed == SelectSeq(Places, LAMBDA i : script[i] # "=") IN
    [k \in DOMAIN changed |->
        LET i == changed[k] IN
        IF script[i] = "+" THEN Row("add", None, NewLine(i), i)
        ELSE Row("remove", OldLine(i), None, i)]

\* difflib.unified_diff with n = Context: what is near a change, in hunks.
IsShown(i) == \E j \in DOMAIN script : script[j] # "=" /\ i <= j + Context /\ j <= i + Context
Hunk(i) ==
    LET ends == {j \in i .. Len(script) : \A k \in i .. j : IsShown(k)}
        old == {j \in ends : IsOld(j)}
        new == {j \in ends : IsNew(j)}
        first(lines, number(_)) ==
            IF lines = {} THEN number(i) ELSE number(CHOOSE j \in lines : \A k \in lines : j <= k)
    IN Header(first(old, OldLine), first(new, NewLine))
Unified ==
    LET lines(i) ==
            (IF IsShown(i) /\ (i = 1 \/ ~IsShown(i - 1)) THEN <<Hunk(i)>> ELSE <<>>)
            \o (IF IsShown(i) THEN <<Line(IF script[i] = "=" THEN " " ELSE script[i], i)>> ELSE <<>>)
    IN FlattenSeq([i \in DOMAIN script |-> lines(i)])

\* _diff_lines: a removed line that looks like the header of a file is left out.
Body == SelectSeq(Unified, LAMBDA line : line.mark # "~")

\* _diff_metadata
Upto(seq) == SubSeq(seq, 1, IF Len(seq) < Limit THEN Len(seq) ELSE Limit)
Sent == [lines |-> Upto(Body), changes |-> Upto(Changes),
         truncated |-> Len(Changes) > Limit \/ Len(Body) > Limit]

-----------------------------------------------------------------------------
(* How it is read. *)

\* Faulty: a line that is kept counts in the new file only.
ContextCountsOnce(acc, line) ==
    [rows |-> Append(acc.rows, Row("context", acc.old, acc.new, line.text)),
     old |-> acc.old, new |-> acc.new + 1]

\* The last case of buildStructuredRowsFromLines.
ReadContext(acc, line) ==
    [rows |-> Append(acc.rows, Row("context", acc.old, acc.new, line.text)),
     old |-> acc.old + 1, new |-> acc.new + 1]

\* One line in buildStructuredRowsFromLines.
ReadLine(acc, line) ==
    CASE line.mark = "@@" ->
           [rows |-> Append(acc.rows, Row("meta", None, None, line.text)),
            old |-> IF line.at = <<>> THEN acc.old ELSE line.at[1],
            new |-> IF line.at = <<>> THEN acc.new ELSE line.at[2]]
      [] line.mark = "+" ->
           [acc EXCEPT !.rows = Append(@, Row("add", None, acc.new, line.text)), !.new = @ + 1]
      [] line.mark = "-" ->
           [acc EXCEPT !.rows = Append(@, Row("remove", acc.old, None, line.text)), !.old = @ + 1]
      [] OTHER -> ReadContext(acc, line)

\* buildStructuredRowsFromLines
RowsFromLines(lines) == FoldLeft(ReadLine, [rows |-> <<>>, old |-> 1, new |-> 1], lines).rows

\* buildStructuredDiffRows
StructuredRows(diff) == IF diff.lines # <<>> THEN RowsFromLines(diff.lines) ELSE diff.changes

\* buildRows and buildRowsFromLines of the panel do the same.
PanelRows(record) == IF record.lines # <<>> THEN RowsFromLines(record.lines) ELSE record.changes

\* renderDiffLinesWithNumbers: one number to a line.
NumberLine(acc, line) ==
    CASE line.mark = "@@" ->
           [rows |-> Append(acc.rows, None),
            old |-> IF line.at = <<>> THEN acc.old ELSE line.at[1],
            new |-> IF line.at = <<>> THEN acc.new ELSE line.at[2]]
      [] line.mark = "+" -> [acc EXCEPT !.rows = Append(@, acc.new), !.new = @ + 1]
      [] line.mark = "-" -> [acc EXCEPT !.rows = Append(@, acc.old), !.old = @ + 1]
      [] OTHER -> [rows |-> Append(acc.rows, acc.new), old |-> acc.old + 1, new |-> acc.new + 1]
NumbersFromLines(lines) == FoldLeft(NumberLine, [rows |-> <<>>, old |-> 1, new |-> 1], lines).rows

\* renderFileEditDiff, renderDiffChange
TerminalNumbers(diff) ==
    IF diff.lines # <<>> THEN NumbersFromLines(diff.lines)
    ELSE [k \in DOMAIN diff.changes |->
            IF diff.changes[k].kind = "add" THEN diff.changes[k].new ELSE diff.changes[k].old]

-----------------------------------------------------------------------------
Init == script = <<>>

\* What is replaced is removed first.
KeepLine == Len(script) < MaxScript /\ script' = Append(script, "=")
RemoveLine ==
    /\ Len(script) < MaxScript /\ (script # <<>> => Last(script) # "+")
    /\ \E mark \in {"-", "~"} : script' = Append(script, mark)
AddLine == Len(script) < MaxScript /\ script' = Append(script, "+")

Next == KeepLine \/ RemoveLine \/ AddLine
Spec == Init /\ [][Next]_dvars

-----------------------------------------------------------------------------
ChangedRows(rows) == SelectSeq(rows, LAMBDA row : row.kind \in {"add", "remove"})

(* buildStructuredRowsFromLines, buildRowsFromLines and                    *)
(* renderDiffLinesWithNumbers: the numbers beside a row are those of its   *)
(* line in the file before and after, however many hunks came first and    *)
(* wherever the diff was cut; only _diff_lines leaving a line out, because *)
(* its text begins with two dashes, spoils them.                           *)
RowsPointAtLines ==
    "~" \notin ToSet(script) =>
      LET rows == StructuredRows(Sent)
          numbers == TerminalNumbers(Sent)
      IN \A k \in DOMAIN rows :
           LET row == rows[k] IN
           row.kind # "meta" =>
             /\ row.old = IF row.kind = "add" THEN None ELSE OldLine(row.text)
             /\ row.new = IF row.kind = "remove" THEN None ELSE NewLine(row.text)
             /\ numbers[k] = IF row.kind = "remove" THEN row.old ELSE row.new

\* Two lines of a file may have the same text.
Key(row) == IF row.kind = "meta" THEN <<row.kind, row.text[1], row.text[2]>>
            ELSE <<row.kind, row.old, row.new>>

(* The web page gives every row a key made of its kind, numbers and text,  *)
(* and Svelte refuses to show two rows with one key: no two rows of a diff *)
(* have one; and where nothing was cut or left out, the rows of the lines  *)
(* and those of the changes are the same.                                  *)
RowsAreDistinct ==
    LET rows == PanelRows(Sent) IN
    /\ \A j, k \in DOMAIN rows : j # k => Key(rows[j]) # Key(rows[k])
    /\ ~Sent.truncated /\ "~" \notin ToSet(script) =>
         ChangedRows(rows) = Sent.changes
=============================================================================
