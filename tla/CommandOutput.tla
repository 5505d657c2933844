---------------------------- MODULE CommandOutput ----------------------------
(***************************************************************************)
(* What a user sees of the output of a shell command.  The server keeps    *)
(* the end of a long output and says so in a first line                    *)
(* (server/tools/_utils.py); it sends that, and a preview of its first     *)
(* lines.  The terminal client takes the note apart again and leaves out   *)
(* the middle of what is still too long                                    *)
(* (client/src/ui/command-activity.ts); the user may expand it.            *)
(*                                                                         *)
(* A line is its place in the output; of its text the width is kept.       *)
(***************************************************************************)
EXTENDS Integers, Sequences, FiniteSets

CONSTANTS
    MaxKept,      \* BASH_OUTPUT_LINE_LIMIT
    MaxBytes,     \* BASH_OUTPUT_BYTE_LIMIT
    PreviewLines, \* max_lines of _multiline_preview
    Collapsed,    \* COLLAPSED_OUTPUT_LINES
    PreviewLimit, \* commandOutputPreviewLimit: characters of a collapsed output
    Widths,       \* of lines
    MaxOutput     \* bound: the lines of an output

\* What the constants are.
Assumptions ==
    /\ {MaxKept, MaxBytes, PreviewLines} \subseteq Nat \ {0}
    /\ Collapsed \in Nat /\ Collapsed > 2
    /\ Widths \subseteq Nat \ {0}
    /\ PreviewLimit \in Nat /\ PreviewLimit <= MaxBytes
    /\ MaxOutput \in Nat

VARIABLES
    output, \* the widths of the lines the command wrote
    view    \* how the result is shown

covars == <<output, view>>

Running == [form |-> "running", full |-> FALSE]

Width(row) == IF row.is = "line" THEN output[row.n] ELSE 1
Size(rows) ==
    LET upto[i \in 0 .. Len(rows)] == IF i = 0 THEN -1 ELSE upto[i - 1] + Width(rows[i]) + 1
    IN  upto[Len(rows)]
Row(is, n) == [is |-> is, n |-> n]
Lines(from, to) == [i \in 1 .. to - from + 1 |-> Row("line", from + i - 1)]
LastRows(rows, n) == SubSeq(rows, Len(rows) - n + 1, Len(rows))
All == Lines(1, Len(output))

-----------------------------------------------------------------------------
(* _truncate_command_output *)
Fits(rows) == Size(rows) <= MaxBytes

\* The last bytes of the rows, without the line they begin in, unless it is
\* the only one.
Cut(rows) ==
    LET whole == {n \in 1 .. Len(rows) : Fits(LastRows(rows, n))}
        most == CHOOSE n \in whole : \A m \in whole : m <= n
    IN  IF whole = {} THEN 1
        ELSE IF Size(LastRows(rows, most)) = MaxBytes /\ most > 1 THEN most - 1 ELSE most

OfTail(tail) == IF Fits(tail) THEN tail ELSE LastRows(tail, Cut(tail))
Kept == OfTail(IF Len(All) > MaxKept THEN LastRows(All, MaxKept) ELSE All)

Whole == Len(All) <= MaxKept /\ Fits(All)
Result(kept) ==
    IF Whole THEN kept
    ELSE <<Row("notice", Len(output) - Len(kept)), Row("blank", 0)>> \o kept

\* _multiline_preview
Preview(result) ==
    IF Len(result) <= PreviewLines THEN result
    ELSE Append(SubSeq(result, 1, PreviewLines), Row("truncated", 0))

-----------------------------------------------------------------------------
(* formatCommandOutput *)

\* Faulty: the lines at the end are counted as left out too.
CompactMiscounted(rows, max) ==
    LET head == max \div 2
        tail == (max - 1) \div 2
    IN  IF Len(rows) <= max THEN rows
        ELSE SubSeq(rows, 1, head) \o <<Row("omitted", Len(rows) - head)>> \o LastRows(rows, tail)

\* compactOutputLines
Compact(rows, max) ==
    LET head == max \div 2
        tail == (max - 1) \div 2
    IN  IF Len(rows) <= max THEN rows
        ELSE SubSeq(rows, 1, head) \o <<Row("omitted", Len(rows) - head - tail)>> \o LastRows(rows, tail)

\* The text is the output, or the preview of it when the server sent no more.
Text(result) == IF view.full THEN result ELSE Preview(result)
Expanded == view.form = "expanded" /\ view.full
Noted(text) == text # <<>> /\ text[1].is = "notice"
More(text) == text # <<>> /\ text[Len(text)].is = "truncated"
Body(text) ==
    SubSeq(text, IF Noted(text) THEN 3 ELSE 1, IF More(text) THEN Len(text) - 1 ELSE Len(text))

OrCut(rows) == IF ~Expanded /\ Size(rows) > PreviewLimit THEN <<Row("cut", 0)>> ELSE rows
Visible(body) == OrCut(IF Expanded THEN body ELSE Compact(body, Collapsed))

If(condition, row) == IF condition THEN <<row>> ELSE <<>>
Layout(text, visible) ==
    LET count == IF Noted(text) THEN text[1].n ELSE 0
        unavailable == If(count > 0, Row("unavailable", count))
    IN  IF view.form = "plain"
        THEN visible \o (IF visible = <<Row("cut", 0)>> THEN <<>> ELSE unavailable)
        ELSE visible \o unavailable
               \o If(Noted(text) /\ ~Fits(All), Row("bytes", 0))
               \o If(More(text) /\ ~view.full, Row("more", 0))

Formatted(text) == Layout(text, Visible(Body(text)))
Shown == Formatted(Text(Result(Kept)))

-----------------------------------------------------------------------------
Init == output = <<>> /\ view = Running

Write(width) ==
    /\ view = Running /\ Len(output) < MaxOutput
    /\ output' = Append(output, width) /\ UNCHANGED view

\* The result comes to a terminal, or to an output that is none; a server
\* that is older sends only the preview.
Exit(form, full) ==
    /\ view = Running /\ output # <<>>
    /\ view' = [form |-> form, full |-> full] /\ UNCHANGED output

\* Ctrl+O
Toggle ==
    /\ view.form \in {"collapsed", "expanded"}
    /\ view' = [view EXCEPT !.form = IF @ = "collapsed" THEN "expanded" ELSE "collapsed"]
    /\ UNCHANGED output

Next ==
    \/ \E width \in Widths : Write(width)
    \/ \E form \in {"collapsed", "plain"}, full \in BOOLEAN : Exit(form, full)
    \/ Toggle

Spec == Init /\ [][Next]_covars

-----------------------------------------------------------------------------
Of(rows, is) == SelectSeq(rows, LAMBDA row : row.is = is)
Count(rows) == IF rows = <<>> THEN 0 ELSE rows[1].n

\* Of what is shown and of its lines.
Accounted(shown, lines) ==
    LET counted == Len(lines) + Count(Of(shown, "omitted")) + Count(Of(shown, "unavailable"))
        marked == Of(shown, "cut") \o Of(shown, "more") # <<>>
    IN  /\ \A i, j \in DOMAIN lines : i < j => lines[i].n < lines[j].n
        /\ view.full \/ view.form # "plain" => marked \/ counted = Len(output)
        /\ counted <= Len(output)
        /\ view.full /\ Of(shown, "cut") = <<>> => lines # <<>> /\ lines[Len(lines)].n = Len(output)
        /\ Expanded => lines = Kept

(* Server and client cut the same output after each other, in different    *)
(* ways.  Lines are shown in order, and every one that is not is counted:  *)
(* those the server dropped, those the client leaves out and those shown   *)
(* are the lines the command wrote.  Where that cannot be, in the middle   *)
(* of a text or after a preview, there is a mark.  The last line, which    *)
(* says how a command failed, is shown unless there is such a mark, and    *)
(* nothing the server kept is left out when the user has expanded it.      *)
OutputIsAccounted == view # Running => Accounted(Shown, Of(Shown, "line"))
=============================================================================
