-------------------------------- MODULE Prompt --------------------------------
(***************************************************************************)
(* The prompt of the terminal client (client/src/ui/tui/shell.ts and       *)
(* editor.ts): the draft, the images pasted into it, the submissions made  *)
(* of it and the extensions that live in the shell.                        *)
(*                                                                         *)
(* A pasted image is in two places: its label is text of the draft, which  *)
(* the user edits like any other, and the image is an entry of a list that *)
(* follows the text.  A paste is read from the clipboard or the disk while *)
(* the user goes on typing, submitting, recalling and taking back queued   *)
(* messages.  The text is abstracted to its labels and to Word for all     *)
(* else; the editor below (pi-tui) clears the draft before it reports a    *)
(* submission.                                                             *)
(***************************************************************************)
EXTENDS Naturals, Sequences, FiniteSets, SequencesExt

CONSTANTS
    Images,     \* images the user pastes, one paste each
    Extensions, \* the sequence of extensions of the shell
    MaxEnter,   \* bound: submissions
    MaxQueued,  \* bound: submissions the server queues
    MaxText     \* bound: labels and words in a draft

\* What the constants are.
Assumptions ==
    /\ {MaxEnter, MaxQueued, MaxText} \subseteq Nat

VARIABLES
    text,        \* the draft: labels and Word
    attachments, \* the attachments of the draft, whose order is left out
    nextImage,   \* nextImageNumber
    reading,     \* pastes being read
    pending,     \* pendingSubmissions
    waiting,     \* whether a read() waits (pendingResolve)
    given,       \* submissions read() returned
    shown,       \* queuedDisplay
    shell,       \* inputEnded, closed, and what became of the reader
    extensions,  \* how many were tried, which cleanups are kept, which were run
    pasted,      \* history: images pasted so far
    queued,      \* history: submissions queued by the server so far
    foreign      \* history: the draft was recalled or taken back, not typed

draft == <<text, attachments, nextImage, foreign>>
reader == <<pending, waiting, given>>
queue == <<shown, queued>>
vars == <<draft, reading, pasted, reader, queue, shell, extensions>>

-----------------------------------------------------------------------------
Word == 0

Labels(t) == Range(t) \ {Word}

\* attachmentsForDraft: an attachment whose label left the text is dropped.
ForDraft(t, as) == {a \in as : a.label \in Range(t)}

ImagesOf(as) == {a.image : a \in {b \in as : b.type = "image"}}

\* The text changed to t: onChange.
Change(t, as) ==
    /\ text' = t
    /\ attachments' = ForDraft(t, as)
    /\ foreign' = (foreign /\ t # <<>>)

\* steeringQueueSubmissions: what comes back of a submission is its text, and
\* its images as text attachments with the label for text.
AsQueued(s) ==
    [s EXCEPT !.attachments = {[a EXCEPT !.type = "text"] : a \in @}]

Open == ~shell.closed
Tried == extensions.tried = Len(Extensions)

-----------------------------------------------------------------------------
(* Editing.                                                                *)

Type ==
    /\ Open /\ Len(text) < MaxText
    /\ Word \notin Range(text)
    /\ Change(Append(text, Word), attachments)
    /\ UNCHANGED <<nextImage, reading, pasted, reader, queue, shell, extensions>>

Delete(i) ==
    /\ Open /\ i \in DOMAIN text
    /\ Change(RemoveAt(text, i), attachments)
    /\ UNCHANGED <<nextImage, reading, pasted, reader, queue, shell, extensions>>

\* A submission of the history comes back as text alone.
Recall(i) ==
    /\ Open /\ text = <<>> /\ i \in DOMAIN given
    /\ text' = given[i].text /\ attachments' = ForDraft(given[i].text, attachments)
    /\ foreign' = TRUE
    /\ UNCHANGED <<nextImage, reading, pasted, reader, queue, shell, extensions>>

\* handleInput: a paste, or the clipboard, is read while the editor goes on.
Paste(image) ==
    /\ Open /\ image \notin pasted
    /\ pasted' = pasted \union {image}
    /\ reading' = reading \union {image}
    /\ UNCHANGED <<draft, reader, queue, shell, extensions>>

\* insertImageAttachment: into whatever the draft is by now.
Attach(image) ==
    /\ nextImage' = nextImage + 1
    /\ LET a == [type |-> "image", image |-> image, label |-> nextImage]
       IN  Change(Append(text, nextImage), attachments \union {a})

\* readImageAttachment, readClipboardImageAttachment: an image it is.
Insert(image) ==
    /\ image \in reading /\ Len(text) < MaxText
    /\ reading' = reading \ {image}
    /\ Attach(image)
    /\ UNCHANGED <<pasted, reader, queue, shell, extensions>>

\* insertPaste, insertClipboard: not an image after all, so text or nothing.
InsertText(image) ==
    /\ image \in reading
    /\ reading' = reading \ {image}
    /\ \/ UNCHANGED draft
       \/ /\ Word \notin Range(text) /\ Len(text) < MaxText
          /\ Change(Append(text, Word), attachments)
          /\ UNCHANGED nextImage
    /\ UNCHANGED <<pasted, reader, queue, shell, extensions>>

-----------------------------------------------------------------------------
(* Submitting.                                                             *)

\* submit: the reader that waits gets it, or it is kept for the next one.
Submit(s) ==
    IF waiting
    THEN waiting' = FALSE /\ given' = Append(given, s) /\ UNCHANGED pending
    ELSE pending' = Append(pending, s) /\ UNCHANGED <<waiting, given>>

Submission(as) == [text |-> text, attachments |-> as, typed |-> ~foreign]

\* takeSubmittedAttachments, after the editor cleared its text.
TakeSubmitted ==
    text' = <<>> /\ foreign' = FALSE /\ attachments' = {} /\ nextImage' = 1

\* Faulty: the editor's clearing of the draft reaches the attachments first.
CarriedLate == ForDraft(<<>>, attachments)

\* handleInput keeps the attachments aside while the editor clears the draft.
Carried == attachments

Enter ==
    /\ Open /\ Len(given) + Len(pending) < MaxEnter
    /\ TakeSubmitted
    /\ IF text = <<>> /\ Carried = {} THEN UNCHANGED reader
       ELSE Submit(Submission(Carried))
    /\ UNCHANGED <<reading, pasted, queue, shell, extensions>>

Answer ==
    /\ Open /\ ~waiting /\ ~shell.done
    /\ IF shell.ended THEN shell' = [shell EXCEPT !.done = TRUE] /\ UNCHANGED reader
       ELSE /\ IF pending # <<>>
               THEN /\ given' = Append(given, Head(pending)) /\ pending' = Tail(pending)
                    /\ UNCHANGED waiting
               ELSE waiting' = TRUE /\ UNCHANGED <<pending, given>>
            /\ UNCHANGED shell
    /\ UNCHANGED <<draft, reading, pasted, queue, extensions>>

\* read(): not before the extensions were tried.
Read == Tried /\ Answer

\* finish(null): ctrl+c, or ctrl+d in an empty draft.
Exit ==
    /\ Open /\ ~shell.ended
    /\ shell' = [shell EXCEPT !.ended = TRUE, !.done = @ \/ waiting]
    /\ waiting' = FALSE
    /\ UNCHANGED <<draft, reading, pasted, pending, given, queue, extensions>>

\* close(), once the client's loop has ended: no input is left, or it read /quit.
Close ==
    /\ Open /\ (shell.done \/ given # <<>>)
    /\ shell' = [shell EXCEPT !.closed = TRUE, !.done = TRUE]
    /\ waiting' = FALSE
    /\ extensions' = [extensions EXCEPT !.disposed = Range(extensions.kept)]
    /\ UNCHANGED <<draft, reading, pasted, pending, given, queue>>

-----------------------------------------------------------------------------
(* The queue of the server, and the extensions.                            *)

\* setQueuedDisplay: the server reports its queue with this submission in it.
ShowQueued(i) ==
    /\ Open /\ i \in DOMAIN given /\ queued < MaxQueued
    /\ queued' = queued + 1
    /\ shown' = Append(shown, AsQueued(given[i]))
    /\ UNCHANGED <<draft, reading, pasted, reader, shell, extensions>>

\* popQueuedDisplay, removeQueuedDisplay: one of them was delivered.
Delivered(i) ==
    /\ Open /\ i \in DOMAIN shown
    /\ shown' = RemoveAt(shown, i)
    /\ UNCHANGED <<draft, queued, reading, pasted, reader, shell, extensions>>

\* restoreSubmission: a submission becomes the draft.
Restore(s) ==
    /\ text' = s.text
    /\ attachments' = ForDraft(s.text, s.attachments)
    /\ nextImage' = Cardinality(ImagesOf(s.attachments)) + 1
    /\ foreign' = TRUE

\* onPopQueued: the last one of the queue that is shown.
PopQueued ==
    /\ Open /\ text = <<>> /\ shown # <<>>
    /\ shown' = Front(shown)
    /\ Restore(Last(shown))
    /\ UNCHANGED <<queued, reading, pasted, reader, shell, extensions>>

\* initializeExtensions: one after the other; one that fails is reported.
Extend(works) ==
    /\ ~Tried
    /\ extensions' = [extensions EXCEPT
         !.tried = @ + 1,
         !.kept = IF works THEN Append(@, Extensions[extensions.tried + 1]) ELSE @]
    /\ UNCHANGED <<draft, reading, pasted, reader, queue, shell>>

Init ==
    /\ text = <<>> /\ attachments = {} /\ nextImage = 1 /\ foreign = FALSE
    /\ reading = {} /\ pasted = {}
    /\ pending = <<>> /\ waiting = FALSE /\ given = <<>>
    /\ shown = <<>> /\ queued = 0
    /\ shell = [ended |-> FALSE, done |-> FALSE, closed |-> FALSE]
    /\ extensions = [tried |-> 0, kept |-> <<>>, disposed |-> {}]

Next ==
    \/ Type \/ Enter \/ Read \/ Exit \/ Close \/ PopQueued
    \/ \E i \in 1..MaxText : Delete(i)
    \/ \E i \in 1..MaxEnter : Recall(i) \/ ShowQueued(i)
    \/ \E i \in 1..MaxQueued : Delivered(i)
    \/ \E image \in Images : Paste(image) \/ Insert(image) \/ InsertText(image)
    \/ \E works \in BOOLEAN : Extend(works)

Spec == Init /\ [][Next]_vars

-----------------------------------------------------------------------------
(* Properties.                                                             *)

Attached(s) == {a.label : a \in s.attachments}

(* A submission that was typed sends exactly what it shows: each label in  *)
(* its text has its image, one image per label, and no image goes along    *)
(* whose label was deleted, however pastes were finished between edits and *)
(* submissions (onChange, insertImageAttachment, submittedAttachments and  *)
(* takeSubmittedAttachments in editor.ts).                                 *)
SendsWhatItShows ==
    \A i \in DOMAIN (given \o pending) :
      LET s == (given \o pending)[i]
      IN  s.typed => /\ Labels(s.text) = Attached(s)
                     /\ Cardinality(ImagesOf(s.attachments)) = Cardinality(Attached(s))

(* A pasted image is in the draft or in one submission, never in two: what *)
(* was submitted is out of the editor, also when the message is recalled   *)
(* or taken back from the queue (takeSubmittedAttachments).                *)
ImageInOnePlace ==
    LET sent == given \o pending IN
    \A i \in DOMAIN sent :
      /\ ImagesOf(sent[i].attachments) \intersect ImagesOf(attachments) = {}
      /\ \A j \in DOMAIN sent : i # j =>
            ImagesOf(sent[i].attachments) \intersect ImagesOf(sent[j].attachments) = {}

(* The shell is closed only when each of its extensions was tried, and all *)
(* that were installed were disposed of: read() waits for them, and the    *)
(* client closes the shell only after a read (initializeExtensions, read   *)
(* and close in shell.ts).                                                 *)
ExtensionsAreDisposed ==
    shell.closed => Tried /\ extensions.disposed = Range(extensions.kept)

-----------------------------------------------------------------------------
(* What holds of every state, of which the properties are a part.          *)
Attachments == [type : {"image", "text"}, image : Images, label : Nat \ {0}]
Submissions ==
    [text : Seq(Nat), attachments : {as \in SUBSET Attachments : IsFiniteSet(as)}, typed : BOOLEAN]

\* Every label has its image, and every image its label.
Shows(t, as) ==
    /\ Labels(t) = {a.label : a \in as}
    /\ \A a \in as : a.type = "image"
    /\ \A a, b \in as : a.label = b.label \/ a.image = b.image => a = b

\* The images that are in some place by now.
Placed == pasted \ reading

DraftFits ==
    /\ text \in Seq(Nat) /\ attachments \in SUBSET Attachments /\ IsFiniteSet(attachments)
    /\ nextImage \in Nat \ {0} /\ foreign \in BOOLEAN /\ reading \subseteq pasted
    /\ pasted \subseteq Images
    /\ ImagesOf(attachments) \subseteq Placed
    /\ ~foreign => /\ Shows(text, attachments)
                   /\ \A a \in attachments : a.label < nextImage
SentFits ==
    /\ given \in Seq(Submissions) /\ pending \in Seq(Submissions) /\ waiting \in BOOLEAN
    /\ waiting => pending = <<>>
    /\ \A i \in DOMAIN (given \o pending) :
          LET s == (given \o pending)[i] IN
          /\ s.typed => Shows(s.text, s.attachments)
          /\ ImagesOf(s.attachments) \subseteq Placed
    /\ ImageInOnePlace
ShownFits ==
    /\ shown \in Seq(Submissions)
    /\ \A i \in DOMAIN shown : ImagesOf(shown[i].attachments) = {}
ShellFits ==
    /\ shell \in [ended : BOOLEAN, done : BOOLEAN, closed : BOOLEAN]
    /\ DOMAIN extensions = {"tried", "kept", "disposed"}
    /\ waiting \/ shell.done \/ given # <<>> => Tried
    /\ ExtensionsAreDisposed
PromptInv == DraftFits /\ SentFits /\ ShownFits /\ ShellFits
=============================================================================
