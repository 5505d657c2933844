---------------------------- MODULE ReasoningText -----------------------------
(***************************************************************************)
(* How fragments of reasoning are merged (mergeReasoningText in            *)
(* client/src/ui/reasoning.ts and in web/src/lib/chat/transcript.ts).      *)
(* Providers send what is new, or all there is so far, and an event may    *)
(* come twice; the merge looks for the overlap.                            *)
(*                                                                         *)
(* A text is a sequence of letters.                                        *)
(***************************************************************************)
EXTENDS Naturals, Sequences, SequencesExt

CONSTANTS
    Heading,  \* the marker of a bold heading
    Break,    \* an empty line
    MaxWord   \* bound: the texts that are merged

\* What the constants of this module are.
TextAssumptions ==
    /\ Heading # Break
    /\ MaxWord \in Nat

\* reasoningSummaryBoundary
IsHeading(existing, incoming) == Last(existing) = Heading /\ Head(incoming) = Heading

\* appendNovelSuffix: the longest overlap is left out.
NovelSuffix(existing, incoming) ==
    IF IsSuffix(incoming, existing) THEN <<>>
    ELSE IF IsPrefix(existing, incoming) THEN SubSeq(incoming, Len(existing) + 1, Len(incoming))
    ELSE IF IsHeading(existing, incoming) THEN incoming
    ELSE LET overlaps == {k \in 0 .. Len(incoming) :
                            IsSuffix(SubSeq(incoming, 1, k), existing)}
             longest == CHOOSE k \in overlaps : \A j \in overlaps : j <= k
         IN SubSeq(incoming, longest + 1, Len(incoming))

\* mergeReasoningText
Merge(existing, incoming) ==
    IF existing = <<>> THEN incoming
    ELSE LET appended == NovelSuffix(existing, incoming) IN
         IF appended = <<>> THEN existing
         ELSE existing \o (IF IsHeading(existing, appended) THEN <<Break>> ELSE <<>>) \o appended

-----------------------------------------------------------------------------
Letters == {"a", "b", Heading}

\* normalizeChunk puts an empty line between two markers.
Words(n) == {word \in UNION {[1 .. k -> Letters] : k \in 1 .. n} :
                \A i \in 1 .. Len(word) - 1 : ~(word[i] = Heading /\ word[i + 1] = Heading)}

(* mergeReasoningText takes deltas, snapshots and repetitions: the result  *)
(* begins with what was there and ends with what came, no shorter text     *)
(* does, except that two headings keep their markers, and what comes a     *)
(* second time adds nothing.                                               *)
MergeIsShortest ==
    \A existing \in Words(MaxWord), incoming \in Words(2) :
        LET merged == Merge(existing, incoming) IN
        /\ IsPrefix(existing, merged) /\ IsSuffix(incoming, merged)
        /\ Merge(merged, incoming) = merged
        /\ Break \notin ToSet(merged) =>
              \A word \in Words(Len(merged) - 1) :
                  ~(IsPrefix(existing, word) /\ IsSuffix(incoming, word))
=============================================================================
