---------------------------- MODULE OutputStream ----------------------------
(***************************************************************************)
(* What the workspace terminal promises its browser about the output of    *)
(* the shell: it arrives in order and without gaps, and the message that   *)
(* reports the exit of the shell comes after all of it.  A connection may  *)
(* break off at any point; a fault of the pty device may cut the output.   *)
(***************************************************************************)
EXTENDS Naturals, Sequences

VARIABLES
    produced,   \* number of pieces of output the programs have written
    received,   \* the pieces the browser got, in the order it got them
    ended,      \* the browser was told that the shell exited
    faulty      \* the pty device failed

vars == <<produced, received, ended, faulty>>

Init == produced = 0 /\ received = <<>> /\ ended = FALSE /\ faulty = FALSE

Produce == /\ produced' = produced + 1
           /\ UNCHANGED <<received, ended, faulty>>

\* The next pieces in the order of their production, one frame at a time.
Receive == /\ ~ended
           /\ \E last \in (Len(received) + 1) .. produced :
                 received' = [i \in 1 .. last |-> i]
           /\ UNCHANGED <<produced, ended, faulty>>

Finish == /\ ~ended /\ (faulty \/ Len(received) = produced)
          /\ ended' = TRUE
          /\ UNCHANGED <<produced, received, faulty>>

Fault == faulty' = TRUE /\ UNCHANGED <<produced, received, ended>>

Next == Produce \/ Receive \/ Finish \/ Fault

Spec == Init /\ [][Next]_vars

=============================================================================
