---------------------------- MODULE MCWebSession -----------------------------
(* A small instance of WebSession for TLC.                                 *)
EXTENDS WebSession, TLC

CONSTANTS p1, p2, s1, s2, s3, f1

\* Each target has one session; the others are made while the page runs.
MCKnown == [t \in Targets |-> CASE t = Direct -> {s3} [] t = p1 -> {s1} [] t = p2 -> {s2}]

\* The projects are interchangeable together with their sessions.
Symmetry ==
    {f \in Permutations({p1, p2, s1, s2}) :
        {f[p1], f[p2]} = {p1, p2} /\ (f[p1] = p1 <=> f[s1] = s1) /\ (f[p1] = p1 <=> f[s2] = s2)}

=============================================================================
