--------------------------- MODULE MCAgentSteering ---------------------------
(* Small instances of AgentSteering for TLC.                               *)
EXTENDS AgentSteering, TLC

\* Requests are interchangeable; used only where no liveness is checked.
Symmetry == Permutations(Clients)

=============================================================================
