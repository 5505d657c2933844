--------------------------- MODULE MCLocalService ----------------------------
(* Small instances of LocalService for TLC.                                *)
EXTENDS LocalService, TLC

\* Clients, and the servers of the current version, are interchangeable.
Symmetry == Permutations(Clients) \cup Permutations(Servers \ Outdated)

=============================================================================
