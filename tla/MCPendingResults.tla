-------------------------- MODULE MCPendingResults --------------------------
(* TLC instance of PendingResults. *)
EXTENDS PendingResults, TLC

\* Tasks are interchangeable.
WriterSymmetry == Permutations(Writers)
=============================================================================
