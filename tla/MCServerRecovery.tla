--------------------------- MODULE MCServerRecovery ---------------------------
(* Small instances of ServerRecovery for TLC. *)
EXTENDS ServerRecovery, TLC

Symmetry == Permutations(Procs)
=============================================================================
