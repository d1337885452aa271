-------------------------- MODULE MCServerLifecycle --------------------------
(* Small instances of ServerLifecycle for TLC. *)
EXTENDS ServerLifecycle, TLC

\* Server and process identities are interchangeable, and so are client slots.
Symmetry == Permutations(Servers) \cup Permutations(Procs) \cup Permutations(Clients)
=============================================================================
