-------------------------- MODULE MCHeadlessClients --------------------------
(* Small instances of HeadlessClients for TLC. *)
EXTENDS HeadlessClients, TLC

Symmetry == Permutations(Clients) \cup Permutations(Requests)
=============================================================================
