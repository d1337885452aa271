----------------------------- MODULE MCJobsQueue -----------------------------
(***************************************************************************)
(* Small instances of JobsQueue.                                           *)
(***************************************************************************)
EXTENDS JobsQueue, TLC

\* StartServer occurs in an expression that calls StartServerForMission.
SimilarNames == {<<m, m>> : m \in Methods}
                  \cup {<<m, n>> \in Methods \X Methods :
                          m = "StartServer" /\ n = "StartServerForMission"}

Symmetry == Permutations(Callers) \cup Permutations(Jobs)
=============================================================================
