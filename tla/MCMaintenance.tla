---------------------------- MODULE MCMaintenance ----------------------------
(* A small instance of Maintenance for TLC. *)
EXTENDS Maintenance

AllMethods == {"PerformMaintenance", "ShutdownServer", "PrepareForUpcomingMissions",
               "StartServerForNearestMission", "StartServerForMission"}

SameMethod == {<<m, m>> : m \in AllMethods}
=============================================================================
