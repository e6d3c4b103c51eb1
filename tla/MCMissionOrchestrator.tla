------------------------ MODULE MCMissionOrchestrator ------------------------
(* MissionOrchestrator with the symmetry of its job ids and sessions.      *)
EXTENDS MissionOrchestrator, TLC

Symmetry == Permutations(Jobs) \cup Permutations(Advancers)
=============================================================================
