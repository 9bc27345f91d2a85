-------------------------- MODULE MCMissionLayers --------------------------
EXTENDS MissionLayers, TLC

Symmetry == Permutations(Uid)
=============================================================================
