--------------------------- MODULE MCMissionFeed ---------------------------
EXTENDS MissionFeed, TLC
Symmetry == Permutations(Client) \cup Permutations(Content) \cup Permutations(Item)
    \cup Permutations(Request)
============================================================================
