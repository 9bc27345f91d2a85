------------------------------ MODULE MCGroups ------------------------------
(***************************************************************************)
(* Groups for TLC.                                                          *)
(***************************************************************************)
EXTENDS Groups, TLC

CONSTANTS n1, g1, g2

MCName    == {n1}
OneGroup  == {g1}
TwoGroups == {g1, g2}

Symmetry == Permutations(TwoGroups)
=============================================================================
