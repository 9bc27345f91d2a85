----------------------------- MODULE MCRegistry -----------------------------
(***************************************************************************)
(* Registry for TLC.                                                        *)
(***************************************************************************)
EXTENDS CertAdmin, TLC

CONSTANTS n1, n2, c1, c2, c3, u1

MCName == {n1, n2}
MCCert == {c1, c2, c3}
MCUid  == {u1}

Symmetry == Permutations(MCCert)
=============================================================================
