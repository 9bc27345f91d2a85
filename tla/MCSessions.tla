----------------------------- MODULE MCSessions -----------------------------
(***************************************************************************)
(* Sessions for TLC: two devices, one of which may connect twice.           *)
(***************************************************************************)
EXTENDS Sessions, TLC

CONSTANTS d1, d2, c1, c2, c3

OneDevice  == {d1}
TwoDevices == {d1, d2}
TwoConns   == {c1, c2}
ThreeConns == {c1, c2, c3}

Apart    == [c \in TwoConns |-> IF c = c1 THEN d1 ELSE d2]
Together == [c \in TwoConns |-> d1]
Mixed    == [c \in ThreeConns |-> IF c = c3 THEN d2 ELSE d1]
=============================================================================
