---------------------------- MODULE MCEnrollment ----------------------------
(***************************************************************************)
(* Enrollment for TLC: a device, another device and the admin, with the     *)
(* requests of two scenarios.                                              *)
(***************************************************************************)
EXTENDS Enrollment, TLC

CONSTANTS n1, n2, c1, c2, c3, t1, t2, g1, u1

Three == {n1, n2, Admin}

TwoCerts   == {c1, c2}
ThreeCerts == {c1, c2, c3}

TwoTokens == {t1, t2}
OneGroup  == {g1}
OneUid    == {u1}

Ask(cn, basic, secret) == [cn |-> cn, basic |-> basic, secret |-> secret]

\* Invite tokens: in ?token= and as Basic credentials; the bootstrap token.
TokenInputs ==
       {Ask(n1, NoName, t) : t \in TwoTokens}
  \cup {Ask(n2, n2, t1), Ask(n1, n2, t1), Ask(n1, NoName, NoSecret),
        Ask(Admin, NoName, Bootstrap), Ask(Admin, Admin, t2)}

\* Enrollment mode Open: passwords, right and wrong, and no credentials.
OpenInputs ==
  {Ask(n1, n1, Password), Ask(Admin, n1, Password), Ask(n1, n1, Bootstrap),
   Ask(n1, NoName, NoSecret), Ask(Admin, NoName, Bootstrap)}

Locked == [locked |-> TRUE, inputs |-> TokenInputs, accounts |-> {},
           tokens |-> Token, bindings |-> {NoName, n1}, failures |-> TRUE]
Open   == [locked |-> FALSE, inputs |-> OpenInputs, accounts |-> {n1},
           tokens |-> {}, bindings |-> {}, failures |-> FALSE]

LockedAndOpen == {Locked, Open}

Symmetry == Permutations(ThreeCerts)
=============================================================================
