---------------------------- MODULE Credentials ----------------------------
(***************************************************************************)
(* The credential stores: invite tokens (src/src/enrollment_tokens.rs) and  *)
(* password accounts (src/src/users.rs), as operators on their maps.  Each  *)
(* operation's append and apply are one step: Registry and EventLog model   *)
(* what can happen between them.  An expired token is one that validation   *)
(* refuses from then on, as a revoked one is, so expiry is a revocation.    *)
(***************************************************************************)
CONSTANTS Name, NoName, Token, Group

TokenRecord == [minted: BOOLEAN, bound: Name \cup {NoName}, groups: SUBSET Group,
                used: BOOLEAN, used_by: Name \cup {NoName}, revoked: BOOLEAN]

NoToken == [minted |-> FALSE, bound |-> NoName, groups |-> {},
            used |-> FALSE, used_by |-> NoName, revoked |-> FALSE]

\* TokenEvent::Minted
ApplyMinted(tokens, t, bound, groups) ==
  [tokens EXCEPT ![t] = [NoToken EXCEPT !.minted = TRUE, !.bound = bound, !.groups = groups]]

\* TokenEvent::Consumed
ApplyConsumed(tokens, t, cn) == [tokens EXCEPT ![t].used = TRUE, ![t].used_by = cn]

\* TokenEvent::Revoked
ApplyTokenRevoked(tokens, t) == [tokens EXCEPT ![t].revoked = TRUE]

Usable(token) == token.minted /\ ~token.revoked /\ ~token.used

\* The checks of validate_and_consume.
MayConsume(token, cn) == Usable(token) /\ token.bound \in {NoName, cn}

-----------------------------------------------------------------------------
UserRecord == [exists: BOOLEAN, revoked: BOOLEAN, groups: SUBSET Group]

NoUser == [exists |-> FALSE, revoked |-> FALSE, groups |-> {}]

\* UserEvent::Created
ApplyUserCreated(users, n, groups) ==
  [users EXCEPT ![n] = [exists |-> TRUE, revoked |-> FALSE, groups |-> groups]]

\* UserEvent::Revoked
ApplyUserRevoked(users, n) == [users EXCEPT ![n].revoked = TRUE]

\* authenticate; right is whether the password is the account's.
Authenticates(user, right) == user.exists /\ ~user.revoked /\ right
=============================================================================
