---------------------------- MODULE GroupRecords ----------------------------
(***************************************************************************)
(* The group store's state, its events' effects and its queries             *)
(* (src/src/groups.rs), as operators that the modules with variables share. *)
(* Descriptions and timestamps are left out: no decision reads them.        *)
(***************************************************************************)
EXTENDS Integers, FiniteSets

CONSTANTS Name,    \* identities
          Group,   \* names that groups can be created under
          Anon     \* ANON_GROUP

ASSUME AnonAssumption == Anon \notin Group

AnyGroup   == Group \cup {Anon}
Direction  == {"In", "Out"}
Membership == {"In", "Out", "Both"}
NoMember   == "None"

Includes(m, d) == m = "Both" \/ m = d

Merge(m, n) == IF m = n THEN m ELSE "Both"

(***************************************************************************)
(* State.  A group that does not exist has no bit position (-1); members is *)
(* total, with NoMember for "no entry".                                     *)
(***************************************************************************)
NoBitpos == -1

GroupState ==
  [bitpos: [AnyGroup -> Nat \cup {NoBitpos}],
   members: [Name -> [AnyGroup -> Membership \cup {NoMember}]],
   inactive: [Name -> SUBSET AnyGroup],
   next_bitpos: Nat]

FreshState ==
  [bitpos      |-> [g \in AnyGroup |-> IF g = Anon THEN 0 ELSE NoBitpos],
   members     |-> [n \in Name |-> [g \in AnyGroup |-> NoMember]],
   inactive    |-> [n \in Name |-> {}],
   next_bitpos |-> 1]

Exists(gs, g) == gs.bitpos[g] # NoBitpos

-----------------------------------------------------------------------------
(***************************************************************************)
(* apply_event.                                                             *)
(***************************************************************************)
ApplyCreated(gs, g) ==
  [gs EXCEPT !.bitpos[g] = gs.next_bitpos, !.next_bitpos = @ + 1]

ApplyDeleted_KeepsMembers(gs, g) ==    \* mutant: memberships stay behind
  [gs EXCEPT !.bitpos[g] = NoBitpos,
             !.inactive = [n \in Name |-> gs.inactive[n] \ {g}]]

ApplyDeleted(gs, g) ==
  [gs EXCEPT !.bitpos[g] = NoBitpos,
             !.members = [n \in Name |-> [gs.members[n] EXCEPT ![g] = NoMember]],
             !.inactive = [n \in Name |-> gs.inactive[n] \ {g}]]

ApplyMemberSet(gs, n, g, m) == [gs EXCEPT !.members[n][g] = m]

ApplyActiveSet(gs, n, off) == [gs EXCEPT !.inactive[n] = off]

-----------------------------------------------------------------------------
(***************************************************************************)
(* Queries.  effective_memberships: the explicit memberships, or Anon both  *)
(* ways when there are none.                                                *)
(***************************************************************************)
Explicit(gs, n) == {g \in AnyGroup : gs.members[n][g] # NoMember}

Effective(gs, n) ==
  IF Explicit(gs, n) = {} THEN [g \in {Anon} |-> "Both"]
  ELSE [g \in Explicit(gs, n) |-> gs.members[n][g]]

AllGroupNames(gs, n) == DOMAIN Effective(gs, n)

ActiveGroups(gs, n, d) ==
  {g \in AllGroupNames(gs, n) : Includes(Effective(gs, n)[g], d) /\ g \notin gs.inactive[n]}

FirstMissing(gs, grants) == \E g \in grants : ~Exists(gs, g)

(***************************************************************************)
(* grant: merges memberships, or nothing if a group does not exist.  The    *)
(* model's grants are for both directions (GroupLists::groups); the others  *)
(* differ only in the membership that is merged.                            *)
(***************************************************************************)
Granted(gs, n, grants) ==
  [gs EXCEPT !.members[n] =
     [g \in AnyGroup |-> IF g \notin grants THEN gs.members[n][g]
                         ELSE IF gs.members[n][g] = NoMember THEN "Both"
                         ELSE Merge(gs.members[n][g], "Both")]]
=============================================================================
