------------------------------- MODULE Groups -------------------------------
(***************************************************************************)
(* The group store (src/src/groups.rs) with the operations of the admin API *)
(* and of ATAK's channel selector (src/src/marti/groups.rs), and the relay  *)
(* tasks that cache an identity's OUT groups by the store's version number  *)
(* (the broadcast branch of handle_client, src/src/transport/tls.rs).       *)
(*                                                                          *)
(* A writer holds the store's lock while it applies its events and then     *)
(* increments the version once per event; readers of the version take no    *)
(* lock.  A restart replays the events, so it changes nothing but the       *)
(* version, the caches and the requests in progress.  (Enrollment models    *)
(* the crash that leaves a part of a grant.)                                *)
(***************************************************************************)
EXTENDS GroupRecords

CONSTANTS MaxBitpos,    \* bound: groups created
          MaxVersion    \* bound: the version at which no further change starts

ASSUME GroupsAssumption == MaxBitpos \in Nat /\ MaxVersion \in Nat /\ IsFiniteSet(Group)

VARIABLES
  gs,         \* the store's state
  version,    \* its version
  bumps,      \* increments that the writer holding the lock still makes
  bits,       \* set_active_bits in progress: the names it looked up
  relay,      \* a connection of each identity: [pc, seen, cache]
  before,     \* history: the state before the write in progress, or gs
  given,      \* history: memberships given, not taken back, of groups not deleted
  positions   \* history: the bit positions ever given out

vars == <<gs, version, bumps, bits, relay, before, given, positions>>

NoRequest == [asked |-> FALSE, names |-> {}]
NoCache   == [version |-> -1, groups |-> {}]

TypeOK ==
  /\ gs \in GroupState
  /\ version \in Nat
  /\ bumps \in Nat
  /\ bits \in [Name -> [asked: BOOLEAN, names: SUBSET AnyGroup]]
  /\ relay \in [Name -> [pc: {"wait", "lookup", "check"}, seen: Nat,
                         cache: [version: Nat \cup {-1}, groups: SUBSET AnyGroup],
                         since: SUBSET SUBSET AnyGroup]]
  /\ before \in GroupState
  /\ given \subseteq Name \X AnyGroup
  /\ positions \subseteq Nat \X AnyGroup

NewRelay == [pc |-> "wait", seen |-> 0, cache |-> NoCache, since |-> {}]

Init ==
  /\ gs = FreshState
  /\ version = 0
  /\ bumps = 0
  /\ bits = [n \in Name |-> NoRequest]
  /\ relay = [n \in Name |-> NewRelay]
  /\ before = FreshState
  /\ given = {}
  /\ positions = {<<0, Anon>>}

Out(state, n) == ActiveGroups(state, n, "Out")

-----------------------------------------------------------------------------
(***************************************************************************)
(* Writers.  record appends, applies and increments the version for each of *)
(* an operation's events, under one write lock.                             *)
(***************************************************************************)
Unlocked == bumps = 0

Write_Unversioned(new, events) ==   \* mutant: the version is not incremented
  /\ Unlocked
  /\ gs' = new
  /\ before' = gs
  /\ relay' = [n \in Name |-> IF relay[n].pc = "wait" THEN relay[n]
                              ELSE [relay[n] EXCEPT !.since = @ \cup {Out(new, n)}]]
  /\ UNCHANGED <<version, bumps>>

Write(new, events) ==
  /\ Unlocked
  /\ version < MaxVersion
  /\ gs' = new
  /\ before' = gs
  /\ bumps' = events
  /\ relay' = [n \in Name |-> IF relay[n].pc = "wait" THEN relay[n]
                              ELSE [relay[n] EXCEPT !.since = @ \cup {Out(new, n)}]]
  /\ UNCHANGED version

Bump ==
  /\ bumps > 0
  /\ version' = version + 1
  /\ bumps' = bumps - 1
  /\ before' = IF bumps = 1 THEN gs ELSE before
  /\ UNCHANGED <<gs, bits, relay, given, positions>>

\* validate_name refuses Anon, so only the names in Group are created.
Create(g) ==
  /\ ~Exists(gs, g)
  /\ gs.next_bitpos <= MaxBitpos
  /\ Write(ApplyCreated(gs, g), 1)
  /\ positions' = positions \cup {<<gs'.bitpos[g], g>>}
  /\ UNCHANGED <<bits, given>>

Delete(g) ==
  /\ Exists(gs, g)
  /\ Write(ApplyDeleted(gs, g), 1)
  /\ given' = {p \in given : p[2] # g}
  /\ UNCHANGED <<bits, positions>>

SetMember(n, g, m) ==
  /\ Exists(gs, g)
  /\ Write(ApplyMemberSet(gs, n, g, m), 1)
  /\ given' = IF m = NoMember THEN given \ {<<n, g>>} ELSE given \cup {<<n, g>>}
  /\ UNCHANGED <<bits, positions>>

Grant(n, grants) ==
  /\ grants # {}
  /\ ~FirstMissing(gs, grants)
  /\ Write(Granted(gs, n, grants), Cardinality(grants))
  /\ given' = given \cup {<<n, g>> : g \in grants}
  /\ UNCHANGED <<bits, positions>>

-----------------------------------------------------------------------------
(***************************************************************************)
(* The channel selector.  set_active keeps the named groups on, and at      *)
(* least one of the identity's groups must be among them.                   *)
(***************************************************************************)
SetActive(n, active) ==
  /\ AllGroupNames(gs, n) \cap active # {}
  /\ Write(ApplyActiveSet(gs, n, AllGroupNames(gs, n) \ active), 1)
  /\ UNCHANGED <<given, positions>>

SetActiveGroups(n, active) == SetActive(n, active) /\ UNCHANGED bits

\* set_active_bits: the names are looked up first, then applied.
NamesForBitpos(n, asked) ==
  /\ Unlocked
  /\ ~bits[n].asked
  /\ bits' = [bits EXCEPT ![n] = [asked |-> TRUE,
                                 names |-> {g \in AnyGroup : gs.bitpos[g] \in asked}]]
  /\ UNCHANGED <<gs, version, bumps, relay, before, given, positions>>

SetActiveBits(n) ==
  /\ bits[n].asked
  /\ bits' = [bits EXCEPT ![n] = NoRequest]
  /\ \/ SetActive(n, bits[n].names)
     \/ /\ Unlocked
        /\ AllGroupNames(gs, n) \cap bits[n].names = {}
        /\ UNCHANGED <<gs, version, bumps, relay, before, given, positions>>

-----------------------------------------------------------------------------
(***************************************************************************)
(* A relay task at a message: it reads the version, looks its OUT groups up *)
(* if its cache has another version, and checks the message against them.   *)
(* since collects the right answers from the first of these steps on.       *)
(***************************************************************************)
RightAnswers(n) == {Out(gs, n), Out(before, n)}

ReadVersion(n) ==
  LET r == relay[n]
      hit == r.cache.version = version
  IN
  /\ r.pc = "wait"
  /\ relay' = [relay EXCEPT ![n].pc = IF hit THEN "check" ELSE "lookup",
                            ![n].seen = version,
                            ![n].since = RightAnswers(n)]
  /\ UNCHANGED <<gs, version, bumps, bits, before, given, positions>>

LookUp(n) ==
  /\ relay[n].pc = "lookup"
  /\ Unlocked
  /\ relay' = [relay EXCEPT ![n].pc = "check",
                            ![n].cache = [version |-> relay[n].seen, groups |-> Out(gs, n)]]
  /\ UNCHANGED <<gs, version, bumps, bits, before, given, positions>>

\* The message is written to the connection, or not; see Sessions.
Check(n) ==
  /\ relay[n].pc = "check"
  /\ relay' = [relay EXCEPT ![n].pc = "wait", ![n].since = {}]
  /\ UNCHANGED <<gs, version, bumps, bits, before, given, positions>>

Restart ==
  /\ version' = 0
  /\ bumps' = 0
  /\ bits' = [n \in Name |-> NoRequest]
  /\ relay' = [n \in Name |-> NewRelay]
  /\ before' = gs
  /\ UNCHANGED <<gs, given, positions>>

Next ==
  \/ Bump
  \/ \E g \in Group : Create(g) \/ Delete(g)
  \/ \E n \in Name :
       \/ \E g \in AnyGroup, m \in Membership \cup {NoMember} : SetMember(n, g, m)
       \/ \E grants \in SUBSET AnyGroup : Grant(n, grants)
       \/ \E active \in SUBSET AnyGroup : SetActiveGroups(n, active)
       \/ \E asked \in SUBSET (0..MaxBitpos) : NamesForBitpos(n, asked)
       \/ SetActiveBits(n)
       \/ ReadVersion(n) \/ LookUp(n) \/ Check(n)
  \/ Restart

Spec == Init /\ [][Next]_vars

-----------------------------------------------------------------------------
(***************************************************************************)
(* "Membership and activation changes take effect for already-connected     *)
(* devices at once": the groups that a relay task checks a message against  *)
(* were the identity's active OUT groups at some moment since the task took *)
(* the message up; a change that was answered before is never missed.       *)
(***************************************************************************)
RelayGroupsFresh ==
  \A n \in Name : relay[n].pc = "check" => relay[n].cache.groups \in relay[n].since

(***************************************************************************)
(* "Each group has a stable bitpos": no bit position ever means two groups, *)
(* not even after the first was deleted.                                    *)
(***************************************************************************)
BitposStable == \A p, q \in positions : p[1] = q[1] => p = q

(***************************************************************************)
(* An identity is a member of exactly the groups that it was given and that *)
(* were neither taken back nor deleted since: a group created under the     *)
(* name of a deleted one starts with nobody in it.                          *)
(***************************************************************************)
MembershipsAreGiven ==
  \A n \in Name : \A g \in AnyGroup :
     /\ g \in Explicit(gs, n) <=> <<n, g>> \in given
     /\ g \in Explicit(gs, n) => Exists(gs, g)

(***************************************************************************)
(* Deleting and re-creating groups mixes nothing up: neither bit positions  *)
(* nor memberships of a deleted group pass to another one.                  *)
(***************************************************************************)
GroupsKept == TypeOK /\ BitposStable /\ MembershipsAreGiven
=============================================================================
