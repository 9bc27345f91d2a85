---------------------------- MODULE GroupsProofs ----------------------------
(***************************************************************************)
(* Proofs about the group store, for any identities, groups and bounds.     *)
(***************************************************************************)
EXTENDS Groups, FiniteSetTheorems, TLAPS

\* Most steps are about sets and functions only: Zenon proves them.  The others say SMT.
USE Zenon

(***************************************************************************)
(* What each event does to a state keeps its type.                          *)
(***************************************************************************)
LEMMA FreshStateType == FreshState \in GroupState
BY AnonAssumption DEF FreshState, GroupState, NoBitpos, NoMember

LEMMA CreatedType ==
  ASSUME NEW s \in GroupState, NEW g \in Group
  PROVE  /\ ApplyCreated(s, g) \in GroupState
         /\ ApplyCreated(s, g).bitpos[g] = s.next_bitpos
         /\ ApplyCreated(s, g).next_bitpos = s.next_bitpos + 1
         /\ ApplyCreated(s, g).members = s.members
         /\ \A h \in AnyGroup : h # g => ApplyCreated(s, g).bitpos[h] = s.bitpos[h]
<1> DEFINE new == ApplyCreated(s, g)
           b == [s.bitpos EXCEPT ![g] = s.next_bitpos]
<1>1. g \in AnyGroup
  BY DEF AnyGroup
<1>2. new = [s EXCEPT !.bitpos = b, !.next_bitpos = s.next_bitpos + 1]
  BY DEF ApplyCreated, GroupState
<1>3. /\ b \in [AnyGroup -> Nat \cup {NoBitpos}]
      /\ b[g] = s.next_bitpos
      /\ \A h \in AnyGroup : h # g => b[h] = s.bitpos[h]
  BY <1>1 DEF GroupState
<1> HIDE DEF b
<1> DEFINE k == s.next_bitpos + 1
<1>4. k \in Nat
  BY SMT DEF GroupState
<1> HIDE DEF k
<1>5. [s EXCEPT !.bitpos = b, !.next_bitpos = k] \in GroupState
  BY <1>3, <1>4 DEF GroupState
<1>6. new = [s EXCEPT !.bitpos = b, !.next_bitpos = k]
  BY <1>2 DEF k
<1>7. new.bitpos = b /\ new.next_bitpos = k /\ new.members = s.members
  BY <1>6 DEF GroupState
<1> QED BY <1>3, <1>5, <1>6, <1>7 DEF k

LEMMA DeletedType ==
  ASSUME NEW s \in GroupState, NEW g \in Group
  PROVE  /\ ApplyDeleted(s, g) \in GroupState
         /\ ApplyDeleted(s, g).next_bitpos = s.next_bitpos
         /\ \A n \in Name : ApplyDeleted(s, g).members[n][g] = NoMember
         /\ \A n \in Name, h \in AnyGroup :
               h # g => ApplyDeleted(s, g).members[n][h] = s.members[n][h]
         /\ \A h \in AnyGroup : h # g => ApplyDeleted(s, g).bitpos[h] = s.bitpos[h]
<1> DEFINE new == ApplyDeleted(s, g)
           b == [s.bitpos EXCEPT ![g] = NoBitpos]
           m == [n \in Name |-> [s.members[n] EXCEPT ![g] = NoMember]]
           i == [n \in Name |-> s.inactive[n] \ {g}]
<1>1. g \in AnyGroup
  BY DEF AnyGroup
<1>2. b \in [AnyGroup -> Nat \cup {NoBitpos}]
  BY <1>1 DEF GroupState
<1>3. m \in [Name -> [AnyGroup -> Membership \cup {NoMember}]]
  BY <1>1 DEF GroupState
<1>4. i \in [Name -> SUBSET AnyGroup]
  BY DEF GroupState
<1>5. new = [s EXCEPT !.bitpos = b, !.members = m, !.inactive = i]
  BY DEF ApplyDeleted
<1>6. \A n \in Name : m[n][g] = NoMember
  BY <1>1 DEF GroupState
<1>7. \A n \in Name, h \in AnyGroup : h # g => m[n][h] = s.members[n][h]
  BY DEF GroupState
<1>8. \A h \in AnyGroup : h # g => b[h] = s.bitpos[h]
  BY DEF GroupState
<1> HIDE DEF b, m, i
<1>9. new \in GroupState
  BY <1>2, <1>3, <1>4, <1>5 DEF GroupState
<1>10. new.bitpos = b /\ new.members = m /\ new.next_bitpos = s.next_bitpos
  BY <1>2, <1>3, <1>4, <1>5 DEF GroupState
<1> HIDE DEF new
<1> QED BY <1>6, <1>7, <1>8, <1>9, <1>10 DEF new

LEMMA MemberSetType ==
  ASSUME NEW s \in GroupState, NEW n \in Name, NEW g \in AnyGroup,
         NEW m \in Membership \cup {NoMember}
  PROVE  /\ ApplyMemberSet(s, n, g, m) \in GroupState
         /\ ApplyMemberSet(s, n, g, m).bitpos = s.bitpos
         /\ ApplyMemberSet(s, n, g, m).next_bitpos = s.next_bitpos
         /\ ApplyMemberSet(s, n, g, m).members[n][g] = m
         /\ \A k \in Name, h \in AnyGroup :
               ~(k = n /\ h = g) => ApplyMemberSet(s, n, g, m).members[k][h] = s.members[k][h]
BY DEF ApplyMemberSet, GroupState

LEMMA ActiveSetType ==
  ASSUME NEW s \in GroupState, NEW n \in Name, NEW off \in SUBSET AnyGroup
  PROVE  /\ ApplyActiveSet(s, n, off) \in GroupState
         /\ ApplyActiveSet(s, n, off).bitpos = s.bitpos
         /\ ApplyActiveSet(s, n, off).next_bitpos = s.next_bitpos
         /\ ApplyActiveSet(s, n, off).members = s.members
BY DEF ApplyActiveSet, GroupState

LEMMA GrantedType ==
  ASSUME NEW s \in GroupState, NEW n \in Name, NEW grants \in SUBSET AnyGroup
  PROVE  /\ Granted(s, n, grants) \in GroupState
         /\ Granted(s, n, grants).bitpos = s.bitpos
         /\ Granted(s, n, grants).next_bitpos = s.next_bitpos
         /\ \A k \in Name, h \in AnyGroup :
               ~(k = n /\ h \in grants) => Granted(s, n, grants).members[k][h] = s.members[k][h]
         /\ \A h \in grants : Granted(s, n, grants).members[n][h] # NoMember
<1> DEFINE row == [g \in AnyGroup |-> IF g \notin grants THEN s.members[n][g]
                                      ELSE IF s.members[n][g] = NoMember THEN "Both"
                                      ELSE Merge(s.members[n][g], "Both")]
<1>1. row \in [AnyGroup -> Membership \cup {NoMember}]
  BY SMT DEF GroupState, Merge, Membership
<1>2. /\ \A h \in AnyGroup : h \notin grants => row[h] = s.members[n][h]
      /\ \A h \in grants : row[h] # NoMember
  BY DEF Merge, NoMember
<1>3. Granted(s, n, grants) = [s EXCEPT !.members[n] = row]
  BY DEF Granted
<1> HIDE DEF row
<1> DEFINE m == [s.members EXCEPT ![n] = row]
<1>4. m \in [Name -> [AnyGroup -> Membership \cup {NoMember}]]
  BY <1>1 DEF GroupState
<1>5. Granted(s, n, grants) = [s EXCEPT !.members = m]
  BY <1>3 DEF GroupState
<1>6. /\ \A k \in Name, h \in AnyGroup : ~(k = n /\ h \in grants) => m[k][h] = s.members[k][h]
      /\ \A h \in grants : m[n][h] # NoMember
  BY <1>2 DEF GroupState
<1> HIDE DEF m
<1>7. [s EXCEPT !.members = m] \in GroupState
  BY <1>4 DEF GroupState
<1>8. /\ Granted(s, n, grants).members = m
      /\ Granted(s, n, grants).bitpos = s.bitpos
      /\ Granted(s, n, grants).next_bitpos = s.next_bitpos
  BY <1>5 DEF GroupState
<1> QED BY <1>5, <1>6, <1>7, <1>8

LEMMA OutType ==
  ASSUME NEW s \in GroupState, NEW n \in Name
  PROVE  Out(s, n) \in SUBSET AnyGroup
BY DEF Out, ActiveGroups, AllGroupNames, Effective, Explicit, AnyGroup

LEMMA AllGroupNamesType ==
  ASSUME NEW s \in GroupState, NEW n \in Name
  PROVE  AllGroupNames(s, n) \in SUBSET AnyGroup
BY DEF AllGroupNames, Effective, Explicit, AnyGroup

LEMMA GrantsCounted ==
  ASSUME NEW grants \in SUBSET AnyGroup, grants # {}
  PROVE  Cardinality(grants) \in Nat \ {0}
<1>1. IsFiniteSet(AnyGroup)
  BY GroupsAssumption, FS_AddElement DEF AnyGroup
<1>2. IsFiniteSet(grants)
  BY <1>1, FS_Subset
<1> QED BY <1>2, FS_CardinalityType, FS_EmptySet

-----------------------------------------------------------------------------
(***************************************************************************)
(* The inductive invariant.  A cache that carries the current version has   *)
(* a right answer: Write changes the state under the lock and before the    *)
(* version moves on, when both the old and the new answer are right, and    *)
(* the version has moved on when only the new one is.                       *)
(***************************************************************************)
StoreType ==
  /\ gs \in GroupState
  /\ before \in GroupState
  /\ version \in Nat
  /\ bumps \in Nat
  /\ bumps = 0 => before = gs

RelayRecord == [pc: {"wait", "lookup", "check"}, seen: Nat,
                cache: [version: Nat \cup {-1}, groups: SUBSET AnyGroup],
                since: SUBSET SUBSET AnyGroup]

TaskOK(n, r) ==
  /\ r.seen <= version
  /\ r.cache.version <= version
  /\ r.cache.version = version => r.cache.groups \in RightAnswers(n)
  /\ r.pc # "wait" => Out(gs, n) \in r.since
  /\ r.pc = "check" => r.cache.groups \in r.since

CacheOK(n) == TaskOK(n, relay[n])

RelayInv ==
  /\ StoreType
  /\ relay \in [Name -> RelayRecord]
  /\ \A n \in Name : CacheOK(n)

\* A write keeps the caches right.
LEMMA WriteKeepsRelays ==
  ASSUME RelayInv, NEW new \in GroupState, NEW events \in Nat \ {0}, Write(new, events)
  PROVE  RelayInv'
<1>1. StoreType'
  BY DEF RelayInv, StoreType, Write
<1>2. ASSUME NEW n \in Name
      PROVE  relay'[n] \in RelayRecord /\ CacheOK(n)'
  <2> DEFINE r == relay[n]
  <2>1. Unlocked /\ gs' = new /\ before' = gs /\ bumps' # 0 /\ version' = version
    BY DEF Write
  <2>2. RightAnswers(n) = {Out(gs, n)} /\ RightAnswers(n)' = {Out(new, n), Out(gs, n)}
    BY <2>1 DEF RightAnswers, Unlocked, Out, RelayInv, StoreType
  <2>3. r \in RelayRecord /\ CacheOK(n)
    BY DEF RelayInv
  <2>4. Out(new, n) \in SUBSET AnyGroup
    BY OutType
  <2>5. relay'[n] = IF r.pc = "wait" THEN r ELSE [r EXCEPT !.since = r.since \cup {Out(new, n)}]
    BY DEF Write
  <2>6. CASE r.pc = "wait"
    <3>1. relay'[n] = r
      BY <2>5, <2>6
    <3> QED BY <2>1, <2>2, <2>3, <2>6, <3>1 DEF CacheOK, TaskOK, RelayRecord
  <2>7. CASE r.pc # "wait"
    <3>1. relay'[n] = [r EXCEPT !.since = r.since \cup {Out(new, n)}]
      BY <2>5, <2>7
    <3>2. /\ relay'[n] \in RelayRecord
          /\ relay'[n].pc = r.pc /\ relay'[n].seen = r.seen /\ relay'[n].cache = r.cache
          /\ relay'[n].since = r.since \cup {Out(new, n)}
      BY SMT, <2>3, <2>4, <3>1 DEF RelayRecord
    <3> QED BY <2>1, <2>2, <2>3, <2>7, <3>2 DEF CacheOK, TaskOK, Out
  <2> QED BY <2>6, <2>7
<1>3. relay' \in [Name -> RelayRecord]
  <2>1. relay' = [n \in Name |-> relay'[n]]
    BY DEF Write
  <2> QED BY <1>2, <2>1
<1> QED BY <1>1, <1>2, <1>3 DEF RelayInv

BitsType == bits \in [Name -> [asked: BOOLEAN, names: SUBSET AnyGroup]]

\* The steps of a relay task keep its cache right.
LEMMA RelaySteps ==
  ASSUME RelayInv, NEW n \in Name, ReadVersion(n) \/ LookUp(n) \/ Check(n)
  PROVE  RelayInv'
<1> DEFINE r == relay[n]
<1>0. /\ StoreType /\ r \in RelayRecord /\ CacheOK(n)
      /\ UNCHANGED <<gs, version, bumps, before>>
      /\ RightAnswers(n) \in SUBSET SUBSET AnyGroup
      /\ Out(gs, n) \in RightAnswers(n)
  <2>1. Out(gs, n) \in SUBSET AnyGroup /\ Out(before, n) \in SUBSET AnyGroup
    BY OutType DEF RelayInv, StoreType
  <2> QED BY <2>1 DEF RelayInv, ReadVersion, LookUp, Check, RightAnswers
<1>1. StoreType'
  BY <1>0 DEF StoreType
<1>2. \A k \in Name : Out(gs, k)' = Out(gs, k) /\ RightAnswers(k)' = RightAnswers(k)
  BY <1>0 DEF Out, RightAnswers, Unlocked
<1>3. \E q \in RelayRecord : relay' = [relay EXCEPT ![n] = q] /\ TaskOK(n, q)
  <2>1. CASE ReadVersion(n)
    <3> DEFINE q == [r EXCEPT !.pc = IF r.cache.version = version THEN "check" ELSE "lookup",
                              !.seen = version, !.since = RightAnswers(n)]
    <3>1. relay' = [relay EXCEPT ![n] = q]
      BY <2>1, <1>0 DEF ReadVersion, RelayInv, RelayRecord
    <3>2. q \in RelayRecord
      BY <1>0 DEF RelayRecord, StoreType
    <3>3. /\ q.seen = version /\ q.cache = r.cache /\ q.since = RightAnswers(n)
          /\ q.pc = IF r.cache.version = version THEN "check" ELSE "lookup"
      BY <1>0 DEF RelayRecord
    <3> HIDE DEF q
    <3>4. version \in Nat /\ r.cache.version <= version
      BY <1>0 DEF StoreType, CacheOK, TaskOK
    <3>5. TaskOK(n, q)
      BY SMT, <1>0, <3>3, <3>4 DEF CacheOK, TaskOK
    <3> QED BY <3>1, <3>2, <3>5
  <2>2. CASE LookUp(n)
    <3> DEFINE c == [version |-> r.seen, groups |-> Out(gs, n)]
               q == [r EXCEPT !.pc = "check", !.cache = c]
    <3>1. relay' = [relay EXCEPT ![n] = q]
      BY <2>2, <1>0 DEF LookUp, RelayInv, RelayRecord
    <3>2. q \in RelayRecord
      BY <1>0, OutType DEF RelayRecord, StoreType
    <3>3. q.seen = r.seen /\ q.cache = c /\ q.since = r.since /\ q.pc = "check"
      BY <1>0 DEF RelayRecord
    <3>4. r.pc # "wait"
      BY <2>2 DEF LookUp
    <3> HIDE DEF q
    <3>5. TaskOK(n, q)
      BY SMT, <1>0, <3>3, <3>4 DEF CacheOK, TaskOK
    <3> QED BY <3>1, <3>2, <3>5
  <2>3. CASE Check(n)
    <3> DEFINE q == [r EXCEPT !.pc = "wait", !.since = {}]
    <3>1. relay' = [relay EXCEPT ![n] = q]
      BY <2>3, <1>0 DEF Check, RelayInv, RelayRecord
    <3>2. q \in RelayRecord
      BY <1>0 DEF RelayRecord
    <3>3. q.seen = r.seen /\ q.cache = r.cache /\ q.pc = "wait"
      BY <1>0 DEF RelayRecord
    <3> HIDE DEF q
    <3> QED BY <1>0, <3>1, <3>2, <3>3 DEF CacheOK, TaskOK
  <2> QED BY <2>1, <2>2, <2>3
<1>4. PICK q \in RelayRecord : relay' = [relay EXCEPT ![n] = q] /\ TaskOK(n, q)
  BY <1>3
<1>5. relay' \in [Name -> RelayRecord]
  BY <1>4 DEF RelayInv
<1>6. ASSUME NEW k \in Name PROVE CacheOK(k)'
  <2>1. CASE k = n
    <3>1. relay'[k] = q
      BY <1>4, <2>1 DEF RelayInv
    <3> QED BY <1>0, <1>2, <1>4, <2>1, <3>1 DEF CacheOK, TaskOK
  <2>2. CASE k # n
    <3>1. relay'[k] = relay[k] /\ CacheOK(k)
      BY <1>4, <2>2 DEF RelayInv
    <3> QED BY <1>0, <1>2, <3>1 DEF CacheOK, TaskOK
  <2> QED BY <2>1, <2>2
<1> QED BY <1>1, <1>5, <1>6 DEF RelayInv

LEMMA RelayInvInit == Init => RelayInv /\ BitsType
<1> SUFFICES ASSUME Init PROVE RelayInv /\ BitsType
  OBVIOUS
<1>1. StoreType
  BY FreshStateType DEF Init, StoreType
<1>2. NewRelay \in RelayRecord
  BY DEF NewRelay, NoCache, RelayRecord
<1>3. \A n \in Name : CacheOK(n)
  BY SMT DEF Init, CacheOK, TaskOK, NewRelay, NoCache
<1> QED BY <1>1, <1>2, <1>3 DEF Init, RelayInv, BitsType, NoRequest

LEMMA RelayInvStep == RelayInv /\ BitsType /\ [Next]_vars => RelayInv' /\ BitsType'
<1> SUFFICES ASSUME RelayInv, BitsType, [Next]_vars PROVE RelayInv' /\ BitsType'
  OBVIOUS
<1>0. StoreType
  BY DEF RelayInv
<1>1. CASE Bump
  <2>1. UNCHANGED <<gs, relay, bits>> /\ version' = version + 1 /\ StoreType'
    BY SMT, <1>0, <1>1 DEF Bump, StoreType
  <2>2. ASSUME NEW n \in Name PROVE CacheOK(n)'
    <3>1. relay[n] \in RelayRecord /\ CacheOK(n)
      BY DEF RelayInv
    <3>2. relay[n].cache.version \in Int /\ relay[n].seen \in Int /\ version \in Int
      BY SMT, <1>0, <3>1 DEF RelayRecord, StoreType
    <3>3. Out(gs, n)' = Out(gs, n)
      BY <2>1 DEF Out
    <3> QED BY SMT, <2>1, <3>1, <3>2, <3>3 DEF CacheOK, TaskOK
  <2> QED BY <2>1, <2>2 DEF RelayInv, BitsType
<1>2. ASSUME NEW g \in Group, Create(g) \/ Delete(g)
      PROVE  RelayInv' /\ BitsType'
  <2>1. ApplyCreated(gs, g) \in GroupState /\ ApplyDeleted(gs, g) \in GroupState
    BY <1>0, CreatedType, DeletedType DEF StoreType
  <2> QED BY SMT, <1>2, <2>1, WriteKeepsRelays DEF Create, Delete, BitsType
<1>3. ASSUME NEW n \in Name, NEW g \in AnyGroup, NEW m \in Membership \cup {NoMember},
             SetMember(n, g, m)
      PROVE  RelayInv' /\ BitsType'
  <2>1. ApplyMemberSet(gs, n, g, m) \in GroupState
    BY <1>0, MemberSetType DEF StoreType
  <2> QED BY SMT, <1>3, <2>1, WriteKeepsRelays DEF SetMember, BitsType
<1>4. ASSUME NEW n \in Name, NEW grants \in SUBSET AnyGroup, Grant(n, grants)
      PROVE  RelayInv' /\ BitsType'
  <2>1. Granted(gs, n, grants) \in GroupState
    BY <1>0, GrantedType DEF StoreType
  <2>2. Cardinality(grants) \in Nat \ {0}
    BY <1>4, GrantsCounted DEF Grant
  <2> QED BY <1>4, <2>1, <2>2, WriteKeepsRelays DEF Grant, BitsType
<1>5. ASSUME NEW n \in Name, NEW active \in SUBSET AnyGroup, SetActive(n, active)
      PROVE  RelayInv'
  <2>1. AllGroupNames(gs, n) \ active \in SUBSET AnyGroup
    BY <1>0, AllGroupNamesType DEF StoreType
  <2>2. ApplyActiveSet(gs, n, AllGroupNames(gs, n) \ active) \in GroupState
    BY <1>0, <2>1, ActiveSetType DEF StoreType
  <2> QED BY SMT, <1>5, <2>2, WriteKeepsRelays DEF SetActive
<1>6. ASSUME NEW n \in Name, NEW active \in SUBSET AnyGroup, SetActiveGroups(n, active)
      PROVE  RelayInv' /\ BitsType'
  BY <1>5, <1>6 DEF SetActiveGroups, BitsType
<1>7. ASSUME NEW n \in Name, NEW asked, NamesForBitpos(n, asked)
      PROVE  RelayInv' /\ BitsType'
  <2>1. UNCHANGED <<gs, version, bumps, relay, before>>
    BY <1>7 DEF NamesForBitpos
  <2>2. BitsType'
    BY <1>7 DEF NamesForBitpos, BitsType
  <2> QED BY <2>1, <2>2 DEF RelayInv, StoreType, CacheOK, TaskOK, RightAnswers, Out, Unlocked
<1>8. ASSUME NEW n \in Name, SetActiveBits(n)
      PROVE  RelayInv' /\ BitsType'
  <2>1. BitsType' /\ bits[n].names \in SUBSET AnyGroup
    BY <1>8 DEF SetActiveBits, BitsType, NoRequest
  <2>2. CASE SetActive(n, bits[n].names)
    BY <1>5, <2>1, <2>2
  <2>3. CASE UNCHANGED <<gs, version, bumps, relay, before>>
    BY <2>1, <2>3 DEF RelayInv, StoreType, CacheOK, TaskOK, RightAnswers, Out, Unlocked
  <2> QED BY <1>8, <2>1, <2>2, <2>3 DEF SetActiveBits
<1>9. ASSUME NEW n \in Name, ReadVersion(n) \/ LookUp(n) \/ Check(n)
      PROVE  RelayInv' /\ BitsType'
  BY <1>9, RelaySteps DEF ReadVersion, LookUp, Check, BitsType
<1>10. CASE Restart
  <2>1. StoreType' /\ BitsType'
    BY <1>0, <1>10 DEF Restart, StoreType, BitsType, NoRequest
  <2>2. NewRelay \in RelayRecord
    BY DEF NewRelay, NoCache, RelayRecord
  <2>3. \A n \in Name : CacheOK(n)'
    BY SMT, <1>10 DEF Restart, CacheOK, TaskOK, NewRelay, NoCache
  <2> QED BY <1>10, <2>1, <2>2, <2>3 DEF Restart, RelayInv
<1>11. CASE UNCHANGED vars
  BY <1>11 DEF vars, RelayInv, StoreType, BitsType, CacheOK, TaskOK, RightAnswers, Out, Unlocked
<1> QED BY <1>1, <1>2, <1>3, <1>4, <1>6, <1>7, <1>8, <1>9, <1>10, <1>11 DEF Next

(***************************************************************************)
(* The relay never checks a message against groups that a change answered   *)
(* before had already replaced.                                             *)
(***************************************************************************)
THEOREM RelayGroupsFreshAlways == Spec => []RelayGroupsFresh
<1>1. RelayInv => RelayGroupsFresh
  BY DEF RelayInv, CacheOK, TaskOK, RelayGroupsFresh
<1> QED BY <1>1, RelayInvInit, RelayInvStep, PTL DEF Spec

-----------------------------------------------------------------------------
(***************************************************************************)
(* The histories: every position given out is below the next one, and only  *)
(* groups that exist have members.                                          *)
(***************************************************************************)
PositionsInv ==
  /\ positions \subseteq Nat \X AnyGroup
  /\ \A p \in positions : p[1] < gs.next_bitpos
  /\ BitposStable

MembersInv ==
  /\ given \subseteq Name \X AnyGroup
  /\ \A n \in Name, g \in AnyGroup :
        /\ gs.members[n][g] # NoMember <=> <<n, g>> \in given
        /\ gs.members[n][g] # NoMember => gs.bitpos[g] # NoBitpos

LEMMA HistoryInit == Init => PositionsInv /\ MembersInv
BY SMT DEF Init, FreshState, PositionsInv, MembersInv, BitposStable, AnyGroup

\* Only Create gives out a position.
LEMMA PositionsStep ==
  StoreType /\ BitsType /\ PositionsInv /\ [Next]_vars => PositionsInv'
<1> SUFFICES ASSUME StoreType, BitsType, PositionsInv, [Next]_vars PROVE PositionsInv'
  OBVIOUS
<1>0. gs \in GroupState /\ gs.next_bitpos \in Nat
  BY DEF StoreType, GroupState
<1>1. CASE \E g \in Group : Create(g)
  <2>1. PICK g \in Group : Create(g)
    BY <1>1
  <2>2. gs' = ApplyCreated(gs, g) /\ positions' = positions \cup {<<gs'.bitpos[g], g>>}
    BY <2>1 DEF Create, Write
  <2>3. gs'.bitpos[g] = gs.next_bitpos /\ gs'.next_bitpos = gs.next_bitpos + 1
    BY <1>0, <2>2, CreatedType
  <2>4. positions' \subseteq Nat \X AnyGroup
    BY SMT, <1>0, <2>2, <2>3 DEF PositionsInv, AnyGroup
  <2>5. \A p \in positions' : p[1] < gs'.next_bitpos
    BY SMT, <1>0, <2>2, <2>3 DEF PositionsInv
  <2>6. BitposStable'
    <3> SUFFICES ASSUME NEW p \in positions', NEW q \in positions', p[1] = q[1]
                 PROVE  p = q
      BY DEF BitposStable
    <3>1. \A o \in positions : o[1] < gs.next_bitpos /\ o[1] \in Nat
      BY DEF PositionsInv
    <3>2. <<gs.next_bitpos, g>>[1] = gs.next_bitpos
      OBVIOUS
    <3> QED BY SMT, <1>0, <2>2, <2>3, <3>1, <3>2 DEF PositionsInv, BitposStable
  <2> QED BY <2>4, <2>5, <2>6 DEF PositionsInv
<1>2. CASE positions' = positions /\ gs'.next_bitpos = gs.next_bitpos
  BY <1>2 DEF PositionsInv, BitposStable
<1>3. ASSUME NEW g \in Group, Delete(g)
      PROVE  positions' = positions /\ gs'.next_bitpos = gs.next_bitpos
  BY <1>0, <1>3, DeletedType DEF Delete, Write
<1>4. ASSUME NEW n \in Name, NEW g \in AnyGroup, NEW m \in Membership \cup {NoMember},
             SetMember(n, g, m)
      PROVE  positions' = positions /\ gs'.next_bitpos = gs.next_bitpos
  BY SMT, <1>0, <1>4, MemberSetType DEF SetMember, Write
<1>5. ASSUME NEW n \in Name, NEW grants \in SUBSET AnyGroup, Grant(n, grants)
      PROVE  positions' = positions /\ gs'.next_bitpos = gs.next_bitpos
  BY <1>0, <1>5, GrantedType DEF Grant, Write
<1>6. ASSUME NEW n \in Name, NEW active, SetActive(n, active)
      PROVE  positions' = positions /\ gs'.next_bitpos = gs.next_bitpos
  <2>1. AllGroupNames(gs, n) \ active \in SUBSET AnyGroup
    BY <1>0, AllGroupNamesType
  <2> QED BY <1>0, <1>6, <2>1, ActiveSetType DEF SetActive, Write
<1>7. CASE UNCHANGED <<gs, positions>>
  BY <1>2, <1>7
<1>8. ASSUME NEW n \in Name, SetActiveBits(n)
      PROVE  PositionsInv'
  BY <1>2, <1>6, <1>7, <1>8 DEF SetActiveBits
<1> QED BY <1>1, <1>2, <1>3, <1>4, <1>5, <1>6, <1>7, <1>8
        DEF Next, vars, Bump, SetActiveGroups, NamesForBitpos, ReadVersion, LookUp, Check, Restart

LEMMA MembersStep ==
  StoreType /\ BitsType /\ MembersInv /\ [Next]_vars => MembersInv'
<1> SUFFICES ASSUME StoreType, BitsType, MembersInv, [Next]_vars PROVE MembersInv'
  OBVIOUS
<1>0. gs \in GroupState
  BY DEF StoreType
<1>1. ASSUME NEW g \in Group, Create(g) PROVE MembersInv'
  <2>1. /\ gs' = ApplyCreated(gs, g) /\ ~Exists(gs, g)
        /\ given' = given
    BY <1>1 DEF Create, Write
  <2>2. /\ gs'.members = gs.members /\ gs'.bitpos[g] \in Nat
        /\ \A h \in AnyGroup : h # g => gs'.bitpos[h] = gs.bitpos[h]
    BY <1>0, <2>1, CreatedType DEF GroupState
  <2>3. \A n \in Name : gs.members[n][g] = NoMember
    BY <2>1 DEF MembersInv, Exists, AnyGroup
  <2> QED BY SMT, <2>1, <2>2, <2>3 DEF MembersInv
<1>2. ASSUME NEW g \in Group, Delete(g) PROVE MembersInv'
  <2>1. gs' = ApplyDeleted(gs, g) /\ given' = {p \in given : p[2] # g}
    BY <1>2 DEF Delete, Write
  <2>2. /\ \A n \in Name : gs'.members[n][g] = NoMember
        /\ \A n \in Name, h \in AnyGroup : h # g => gs'.members[n][h] = gs.members[n][h]
        /\ \A h \in AnyGroup : h # g => gs'.bitpos[h] = gs.bitpos[h]
    BY SMT, <1>0, <2>1, DeletedType
  <2> QED BY SMT, <2>1, <2>2 DEF MembersInv
<1>3. ASSUME NEW n \in Name, NEW g \in AnyGroup, NEW m \in Membership \cup {NoMember},
             SetMember(n, g, m)
      PROVE  MembersInv'
  <2>1. /\ gs' = ApplyMemberSet(gs, n, g, m) /\ Exists(gs, g)
        /\ given' = IF m = NoMember THEN given \ {<<n, g>>} ELSE given \cup {<<n, g>>}
    BY <1>3 DEF SetMember, Write
  <2>2. /\ gs'.bitpos = gs.bitpos /\ gs'.members[n][g] = m
        /\ \A k \in Name, h \in AnyGroup :
              ~(k = n /\ h = g) => gs'.members[k][h] = gs.members[k][h]
    BY SMT, <1>0, <2>1, MemberSetType
  <2> QED BY SMT, <2>1, <2>2 DEF MembersInv, Exists
<1>4. ASSUME NEW n \in Name, NEW grants \in SUBSET AnyGroup, Grant(n, grants)
      PROVE  MembersInv'
  <2>1. /\ gs' = Granted(gs, n, grants) /\ ~FirstMissing(gs, grants)
        /\ given' = given \cup {<<n, g>> : g \in grants}
    BY <1>4 DEF Grant, Write
  <2>2. /\ gs'.bitpos = gs.bitpos
        /\ \A k \in Name, h \in AnyGroup :
              ~(k = n /\ h \in grants) => gs'.members[k][h] = gs.members[k][h]
        /\ \A h \in grants : gs'.members[n][h] # NoMember
    BY SMT, <1>0, <2>1, GrantedType
  <2> QED BY SMT, <2>1, <2>2 DEF MembersInv, FirstMissing, Exists
<1>5. ASSUME NEW n \in Name, NEW active, SetActive(n, active)
      PROVE  MembersInv'
  <2>1. AllGroupNames(gs, n) \ active \in SUBSET AnyGroup
    BY <1>0, AllGroupNamesType
  <2>2. gs'.members = gs.members /\ gs'.bitpos = gs.bitpos /\ given' = given
    BY <1>0, <1>5, <2>1, ActiveSetType DEF SetActive, Write
  <2> QED BY <2>2 DEF MembersInv
<1>6. CASE UNCHANGED <<gs, given>>
  BY <1>6 DEF MembersInv
<1>7. ASSUME NEW n \in Name, SetActiveBits(n) PROVE MembersInv'
  BY <1>5, <1>6, <1>7 DEF SetActiveBits
<1> QED BY <1>1, <1>2, <1>3, <1>4, <1>5, <1>6, <1>7
        DEF Next, vars, Bump, SetActiveGroups, NamesForBitpos, ReadVersion, LookUp, Check, Restart

(***************************************************************************)
(* The group store and its relays keep their types.                         *)
(***************************************************************************)
THEOREM TypeOKAlways == Spec => []TypeOK
<1>1. RelayInv /\ BitsType /\ PositionsInv /\ MembersInv => TypeOK
  BY DEF RelayInv, StoreType, RelayRecord, BitsType, PositionsInv, MembersInv, TypeOK
<1>2. RelayInv => StoreType
  BY DEF RelayInv
<1> QED BY <1>1, <1>2, RelayInvInit, RelayInvStep, HistoryInit, PositionsStep, MembersStep, PTL
        DEF Spec

(***************************************************************************)
(* A bit position means one group for ever.                                 *)
(***************************************************************************)
THEOREM BitposStableAlways == Spec => []BitposStable
<1>1. RelayInv => StoreType
  BY DEF RelayInv
<1>2. PositionsInv => BitposStable
  BY DEF PositionsInv
<1> QED BY <1>1, <1>2, RelayInvInit, RelayInvStep, HistoryInit, PositionsStep, PTL DEF Spec

(***************************************************************************)
(* Exactly the memberships given, and neither taken back nor deleted with   *)
(* their group, are in force.                                               *)
(***************************************************************************)
THEOREM MembershipsAreGivenAlways == Spec => []MembershipsAreGiven
<1>1. RelayInv => StoreType
  BY DEF RelayInv
<1>2. MembersInv => MembershipsAreGiven
  BY DEF MembersInv, MembershipsAreGiven, Explicit, Exists
<1> QED BY <1>1, <1>2, RelayInvInit, RelayInvStep, HistoryInit, MembersStep, PTL DEF Spec

(***************************************************************************)
(* Deleting and re-creating groups passes on neither a bit position nor a   *)
(* membership: the two above, and the types.                                *)
(***************************************************************************)
THEOREM GroupsKeptAlways == Spec => []GroupsKept
BY TypeOKAlways, BitposStableAlways, MembershipsAreGivenAlways, PTL DEF GroupsKept
=============================================================================
