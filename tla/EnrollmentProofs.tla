-------------------------- MODULE EnrollmentProofs --------------------------
(***************************************************************************)
(* Proofs about enrollment, for any names, tokens, groups and scenarios and *)
(* any number of requests that interleave, fail and are cut by crashes.     *)
(***************************************************************************)
EXTENDS Enrollment, TLAPS

\* Most steps are about sets and functions only: Zenon proves them.  The others say SMT.
USE Zenon

PC == {"new", "verify", "groups", "blocked", "rotate", "consume", "admin", "forget", "find",
       "get", "spend", "create", "grant", "ok", "refused", "conflict"}

Request == [pc: PC, in: Input, grants: SUBSET Group]

Issue == [cert: Cert, cn: Name, by: Path, secret: Secret, grants: SUBSET Group,
          replaced: Cert \cup {NoCert}, cut: BOOLEAN]

Boot     == [outstanding: BOOLEAN, file: BOOLEAN, lock: Cert \cup {Free}]
Revoking == [pc: {"idle", "find", "revoke"}, name: Name \cup {NoName}, cert: Cert \cup {NoCert}]
Past     == [cut: SUBSET Name, deleted: SUBSET Group]

\* What a step does to the requests: one of them moves.
Moved(c, p, gs) ==
  /\ req' \in [Cert -> Request]
  /\ req'[c].pc = p /\ req'[c].in = req[c].in /\ req'[c].grants = gs
  /\ \A d \in Cert : d # c => req'[d] = req[d]

LEMMA GotoMoves ==
  ASSUME req \in [Cert -> Request], NEW c \in Cert, NEW p \in PC, Goto(c, p)
  PROVE  Moved(c, p, req[c].grants)
<1>1. req[c] \in Request /\ req' = [req EXCEPT ![c] = [req[c] EXCEPT !.pc = p]]
  BY DEF Goto
<1> DEFINE q == [req[c] EXCEPT !.pc = p]
<1>2. q \in Request /\ q.pc = p /\ q.in = req[c].in /\ q.grants = req[c].grants
  BY <1>1 DEF Request
<1> HIDE DEF q
<1> QED BY <1>1, <1>2 DEF Moved, q

LEMMA GrantsMove ==
  ASSUME req \in [Cert -> Request], NEW c \in Cert, NEW p \in PC, NEW gs \in SUBSET Group,
         req' = [req EXCEPT ![c].pc = p, ![c].grants = gs]
  PROVE  Moved(c, p, gs)
<1> DEFINE q == [req[c] EXCEPT !.pc = p, !.grants = gs]
<1>1. req[c] \in Request /\ req' = [req EXCEPT ![c] = q]
  OBVIOUS
<1>2. q \in Request /\ q.pc = p /\ q.in = req[c].in /\ q.grants = gs
  BY <1>1 DEF Request
<1> HIDE DEF q
<1>3. req'[c] = q /\ \A d \in Cert : d # c => req'[d] = req[d]
  BY <1>1
<1>4. req' \in [Cert -> Request]
  BY <1>1, <1>2
<1> QED BY <1>2, <1>3, <1>4 DEF Moved

\* A token that is used up.
LEMMA ConsumedFacts ==
  ASSUME NEW k \in C!TokenRecord, NEW n \in Name
  PROVE  LET q == [k EXCEPT !.used = TRUE, !.used_by = n]
         IN  q \in C!TokenRecord /\ q.used /\ q.minted = k.minted /\ q.bound = k.bound
BY DEF C!TokenRecord

-----------------------------------------------------------------------------
(***************************************************************************)
(* What the stores' operations do.                                          *)
(***************************************************************************)
LEMMA EnrolledFacts ==
  ASSUME NEW r \in RegistryState, NEW cn \in Name, NEW c \in Cert, NEW u \in Uid,
         NEW t, t = ApplyEvent(r, Enrolled(cn, c, u))
  PROVE  /\ t \in RegistryState /\ t.revoked_certs = r.revoked_certs
         /\ t.devices[cn].cert = c
         /\ \A n \in Name : n # cn => t.devices[n] = r.devices[n]
<1> DEFINE e == Enrolled(cn, c, u)
           id == r.next_cert_id + 1
           rows == r.certificates \cup {[id |-> id, common_name |-> cn, cert |-> c, client_uid |-> u]}
           dev == [r.devices EXCEPT ![cn].cert = c]
           q == [r EXCEPT !.next_cert_id = id, !.certificates = rows, !.devices = dev]
<1>1. e.type = "Enrolled" /\ e.common_name = cn /\ e.cert = c /\ e.client_uid = u
  BY DEF Enrolled
<1>2. ApplyEvent(r, e) = q
  BY <1>1 DEF ApplyEvent, ApplyEnrolled, RegistryState
<1>3. dev \in [Name -> DeviceRecord] /\ dev[cn].cert = c
      /\ \A n \in Name : n # cn => dev[n] = r.devices[n]
  BY DEF RegistryState, DeviceRecord
<1>4. id \in Nat /\ rows \in SUBSET CertRecord
  BY SMT DEF RegistryState, CertRecord
<1> HIDE DEF dev, id, rows, e
<1>5. q \in RegistryState /\ q.revoked_certs = r.revoked_certs /\ q.devices = dev
  BY <1>3, <1>4 DEF RegistryState
<1> QED BY SMT, <1>2, <1>3, <1>5 DEF e

LEMMA BlockedFacts ==
  ASSUME NEW r \in RegistryState, NEW cn \in Name, NEW e \in {Revoked(cn), Unblocked(cn)}
  PROVE  LET q == ApplyEvent(r, e)
         IN  /\ q \in RegistryState /\ q.revoked_certs = r.revoked_certs
             /\ \A n \in Name : q.devices[n].cert = r.devices[n].cert
<1>1. e.type \in {"Revoked", "Unblocked"} /\ e.common_name = cn
  BY SMT DEF Revoked, Unblocked
<1>2. PICK b \in BOOLEAN : ApplyEvent(r, e) = SetBlocked(r, cn, b)
  BY <1>1 DEF ApplyEvent
<1> DEFINE dev == [r.devices EXCEPT ![cn].revoked = b]
           q == [r EXCEPT !.devices = dev]
<1>3. dev \in [Name -> DeviceRecord] /\ \A n \in Name : dev[n].cert = r.devices[n].cert
  BY DEF RegistryState, DeviceRecord
<1>4. ApplyEvent(r, e) \in {r, q}
  BY <1>2 DEF SetBlocked, RegistryState
<1> HIDE DEF dev
<1>5. q \in RegistryState /\ q.revoked_certs = r.revoked_certs /\ q.devices = dev
  BY <1>3 DEF RegistryState
<1> QED BY <1>3, <1>4, <1>5

LEMMA CertRevokedFacts ==
  ASSUME NEW r \in RegistryState, NEW c \in Cert
  PROVE  LET q == ApplyEvent(r, CertRevoked(c))
         IN  /\ q \in RegistryState /\ q.revoked_certs = r.revoked_certs \cup {c}
             /\ q.devices = r.devices
BY DEF ApplyEvent, ApplyCertRevoked, CertRevoked, RegistryState

LEMMA GrantedFacts ==
  ASSUME NEW s \in G!GroupState, NEW n \in Name, NEW gs \in SUBSET Group,
         NEW t, t = G!Granted(s, n, gs)
  PROVE  /\ t \in G!GroupState /\ t.bitpos = s.bitpos
         /\ \A g \in gs : t.members[n][g] = "Both"
         /\ \A m \in Name, g \in Group : s.members[m][g] = "Both" => t.members[m][g] = "Both"
<1> DEFINE row == [g \in G!AnyGroup |-> IF g \notin gs THEN s.members[n][g]
                         ELSE IF s.members[n][g] = G!NoMember THEN "Both"
                         ELSE G!Merge(s.members[n][g], "Both")]
           all == [s.members EXCEPT ![n] = row]
           q == [s EXCEPT !.members = all]
<1>1. G!Granted(s, n, gs) = q
  BY DEF G!Granted, G!GroupState
<1>2. s.members \in [Name -> [G!AnyGroup -> G!Membership \cup {G!NoMember}]] /\ Group \subseteq G!AnyGroup
  BY DEF G!GroupState, G!AnyGroup
<1>3. /\ row \in [G!AnyGroup -> G!Membership \cup {G!NoMember}]
      /\ \A g \in gs : row[g] = "Both"
      /\ \A g \in Group : s.members[n][g] = "Both" => row[g] = "Both"
  BY <1>2 DEF G!Merge, G!Membership, G!NoMember
<1> HIDE DEF row
<1>4. /\ all \in [Name -> [G!AnyGroup -> G!Membership \cup {G!NoMember}]]
      /\ all[n] = row /\ \A m \in Name : m # n => all[m] = s.members[m]
  BY <1>2, <1>3
<1> HIDE DEF all
<1>5. q \in G!GroupState /\ q.bitpos = s.bitpos /\ q.members = all
  BY <1>4 DEF G!GroupState
<1> QED BY SMT, <1>1, <1>3, <1>4, <1>5

LEMMA CreatedFacts ==
  ASSUME NEW s \in G!GroupState, NEW g \in Group
  PROVE  LET q == G!ApplyCreated(s, g)
         IN  /\ q \in G!GroupState /\ q.members = s.members
             /\ \A h \in Group : G!Exists(s, h) => G!Exists(q, h)
<1> DEFINE pos == [s.bitpos EXCEPT ![g] = s.next_bitpos]
           next == s.next_bitpos + 1
           q == [s EXCEPT !.bitpos = pos, !.next_bitpos = next]
<1>1. G!ApplyCreated(s, g) = q
  BY DEF G!ApplyCreated, G!GroupState
<1>2. s.next_bitpos \in Nat /\ s.bitpos \in [G!AnyGroup -> Nat \cup {G!NoBitpos}]
      /\ g \in G!AnyGroup /\ Group \subseteq G!AnyGroup
  BY DEF G!GroupState, G!AnyGroup
<1>3. /\ pos \in [G!AnyGroup -> Nat \cup {G!NoBitpos}]
      /\ pos[g] \in Nat /\ \A h \in Group : h # g => pos[h] = s.bitpos[h]
      /\ next \in Nat
  BY SMT, <1>2
<1> HIDE DEF pos, next
<1>4. q \in G!GroupState /\ q.members = s.members /\ q.bitpos = pos
  BY <1>2, <1>3 DEF G!GroupState
<1>5. \A h \in Group : s.bitpos[h] # G!NoBitpos => pos[h] # G!NoBitpos
  BY SMT, <1>3 DEF G!NoBitpos
<1> HIDE DEF q
<1> QED BY <1>1, <1>4, <1>5 DEF G!Exists

LEMMA DeletedFacts ==
  ASSUME NEW s \in G!GroupState, NEW g \in Group
  PROVE  LET q == G!ApplyDeleted(s, g)
         IN  /\ q \in G!GroupState
             /\ \A h \in Group : h # g => q.bitpos[h] = s.bitpos[h]
             /\ \A m \in Name, h \in Group : h # g => q.members[m][h] = s.members[m][h]
<1> DEFINE pos == [s.bitpos EXCEPT ![g] = G!NoBitpos]
           all == [n \in Name |-> [s.members[n] EXCEPT ![g] = G!NoMember]]
           off == [n \in Name |-> s.inactive[n] \ {g}]
           q == [s EXCEPT !.bitpos = pos, !.members = all, !.inactive = off]
<1>1. G!ApplyDeleted(s, g) = q
  BY DEF G!ApplyDeleted, G!GroupState
<1>2. g \in G!AnyGroup /\ Group \subseteq G!AnyGroup
  BY DEF G!AnyGroup
<1>3. pos \in [G!AnyGroup -> Nat \cup {G!NoBitpos}] /\ \A h \in Group : h # g => pos[h] = s.bitpos[h]
  BY <1>2 DEF G!GroupState
<1>4. all \in [Name -> [G!AnyGroup -> G!Membership \cup {G!NoMember}]]
      /\ \A m \in Name, h \in Group : h # g => all[m][h] = s.members[m][h]
  BY <1>2 DEF G!GroupState
<1>5. off \in [Name -> SUBSET G!AnyGroup]
  BY DEF G!GroupState
<1> HIDE DEF pos, all, off
<1>6. q \in G!GroupState /\ q.members = all /\ q.bitpos = pos
  BY <1>3, <1>4, <1>5 DEF G!GroupState
<1> QED BY SMT, <1>1, <1>3, <1>4, <1>6

-----------------------------------------------------------------------------
(***************************************************************************)
(* Where a request is says what was checked: the password path is for the   *)
(* account's own name and not for the admin, the bootstrap path only for    *)
(* the admin, and a request that is about to create an identity in mode     *)
(* Auto has spent a token that no certificate was issued for and that no    *)
(* other request can use.                                                   *)
(***************************************************************************)
ByPassword(c) == req[c].pc \in {"groups", "blocked", "rotate"} =>
  /\ In(c).cn # Admin /\ In(c).basic = In(c).cn
  /\ users[In(c).cn].exists

Names(c) ==
  /\ req[c].pc \in {"consume", "admin", "forget"} => In(c).cn = Admin
  /\ req[c].pc \in {"find", "get", "spend", "create"} => In(c).cn # Admin
  /\ req[c].pc = "admin" => In(c).secret = Bootstrap
  /\ req[c].pc \in {"get", "spend"} => scenario.locked

Spent(c) == req[c].pc = "create" /\ scenario.locked =>
  /\ In(c).secret \in Token
  /\ tokens[In(c).secret].used /\ tokens[In(c).secret].bound \in {NoName, In(c).cn}
  /\ \A r \in issued : r.by = "token" => r.secret # In(c).secret
  /\ \A d \in Cert : d # c /\ req[d].pc = "create" => In(d).secret # In(c).secret

RequestInv == \A c \in Cert : ByPassword(c) /\ Names(c) /\ Spent(c)

\* Credentials: what was used was minted, what was revoked was created.
CredentialInv ==
  /\ \A t \in Token : tokens[t].used => tokens[t].minted
  /\ \A n \in Name : users[n].revoked => users[n].exists

\* The request that holds the bootstrap token's lock, and what it can rely on.
BootInv ==
  /\ \A c \in Cert : req[c].pc \in {"admin", "forget"} <=> boot.lock = c
  /\ \A c \in Cert : req[c].pc = "admin" =>
        boot.outstanding /\ boot.file /\ ~IsEnrolled(reg, Admin)
  /\ \A c \in Cert : req[c].pc = "forget" => IsEnrolled(reg, Admin)
  /\ BootstrapMatches

(***************************************************************************)
(* A certificate on record: its request is past the enrollment, its         *)
(* identity is on record with this certificate or a later one.              *)
(***************************************************************************)
Done == {"forget", "grant", "ok", "refused"}

IssuedInv ==
  /\ \A r \in issued :
       /\ req[r.cert].pc \in Done
       /\ r.cn = In(r.cert).cn /\ r.grants = req[r.cert].grants
       /\ IsEnrolled(reg, r.cn)
       /\ r.by = "token" => r.secret \in Token /\ tokens[r.secret].used
  /\ TokensEnrollOnce /\ OnlyOwnersReplace /\ AdminEnrolledOnce

(***************************************************************************)
(* A certificate that was issued on an account before the account was       *)
(* revoked: after revoke_user it is revoked or replaced, and while          *)
(* revoke_user is between its two steps it may also be the one found.       *)
(***************************************************************************)
Replaced(c) == \E q \in issued : q.replaced = c

Gone(c) == c \in reg.revoked_certs \/ Replaced(c)

CutInv ==
  /\ \A n \in past.cut : users[n].revoked
  /\ revoking.pc # "idle" => revoking.name \in Name /\ users[revoking.name].revoked
  /\ revoking.pc = "revoke" => revoking.cert \in Cert
  /\ \A r \in issued : reg.devices[r.cn].cert = r.cert \/ Replaced(r.cert)
  /\ \A r \in issued : r.by = "password" /\ ~r.cut =>
       /\ r.cn \in past.cut => Gone(r.cert)
       /\ revoking.pc = "revoke" /\ revoking.name = r.cn
            => Gone(r.cert) \/ revoking.cert = r.cert

\* The groups of a request exist, unless they were deleted since it looked.
GrantInv ==
  /\ \A c \in Cert : req[c].pc # "refused" =>
       \A g \in req[c].grants : G!Exists(groups, g) \/ g \in past.deleted
  /\ GrantsApplied

Types ==
  /\ scenario \in Scenarios /\ reg \in RegistryState
  /\ tokens \in [Token -> C!TokenRecord] /\ users \in [Name -> C!UserRecord]
  /\ groups \in G!GroupState
  /\ boot \in Boot /\ req \in [Cert -> Request] /\ revoking \in Revoking
  /\ issued \subseteq Issue /\ past \in Past

Inv == Types /\ RequestInv /\ CredentialInv /\ BootInv /\ IssuedInv /\ CutInv /\ GrantInv

-----------------------------------------------------------------------------
(***************************************************************************)
(* No step takes from the stores what the invariant relies on.              *)
(***************************************************************************)
RegistryGrows ==
  /\ \A n \in Name : IsEnrolled(reg, n) => IsEnrolled(reg', n)
  /\ reg.revoked_certs \subseteq reg'.revoked_certs

TokensGrow == \A t \in Token : tokens[t].used => tokens'[t].used /\ tokens'[t].bound = tokens[t].bound

UsersGrow == \A n \in Name : /\ users[n].exists => users'[n].exists
                             /\ users[n].revoked => users'[n].revoked

PastGrows == past.cut \subseteq past'.cut /\ past.deleted \subseteq past'.deleted

GroupsGrow == \A g \in Group :
  /\ G!Exists(groups, g) => G!Exists(groups', g) \/ g \in past'.deleted
  /\ \A n \in Name : groups.members[n][g] = "Both"
                       => groups'.members[n][g] = "Both" \/ g \in past'.deleted

LEMMA SameGrow ==
  /\ UNCHANGED reg => RegistryGrows
  /\ UNCHANGED tokens => TokensGrow
  /\ UNCHANGED users => UsersGrow
  /\ UNCHANGED past => PastGrows
  /\ UNCHANGED groups => GroupsGrow
BY DEF RegistryGrows, TokensGrow, UsersGrow, PastGrows, GroupsGrow

LEMMA RequestTypes ==
  ASSUME Types, NEW c \in Cert
  PROVE  /\ req[c].pc \in PC /\ req[c].in \in Input /\ req[c].grants \in SUBSET Group
         /\ In(c).cn \in Name /\ In(c).secret \in Secret /\ In(c).basic \in Name \cup {NoName}
         /\ In(c) = req[c].in
BY DEF Types, Request, Input, In

LEMMA IssueTypes ==
  ASSUME Types, NEW r \in issued
  PROVE  /\ r.cert \in Cert /\ r.cn \in Name /\ r.by \in Path /\ r.secret \in Secret
         /\ r.grants \in SUBSET Group /\ r.replaced \in Cert \cup {NoCert} /\ r.cut \in BOOLEAN
BY DEF Types, Issue

(***************************************************************************)
(* A step of a request that puts nothing on record.                         *)
(***************************************************************************)
LEMMA RequestMoves ==
  ASSUME Inv, NEW c \in Cert, NEW p \in PC, NEW gs \in SUBSET Group, Moved(c, p, gs),
         UNCHANGED <<scenario, reg, users, issued, revoking, past>>,
         Types', TokensGrow, GroupsGrow, CredentialInv', BootInv',
         req[c].pc \in Done => p \in Done /\ gs = req[c].grants,
         ByPassword(c)', Names(c)', Spent(c)',
         p # "refused" => \A g \in gs : G!Exists(groups', g) \/ g \in past.deleted,
         p = "ok" /\ ~scenario.failures /\ gs \cap past.deleted = {}
           => \A g \in gs : groups'.members[In(c).cn][g] = "Both"
  PROVE  Inv'
<1>0. /\ \A d \in Cert : d # c => req'[d] = req[d]
      /\ req'[c].pc = p /\ req'[c].in = req[c].in /\ req'[c].grants = gs
      /\ \A d \in Cert : In(d)' = In(d)
  BY DEF Moved, In
<1>1. RequestInv'
  <2> SUFFICES ASSUME NEW d \in Cert, d # c
               PROVE  ByPassword(d)' /\ Names(d)' /\ Spent(d)'
    BY DEF RequestInv
  <2>1. ByPassword(d)' /\ Names(d)'
    BY SMT, <1>0 DEF Inv, RequestInv, ByPassword, Names
  <2>2. ASSUME req[d].pc = "create", scenario.locked
        PROVE  /\ In(d).secret \in Token
               /\ tokens'[In(d).secret].used /\ tokens'[In(d).secret].bound \in {NoName, In(d).cn}
               /\ \A r \in issued : r.by = "token" => r.secret # In(d).secret
    BY <2>2 DEF Inv, RequestInv, Spent, TokensGrow
  <2>3. ASSUME req[d].pc = "create", scenario.locked, NEW e \in Cert, e # d, req'[e].pc = "create"
        PROVE  In(e).secret # In(d).secret
    <3>1. CASE e # c
      BY SMT, <1>0, <2>3, <3>1 DEF Inv, RequestInv, Spent
    <3>2. CASE e = c
      <4>1. \A f \in Cert : f # c /\ req'[f].pc = "create" => In(f)'.secret # In(c)'.secret
        BY <2>3, <3>2 DEF Spent
      <4> QED BY SMT, <1>0, <2>3, <3>2, <4>1
    <3> QED BY <3>1, <3>2
  <2>4. Spent(d)'
    BY SMT, <1>0, <2>2, <2>3 DEF Spent
  <2> QED BY <2>1, <2>4
<1>2. IssuedInv'
  <2>1. ASSUME NEW r \in issued
        PROVE  /\ req'[r.cert].pc \in Done
               /\ r.cn = In(r.cert)'.cn /\ r.grants = req'[r.cert].grants
               /\ IsEnrolled(reg, r.cn)
               /\ r.by = "token" => r.secret \in Token /\ tokens'[r.secret].used
    BY SMT, <1>0, <2>1, IssueTypes DEF Inv, IssuedInv, TokensGrow
  <2>2. TokensEnrollOnce'
    BY DEF Inv, IssuedInv, TokensEnrollOnce, TokensGrow
  <2>3. OnlyOwnersReplace' /\ AdminEnrolledOnce'
    BY DEF Inv, IssuedInv, OnlyOwnersReplace, AdminEnrolledOnce
  <2> QED BY <2>1, <2>2, <2>3 DEF IssuedInv
<1>3. CutInv'
  BY DEF Inv, CutInv, Gone, Replaced
<1>4. GrantInv'
  <2>1. ASSUME NEW d \in Cert, req'[d].pc # "refused", NEW g \in req'[d].grants
        PROVE  G!Exists(groups', g) \/ g \in past.deleted
    <3>1. CASE d = c
      BY <1>0, <2>1, <3>1
    <3>2. CASE d # c
      <4>1. g \in Group /\ (G!Exists(groups, g) \/ g \in past.deleted)
        BY <1>0, <2>1, <3>2, RequestTypes DEF Inv, GrantInv
      <4> QED BY <4>1 DEF GroupsGrow
    <3> QED BY <3>1, <3>2
  <2>2. ASSUME ~scenario.failures, NEW r \in issued, req'[r.cert].pc = "ok",
               r.grants \cap past.deleted = {}, NEW g \in r.grants
        PROVE  groups'.members[r.cn][g] = "Both"
    <3>0. r.cert \in Cert /\ r.cn \in Name /\ g \in Group
          /\ r.cn = In(r.cert).cn /\ r.grants = req[r.cert].grants /\ req[r.cert].pc \in Done
      BY IssueTypes DEF Inv, IssuedInv
    <3>1. CASE r.cert = c
      BY <1>0, <2>2, <3>0, <3>1
    <3>2. CASE r.cert # c
      <4>1. groups.members[r.cn][g] = "Both"
        BY SMT, <1>0, <2>2, <3>0, <3>2 DEF Inv, GrantInv, GrantsApplied, At
      <4> QED BY <2>2, <3>0, <4>1 DEF GroupsGrow
    <3> QED BY <3>1, <3>2
  <2> QED BY <2>1, <2>2 DEF GrantInv, GrantsApplied, At
<1> QED BY <1>1, <1>2, <1>3, <1>4 DEF Inv

(***************************************************************************)
(* A step that puts a certificate on record.                                *)
(***************************************************************************)
Recorded(c, p, by) ==
  /\ Record(c, by) /\ Moved(c, p, req[c].grants)
  /\ req[c].pc \in {"rotate", "admin", "create"}
  /\ UNCHANGED <<scenario, tokens, users, groups, revoking, past, boot>>
  /\ by = "token" => req[c].pc = "create" /\ scenario.locked
  /\ IsEnrolled(reg, In(c).cn) => by = "password" /\ users[In(c).cn].exists
  /\ In(c).cn = Admin => by = "bootstrap" /\ In(c).secret = Bootstrap
  /\ p = "forget" => In(c).cn = Admin

LEMMA RequestRecords ==
  ASSUME Inv, NEW c \in Cert, NEW p \in {"grant", "forget"}, NEW by \in Path,
         Recorded(c, p, by), BootInv'
  PROVE  Inv'
<1> DEFINE cn == In(c).cn
           uid == CHOOSE u \in Uid : TRUE
           new == [cert |-> c, cn |-> cn, by |-> by, secret |-> In(c).secret,
                   grants |-> req[c].grants, replaced |-> reg.devices[cn].cert,
                   cut |-> users[cn].revoked]
<1>0. /\ \A d \in Cert : d # c => req'[d] = req[d]
      /\ req'[c].pc = p /\ req'[c].in = req[c].in /\ req'[c].grants = req[c].grants
      /\ \A d \in Cert : In(d)' = In(d)
      /\ req' \in [Cert -> Request]
  BY DEF Recorded, Moved, In
<1>1. /\ cn \in Name /\ In(c).secret \in Secret /\ req[c].grants \in SUBSET Group /\ uid \in Uid
      /\ reg \in RegistryState /\ reg.devices[cn].cert \in Cert \cup {NoCert} /\ users[cn].revoked \in BOOLEAN
  <2>1. Types
    BY DEF Inv
  <2>2. cn \in Name /\ In(c).secret \in Secret /\ req[c].grants \in SUBSET Group
    BY <2>1, RequestTypes
  <2>3. uid \in Uid
    BY EnrollmentAssumption
  <2> HIDE DEF uid, cn
  <2>4. reg \in RegistryState /\ reg.devices[cn].cert \in Cert \cup {NoCert}
    BY <2>1, <2>2 DEF Types, RegistryState, DeviceRecord
  <2>5. users[cn].revoked \in BOOLEAN
    BY <2>1, <2>2 DEF Types, C!UserRecord
  <2> QED BY <2>2, <2>3, <2>4, <2>5
<1>2. reg' = ApplyEvent(reg, Enrolled(cn, c, uid)) /\ issued' = issued \cup {new}
  BY DEF Recorded, Record
<1>3. /\ new \in Issue /\ new.cert = c /\ new.cn = cn /\ new.by = by /\ new.secret = In(c).secret
      /\ new.grants = req[c].grants /\ new.replaced = reg.devices[cn].cert /\ new.cut = users[cn].revoked
  BY <1>1 DEF Issue
<1> HIDE DEF new, uid
<1>4. /\ reg' \in RegistryState /\ reg'.revoked_certs = reg.revoked_certs
      /\ reg'.devices[cn].cert = c
      /\ \A n \in Name : n # cn => reg'.devices[n] = reg.devices[n]
  <2> HIDE DEF cn
  <2> QED BY SMT, <1>1, <1>2, EnrolledFacts
<1> HIDE DEF cn
<1>5. \A n \in Name : IsEnrolled(reg, n) => IsEnrolled(reg', n)
  BY <1>4, NoCertAssumption DEF IsEnrolled
<1>6. IsEnrolled(reg', cn)
  BY <1>4, NoCertAssumption DEF IsEnrolled
<1>7. /\ UNCHANGED <<scenario, tokens, users, groups, revoking, past, boot>>
      /\ req[c].pc \in {"rotate", "admin", "create"} /\ issued' = issued \cup {new}
  BY <1>2 DEF Recorded
<1>8. \A r \in issued : /\ r.cert # c /\ r.cert \in Cert /\ r.cn \in Name
                        /\ req'[r.cert] = req[r.cert] /\ In(r.cert)' = In(r.cert)
  <2> TAKE r \in issued
  <2>1. r.cert \in Cert /\ r.cn \in Name /\ req[r.cert].pc \in Done
    BY IssueTypes DEF Inv, IssuedInv
  <2> QED BY <1>0, <1>7, <2>1 DEF Done
<1>9. Types'
  <2>1. issued' \subseteq Issue
    BY <1>3, <1>7 DEF Inv, Types
  <2> QED BY <1>0, <1>4, <1>7, <2>1 DEF Inv, Types
<1>10. CredentialInv'
  BY <1>7 DEF Inv, CredentialInv
<1>11. RequestInv'
  <2>1. ASSUME NEW d \in Cert, d # c
        PROVE  ByPassword(d)' /\ Names(d)'
    BY SMT, <1>0, <1>7, <2>1 DEF Inv, RequestInv, ByPassword, Names
  <2>2. ByPassword(c)' /\ Names(c)' /\ Spent(c)'
    BY <1>0 DEF Recorded, ByPassword, Names, Spent
  <2>3. ASSUME NEW d \in Cert, d # c
        PROVE  Spent(d)'
    <3>1. req'[d].pc = "create" /\ scenario.locked =>
             /\ In(d).secret \in Token
             /\ tokens[In(d).secret].used /\ tokens[In(d).secret].bound \in {NoName, In(d).cn}
             /\ \A r \in issued : r.by = "token" => r.secret # In(d).secret
             /\ \A e \in Cert : e # d /\ req'[e].pc = "create" => In(e).secret # In(d).secret
      <4>1. Spent(d) /\ req'[d] = req[d] /\ \A e \in Cert : req'[e].pc = "create" => req[e].pc = "create"
        BY <1>0, <2>3 DEF Inv, RequestInv
      <4> QED BY <4>1 DEF Spent
    <3>2. req'[d].pc = "create" /\ scenario.locked /\ by = "token" => new.secret # In(d).secret
      <4>1. Spent(d) /\ req'[d] = req[d] /\ (by = "token" => req[c].pc = "create")
        BY <1>0, <2>3 DEF Inv, RequestInv, Recorded
      <4> QED BY <1>3, <2>3, <4>1 DEF Spent
    <3>3. req'[d].pc = "create" /\ scenario.locked =>
             \A r \in issued' : r.by = "token" => r.secret # In(d).secret
      BY <1>3, <1>7, <3>1, <3>2
    <3> QED BY <1>0, <1>7, <3>1, <3>3 DEF Spent
  <2> QED BY <2>1, <2>2, <2>3 DEF RequestInv
<1>12. IssuedInv'
  <2>0. IssuedInv
    BY DEF Inv
  <2>1. ASSUME NEW r \in issued
        PROVE  /\ req'[r.cert].pc \in Done
               /\ r.cn = req'[r.cert].in.cn /\ r.grants = req'[r.cert].grants
               /\ IsEnrolled(reg', r.cn)
               /\ r.by = "token" => r.secret \in Token /\ tokens[r.secret].used
    BY <1>5, <1>8, <2>0, <2>1 DEF IssuedInv, In
  <2>2. /\ req'[new.cert].pc \in Done
        /\ new.cn = req'[new.cert].in.cn /\ new.grants = req'[new.cert].grants
        /\ IsEnrolled(reg', new.cn)
    BY <1>0, <1>3, <1>6 DEF Done, cn, In
  <2>3. by = "token" =>
          /\ new.secret \in Token /\ tokens[new.secret].used
          /\ tokens[new.secret].bound \in {NoName, cn}
          /\ \A r \in issued : r.by = "token" => r.secret # new.secret
    <3>1. Spent(c) /\ (by = "token" => req[c].pc = "create" /\ scenario.locked)
      BY DEF Inv, RequestInv, Recorded
    <3> QED BY <1>3, <3>1 DEF Spent, cn
  <2>4. TokensEnrollOnce'
    <3>0. TokensEnrollOnce
      BY <2>0 DEF IssuedInv
    <3>1. ASSUME NEW r \in issued', NEW s \in issued', r.by = "token", s.by = "token", s.secret = r.secret
          PROVE  s = r
      BY SMT, <1>3, <1>7, <2>3, <3>0, <3>1 DEF TokensEnrollOnce
    <3>2. ASSUME NEW r \in issued', r.by = "token"
          PROVE  r.secret \in Token /\ tokens'[r.secret].bound \in {NoName, r.cn}
      BY <1>3, <1>7, <2>3, <3>0, <3>2 DEF TokensEnrollOnce
    <3> QED BY <3>1, <3>2 DEF TokensEnrollOnce
  <2>5. OnlyOwnersReplace'
    <3>0. OnlyOwnersReplace /\ (IsEnrolled(reg, cn) => by = "password" /\ users[cn].exists)
      BY <2>0 DEF IssuedInv, Recorded, cn
    <3> QED BY <1>3, <1>7, <3>0 DEF OnlyOwnersReplace, IsEnrolled
  <2>6. AdminEnrolledOnce'
    <3>1. cn = Admin => by = "bootstrap" /\ new.secret = Bootstrap /\ ~IsEnrolled(reg, cn)
      BY <1>3 DEF Recorded, cn
    <3>2. cn = Admin => \A r \in issued : r.cn # Admin
      BY <2>0, <3>1 DEF IssuedInv
    <3>3. AdminEnrolledOnce
      BY <2>0 DEF IssuedInv
    <3> QED BY <1>3, <1>7, <3>1, <3>2, <3>3 DEF AdminEnrolledOnce
  <2>7. ASSUME NEW r \in issued'
        PROVE  /\ req'[r.cert].pc \in Done
               /\ r.cn = req'[r.cert].in.cn /\ r.grants = req'[r.cert].grants
               /\ IsEnrolled(reg', r.cn)
               /\ r.by = "token" => r.secret \in Token /\ tokens'[r.secret].used
    <3>1. CASE r = new
      BY <1>3, <1>7, <2>2, <2>3, <3>1
    <3>2. CASE r \in issued
      BY <1>7, <2>1, <3>2
    <3> QED BY <1>7, <2>7, <3>1, <3>2
  <2> QED BY <2>4, <2>5, <2>6, <2>7 DEF IssuedInv, In
<1>13. CutInv'
  <2>0. CutInv
    BY DEF Inv
  <2>1. \A r \in issued : (Replaced(r.cert) => Replaced(r.cert)') /\ (Gone(r.cert) => Gone(r.cert)')
    BY <1>4, <1>7 DEF Gone, Replaced
  <2>2. ASSUME NEW r \in issued
        PROVE  reg'.devices[r.cn].cert = r.cert \/ Replaced(r.cert)'
    <3>1. reg.devices[r.cn].cert = r.cert \/ Replaced(r.cert)
      BY <2>0 DEF CutInv
    <3>2. CASE r.cn = cn /\ reg.devices[r.cn].cert = r.cert
      <4>1. new.replaced = r.cert /\ new \in issued'
        BY <1>3, <1>7, <3>2
      <4> QED BY <4>1 DEF Replaced
    <3> QED BY <1>4, <1>8, <2>1, <3>1, <3>2
  <2>3. ~new.cut => /\ new.cn \notin past.cut
                    /\ ~(revoking.pc = "revoke" /\ revoking.name = new.cn)
    BY <1>3, <2>0 DEF CutInv
  <2>4. reg'.devices[new.cn].cert = new.cert
    BY <1>3, <1>4
  <2>5. \A r \in issued' : reg'.devices[r.cn].cert = r.cert \/ Replaced(r.cert)'
    BY <1>7, <2>2, <2>4
  <2>6. \A r \in issued' : r.by = "password" /\ ~r.cut =>
          /\ r.cn \in past.cut => Gone(r.cert)'
          /\ revoking.pc = "revoke" /\ revoking.name = r.cn => Gone(r.cert)' \/ revoking.cert = r.cert
    <3> SUFFICES ASSUME NEW r \in issued', r.by = "password", ~r.cut
                 PROVE  /\ r.cn \in past.cut => Gone(r.cert)'
                        /\ revoking.pc = "revoke" /\ revoking.name = r.cn
                             => Gone(r.cert)' \/ revoking.cert = r.cert
      OBVIOUS
    <3>1. CASE r = new
      BY <2>3, <3>1
    <3>2. CASE r \in issued
      BY <2>0, <2>1, <3>2 DEF CutInv
    <3> QED BY <1>7, <3>1, <3>2
  <2> QED BY <1>7, <2>0, <2>5, <2>6 DEF CutInv
<1>14. GrantInv'
  <2>1. \A d \in Cert : req'[d].pc # "refused" =>
          \A g \in req'[d].grants : G!Exists(groups, g) \/ g \in past.deleted
    BY <1>0, <1>7 DEF Inv, GrantInv
  <2>2. ASSUME ~scenario.failures, NEW r \in issued', req'[r.cert].pc = "ok",
               r.grants \cap past.deleted = {}, NEW g \in r.grants
        PROVE  groups.members[r.cn][g] = "Both"
    <3>1. r \in issued
      BY <1>0, <1>3, <1>7, <2>2
    <3> QED BY <1>8, <2>2, <3>1 DEF Inv, GrantInv, GrantsApplied, At
  <2> QED BY <1>7, <2>1, <2>2 DEF GrantInv, GrantsApplied, At
<1> QED BY <1>9, <1>10, <1>11, <1>12, <1>13, <1>14 DEF Inv

-----------------------------------------------------------------------------
(***************************************************************************)
(* A step of the admin API: the requests are where they were.               *)
(***************************************************************************)
SameCerts == \A n \in Name : reg'.devices[n].cert = reg.devices[n].cert

LEMMA AdminMoves ==
  ASSUME Inv, UNCHANGED <<scenario, req, boot, issued>>, SameCerts,
         Types', TokensGrow, UsersGrow, PastGrows, GroupsGrow, CredentialInv', CutInv'
  PROVE  Inv'
<1>0. \A n \in Name : IsEnrolled(reg', n) <=> IsEnrolled(reg, n)
  BY DEF SameCerts, IsEnrolled
<1>1. RequestInv'
  <2> SUFFICES ASSUME NEW c \in Cert PROVE ByPassword(c)' /\ Names(c)' /\ Spent(c)'
    BY DEF RequestInv
  <2>1. ByPassword(c)'
    BY RequestTypes DEF Inv, RequestInv, ByPassword, UsersGrow, In
  <2>2. Names(c)'
    BY DEF Inv, RequestInv, Names, In
  <2>3. Spent(c)'
    BY DEF Inv, RequestInv, Spent, TokensGrow, In
  <2> QED BY <2>1, <2>2, <2>3
<1>2. BootInv'
  BY <1>0, EnrollmentAssumption DEF Inv, BootInv, BootstrapMatches
<1>3. IssuedInv'
  <2>1. ASSUME NEW r \in issued
        PROVE  /\ req[r.cert].pc \in Done
               /\ r.cn = In(r.cert).cn /\ r.grants = req[r.cert].grants
               /\ IsEnrolled(reg', r.cn)
               /\ r.by = "token" => r.secret \in Token /\ tokens'[r.secret].used
    BY <1>0, <2>1, IssueTypes DEF Inv, IssuedInv, TokensGrow
  <2>2. TokensEnrollOnce'
    BY DEF Inv, IssuedInv, TokensEnrollOnce, TokensGrow
  <2>3. OnlyOwnersReplace'
    BY IssueTypes DEF Inv, IssuedInv, OnlyOwnersReplace, UsersGrow
  <2>4. AdminEnrolledOnce'
    BY DEF Inv, IssuedInv, AdminEnrolledOnce
  <2> QED BY <2>1, <2>2, <2>3, <2>4 DEF IssuedInv, In
<1>4. GrantInv'
  <2>1. ASSUME NEW c \in Cert, req[c].pc # "refused", NEW g \in req[c].grants
        PROVE  G!Exists(groups', g) \/ g \in past'.deleted
    BY <2>1, RequestTypes DEF Inv, GrantInv, GroupsGrow, PastGrows
  <2>2. ASSUME ~scenario.failures, NEW r \in issued, req[r.cert].pc = "ok",
               r.grants \cap past'.deleted = {}, NEW g \in r.grants
        PROVE  groups'.members[r.cn][g] = "Both"
    <3>1. r.cn \in Name /\ g \in Group /\ r.grants \cap past.deleted = {} /\ g \notin past'.deleted
      BY <2>2, IssueTypes DEF Inv, PastGrows
    <3>2. groups.members[r.cn][g] = "Both"
      BY <2>2, <3>1 DEF Inv, GrantInv, GrantsApplied, At
    <3> QED BY <3>1, <3>2 DEF GroupsGrow
  <2> QED BY <2>1, <2>2 DEF GrantInv, GrantsApplied, At
<1> QED BY <1>1, <1>2, <1>3, <1>4 DEF Inv

LEMMA CutKept ==
  ASSUME Inv, UNCHANGED <<issued, revoking>>, past'.cut = past.cut, SameCerts,
         UsersGrow, reg.revoked_certs \subseteq reg'.revoked_certs
  PROVE  CutInv'
<1>1. \A c \in Cert : (Replaced(c)' <=> Replaced(c)) /\ (Gone(c) => Gone(c)')
  BY DEF Gone, Replaced
<1>2. \A n \in past.cut : users'[n].revoked
  BY DEF Inv, CutInv, UsersGrow, Types, Past
<1>3. revoking.pc # "idle" => revoking.name \in Name /\ users'[revoking.name].revoked
  BY DEF Inv, CutInv, UsersGrow
<1>4. \A r \in issued : r.cert \in Cert /\ r.cn \in Name
  BY IssueTypes DEF Inv
<1>5. \A r \in issued : reg'.devices[r.cn].cert = r.cert \/ Replaced(r.cert)'
  BY <1>1, <1>4 DEF Inv, CutInv, SameCerts
<1>6. \A r \in issued : r.by = "password" /\ ~r.cut =>
        /\ r.cn \in past.cut => Gone(r.cert)'
        /\ revoking.pc = "revoke" /\ revoking.name = r.cn => Gone(r.cert)' \/ revoking.cert = r.cert
  BY <1>1, <1>4 DEF Inv, CutInv
<1> QED BY <1>2, <1>3, <1>5, <1>6 DEF Inv, CutInv

LEMMA MintTokenStep ==
  ASSUME Inv, NEW t \in Token, NEW bound \in Name \cup {NoName}, NEW gs \in SUBSET Group,
         MintToken(t, bound, gs), UNCHANGED scenario
  PROVE  Inv'
<1> DEFINE q == [C!NoToken EXCEPT !.minted = TRUE, !.bound = bound, !.groups = gs]
<1>1. /\ tokens' = [tokens EXCEPT ![t] = q] /\ ~tokens[t].minted
      /\ UNCHANGED <<reg, users, groups, boot, req, revoking, issued, past>>
  BY DEF MintToken, C!ApplyMinted
<1>2. q \in C!TokenRecord /\ ~q.used
  BY DEF C!NoToken, C!TokenRecord
<1> HIDE DEF q
<1>3. tokens \in [Token -> C!TokenRecord] /\ ~tokens[t].used
  BY <1>1 DEF Inv, Types, CredentialInv
<1>4. tokens' \in [Token -> C!TokenRecord] /\ tokens'[t] = q /\ \A u \in Token : u # t => tokens'[u] = tokens[u]
  BY <1>1, <1>2, <1>3
<1>5. Types' /\ TokensGrow /\ CredentialInv'
  BY <1>1, <1>2, <1>3, <1>4 DEF Inv, Types, TokensGrow, CredentialInv
<1>6. UsersGrow /\ PastGrows /\ GroupsGrow /\ SameCerts
  BY <1>1, SameGrow DEF SameCerts
<1>7. CutInv'
  BY <1>1, <1>6, CutKept
<1> QED BY <1>1, <1>5, <1>6, <1>7, AdminMoves

LEMMA RevokeTokenStep ==
  ASSUME Inv, NEW t \in Token, RevokeToken(t), UNCHANGED scenario
  PROVE  Inv'
<1> DEFINE q == [tokens[t] EXCEPT !.revoked = TRUE]
<1>1. /\ tokens' = [tokens EXCEPT ![t] = q] /\ tokens \in [Token -> C!TokenRecord]
      /\ UNCHANGED <<reg, users, groups, boot, req, revoking, issued, past>>
  BY DEF Inv, Types, RevokeToken, C!ApplyTokenRevoked
<1>2. q \in C!TokenRecord /\ q.used = tokens[t].used /\ q.minted = tokens[t].minted /\ q.bound = tokens[t].bound
  BY <1>1 DEF C!TokenRecord
<1> HIDE DEF q
<1>4. tokens' \in [Token -> C!TokenRecord] /\ tokens'[t] = q /\ \A u \in Token : u # t => tokens'[u] = tokens[u]
  BY <1>1, <1>2
<1>5. Types' /\ TokensGrow /\ CredentialInv'
  BY <1>1, <1>2, <1>4 DEF Inv, Types, TokensGrow, CredentialInv
<1>6. UsersGrow /\ PastGrows /\ GroupsGrow /\ SameCerts
  BY <1>1, SameGrow DEF SameCerts
<1>7. CutInv'
  BY <1>1, <1>6, CutKept
<1> QED BY <1>1, <1>5, <1>6, <1>7, AdminMoves

LEMMA MintUserStep ==
  ASSUME Inv, NEW n \in Name, NEW gs \in SUBSET Group, MintUser(n, gs), UNCHANGED scenario
  PROVE  Inv'
<1> DEFINE q == [exists |-> TRUE, revoked |-> FALSE, groups |-> gs]
<1>1. /\ users' = [users EXCEPT ![n] = q] /\ ~users[n].exists /\ users \in [Name -> C!UserRecord]
      /\ UNCHANGED <<reg, tokens, groups, boot, req, revoking, issued, past>>
  BY DEF Inv, Types, MintUser, C!ApplyUserCreated
<1>2. q \in C!UserRecord /\ q.exists /\ ~q.revoked
  BY DEF C!UserRecord
<1> HIDE DEF q
<1>3. ~users[n].revoked
  BY <1>1 DEF Inv, CredentialInv
<1>4. users' \in [Name -> C!UserRecord] /\ users'[n] = q /\ \A m \in Name : m # n => users'[m] = users[m]
  BY <1>1, <1>2
<1>5. Types' /\ UsersGrow /\ CredentialInv'
  BY <1>1, <1>2, <1>3, <1>4 DEF Inv, Types, UsersGrow, CredentialInv
<1>6. TokensGrow /\ PastGrows /\ GroupsGrow /\ SameCerts
  BY <1>1, SameGrow DEF SameCerts
<1>7. CutInv'
  BY <1>1, <1>5, <1>6, CutKept
<1> QED BY <1>1, <1>5, <1>6, <1>7, AdminMoves

LEMMA RevokeUserStep ==
  ASSUME Inv, NEW n \in Name, RevokeUser(n), UNCHANGED scenario
  PROVE  Inv'
<1> DEFINE q == [users[n] EXCEPT !.revoked = TRUE]
<1>1. /\ users' = [users EXCEPT ![n] = q] /\ users[n].exists /\ users \in [Name -> C!UserRecord]
      /\ revoking' = [pc |-> "find", name |-> n, cert |-> NoCert]
      /\ UNCHANGED <<reg, tokens, groups, boot, req, issued, past>>
  BY DEF Inv, Types, RevokeUser, C!ApplyUserRevoked
<1>2. q \in C!UserRecord /\ q.exists = users[n].exists /\ q.revoked
  BY <1>1 DEF C!UserRecord
<1> HIDE DEF q
<1>4. users' \in [Name -> C!UserRecord] /\ users'[n] = q /\ \A m \in Name : m # n => users'[m] = users[m]
  BY <1>1, <1>2
<1>5. revoking' \in Revoking
  BY <1>1 DEF Revoking
<1>6. Types' /\ UsersGrow /\ CredentialInv'
  BY <1>1, <1>2, <1>4, <1>5 DEF Inv, Types, UsersGrow, CredentialInv
<1>7. TokensGrow /\ PastGrows /\ GroupsGrow /\ SameCerts
  BY <1>1, SameGrow DEF SameCerts
<1>8. CutInv'
  <2>1. \A m \in past.cut : users'[m].revoked
    BY <1>6 DEF Inv, CutInv, UsersGrow, Types, Past
  <2>2. revoking'.pc = "find" /\ revoking'.name = n /\ users'[n].revoked
    BY <1>1, <1>2, <1>4
  <2> QED BY <1>1, <2>1, <2>2 DEF Inv, CutInv, Gone, Replaced
<1> QED BY <1>1, <1>6, <1>7, <1>8, AdminMoves

LEMMA FindCurrentCertStep ==
  ASSUME Inv, FindCurrentCert, UNCHANGED scenario
  PROVE  Inv'
<1> DEFINE n == revoking.name
           cert == reg.devices[n].cert
<1>1. /\ revoking.pc = "find" /\ UNCHANGED <<reg, tokens, users, groups, boot, req, issued>>
      /\ n \in Name /\ users[n].revoked /\ past \in Past /\ revoking \in Revoking /\ reg \in RegistryState
  BY DEF FindCurrentCert, Inv, CutInv, Types
<1>2. cert \in Cert \cup {NoCert}
  BY <1>1 DEF RegistryState, DeviceRecord
<1>3. \A r \in issued : r.cn = n => cert = r.cert \/ Gone(r.cert)
  BY DEF Inv, CutInv, Gone
<1>4. \A r \in issued : r.cert \in Cert /\ r.cn \in Name
  BY IssueTypes DEF Inv
<1> HIDE DEF n, cert
<1>5. CASE cert = NoCert
  <2>1. revoking' = Idle /\ past' = [past EXCEPT !.cut = @ \cup {n}]
    BY <1>5 DEF FindCurrentCert, n, cert
  <2>2. revoking'.pc = "idle" /\ revoking' \in Revoking
    BY <2>1 DEF Idle, Revoking
  <2>3. past' \in Past /\ past'.cut = past.cut \cup {n} /\ past'.deleted = past.deleted
    BY <1>1, <2>1 DEF Past
  <2>4. Types'
    BY <1>1, <2>2, <2>3 DEF Inv, Types
  <2>5. TokensGrow /\ UsersGrow /\ PastGrows /\ GroupsGrow /\ SameCerts /\ CredentialInv'
    <3>1. UsersGrow /\ TokensGrow /\ SameCerts /\ CredentialInv' /\ PastGrows
      BY <1>1, <2>3, SameGrow DEF SameCerts, Inv, CredentialInv, PastGrows
    <3>2. GroupsGrow
      BY <1>1, SameGrow
    <3> QED BY <3>1, <3>2
  <2>6. CutInv'
    <3>1. \A m \in past'.cut : users[m].revoked
      BY <1>1, <2>3 DEF Inv, CutInv
    <3>2. \A r \in issued : r.cn = n => Gone(r.cert)
      BY <1>3, <1>4, <1>5, NoCertAssumption
    <3>3. \A r \in issued : r.by = "password" /\ ~r.cut /\ r.cn \in past'.cut => Gone(r.cert)
      BY <2>3, <3>2 DEF Inv, CutInv
    <3> QED BY <1>1, <2>2, <3>1, <3>3 DEF Inv, CutInv, Gone, Replaced
  <2> QED BY <1>1, <2>4, <2>5, <2>6, AdminMoves
<1>6. CASE cert # NoCert
  <2>1. revoking' = [revoking EXCEPT !.pc = "revoke", !.cert = cert] /\ past' = past
    BY <1>6 DEF FindCurrentCert, n, cert
  <2>2. /\ revoking' \in Revoking /\ revoking'.pc = "revoke" /\ revoking'.name = n /\ revoking'.cert = cert
        /\ cert \in Cert
    BY <1>1, <1>2, <1>6, <2>1 DEF Revoking, n
  <2>3. Types'
    BY <1>1, <2>1, <2>2 DEF Inv, Types
  <2>4. TokensGrow /\ UsersGrow /\ PastGrows /\ GroupsGrow /\ SameCerts /\ CredentialInv'
    BY <1>1, <2>1, SameGrow DEF SameCerts, Inv, CredentialInv
  <2>5. CutInv'
    BY <1>1, <1>3, <2>1, <2>2 DEF Inv, CutInv, Gone, Replaced
  <2> QED BY <1>1, <2>3, <2>4, <2>5, AdminMoves
<1> QED BY <1>5, <1>6

LEMMA RevokeCurrentCertStep ==
  ASSUME Inv, RevokeCurrentCert, UNCHANGED scenario
  PROVE  Inv'
<1> DEFINE n == revoking.name
           cert == revoking.cert
<1>1. /\ revoking.pc = "revoke" /\ UNCHANGED <<tokens, users, groups, boot, req, issued>>
      /\ n \in Name /\ users[n].revoked /\ past \in Past /\ reg \in RegistryState /\ cert \in Cert
      /\ reg' = ApplyEvent(reg, CertRevoked(cert))
      /\ revoking' = Idle /\ past' = [past EXCEPT !.cut = @ \cup {n}]
  BY DEF RevokeCurrentCert, Inv, CutInv, Types
<1>2. reg' \in RegistryState /\ reg'.revoked_certs = reg.revoked_certs \cup {cert} /\ reg'.devices = reg.devices
  BY <1>1, CertRevokedFacts
<1>3. revoking'.pc = "idle" /\ revoking' \in Revoking
  BY <1>1 DEF Idle, Revoking
<1>4. past' \in Past /\ past'.cut = past.cut \cup {n} /\ past'.deleted = past.deleted
  BY <1>1 DEF Past
<1>5. \A r \in issued : r.by = "password" /\ ~r.cut /\ r.cn = n => cert = r.cert \/ Gone(r.cert)
  BY <1>1 DEF Inv, CutInv
<1> HIDE DEF n, cert
<1>6. Types'
  BY <1>1, <1>2, <1>3, <1>4 DEF Inv, Types
<1>7. TokensGrow /\ UsersGrow /\ PastGrows /\ SameCerts /\ CredentialInv'
  BY <1>1, <1>2, <1>4, SameGrow DEF SameCerts, Inv, CredentialInv, PastGrows
<1>8. GroupsGrow
  BY <1>1, SameGrow
<1>9. CutInv'
  <2>1. \A m \in past'.cut : users[m].revoked
    BY <1>1, <1>4 DEF Inv, CutInv
  <2>2. \A r \in issued : Gone(r.cert) \/ r.cert = cert => Gone(r.cert)'
    BY <1>1, <1>2 DEF Gone, Replaced
  <2>3. \A r \in issued : r.by = "password" /\ ~r.cut /\ r.cn \in past'.cut => Gone(r.cert)'
    BY <1>4, <1>5, <2>2 DEF Inv, CutInv
  <2>4. \A r \in issued : reg'.devices[r.cn].cert = r.cert \/ Replaced(r.cert)'
    BY <1>1, <1>2 DEF Inv, CutInv, Replaced
  <2> QED BY <1>1, <1>3, <2>1, <2>3, <2>4 DEF CutInv
<1> QED BY <1>1, <1>6, <1>7, <1>8, <1>9, AdminMoves

LEMMA BlockStep ==
  ASSUME Inv, NEW n \in Name, BlockDevice(n) \/ UnblockDevice(n), UNCHANGED scenario
  PROVE  Inv'
<1>1. /\ UNCHANGED <<tokens, users, groups, boot, req, revoking, issued, past>>
      /\ \E e \in {Revoked(n), Unblocked(n)} : reg' = ApplyEvent(reg, e)
  BY DEF BlockDevice, UnblockDevice
<1>2. reg' \in RegistryState /\ reg'.revoked_certs = reg.revoked_certs /\ SameCerts
  <2>1. PICK e \in {Revoked(n), Unblocked(n)} : reg' = ApplyEvent(reg, e)
    BY <1>1
  <2>2. reg \in RegistryState
    BY DEF Inv, Types
  <2> QED BY <2>1, <2>2, BlockedFacts DEF SameCerts
<1>3. Types' /\ CredentialInv'
  BY <1>1, <1>2 DEF Inv, Types, CredentialInv
<1>4. TokensGrow /\ UsersGrow /\ PastGrows /\ GroupsGrow
  BY <1>1, SameGrow
<1>5. CutInv'
  BY <1>1, <1>2, <1>4, CutKept
<1> QED BY <1>1, <1>2, <1>3, <1>4, <1>5, AdminMoves

LEMMA GroupStep ==
  ASSUME Inv, NEW g \in Group, CreateGroup(g) \/ DeleteGroup(g), UNCHANGED scenario
  PROVE  Inv'
<1>1. /\ UNCHANGED <<reg, tokens, users, boot, req, revoking, issued>>
      /\ groups \in G!GroupState /\ past \in Past
  BY DEF CreateGroup, DeleteGroup, Inv, Types
<1>2. groups' \in G!GroupState /\ past' \in Past /\ past'.cut = past.cut /\ PastGrows /\ GroupsGrow
  <2>1. CASE CreateGroup(g)
    <3>1. groups' = G!ApplyCreated(groups, g) /\ past' = past
      BY <2>1 DEF CreateGroup
    <3> QED BY <1>1, <3>1, CreatedFacts DEF PastGrows, GroupsGrow
  <2>2. CASE DeleteGroup(g)
    <3>1. groups' = G!ApplyDeleted(groups, g) /\ past' = [past EXCEPT !.deleted = @ \cup {g}]
      BY <2>2 DEF DeleteGroup
    <3>2. past' \in Past /\ past'.cut = past.cut /\ past'.deleted = past.deleted \cup {g}
      BY <1>1, <3>1 DEF Past
    <3>3. /\ groups' \in G!GroupState
          /\ \A h \in Group : h # g => groups'.bitpos[h] = groups.bitpos[h]
          /\ \A m \in Name, h \in Group : h # g => groups'.members[m][h] = groups.members[m][h]
      BY SMT, <1>1, <3>1, DeletedFacts
    <3> QED BY <3>2, <3>3 DEF PastGrows, GroupsGrow, G!Exists
  <2> QED BY <2>1, <2>2
<1>3. Types' /\ CredentialInv'
  BY <1>1, <1>2 DEF Inv, Types, CredentialInv
<1>4. TokensGrow /\ UsersGrow /\ SameCerts
  BY <1>1, SameGrow DEF SameCerts
<1>5. CutInv'
  BY <1>1, <1>2, <1>4, CutKept
<1> QED BY <1>1, <1>2, <1>3, <1>4, <1>5, AdminMoves

-----------------------------------------------------------------------------
(***************************************************************************)
(* The steps of a request.                                                  *)
(***************************************************************************)
LEMMA BootKept ==
  ASSUME Inv, NEW c \in Cert, NEW p \in PC, NEW gs, Moved(c, p, gs), UNCHANGED boot,
         req[c].pc \notin {"admin", "forget"}, p \notin {"admin", "forget"},
         IsEnrolled(reg', Admin) <=> IsEnrolled(reg, Admin)
  PROVE  BootInv'
<1>1. \A d \in Cert : /\ req'[d].pc \in {"admin", "forget"} <=> req[d].pc \in {"admin", "forget"}
                      /\ req'[d].pc \in {"admin", "forget"} => req'[d].pc = req[d].pc
  BY DEF Moved
<1>2. \A d \in Cert : /\ req'[d].pc = "admin" => req[d].pc = "admin"
                      /\ req'[d].pc = "forget" => req[d].pc = "forget"
  BY <1>1
<1>3. BootstrapMatches'
  BY DEF Inv, BootInv, BootstrapMatches
<1> QED BY <1>1, <1>2, <1>3 DEF Inv, BootInv

LEMMA QuietMoves ==
  ASSUME Inv, NEW c \in Cert, NEW p \in PC, NEW gs \in SUBSET Group, Moved(c, p, gs),
         UNCHANGED <<scenario, Stores, revoking>>,
         req[c].pc \notin Done \cup {"admin"}, p \notin {"admin", "forget", "ok"},
         ByPassword(c)', Names(c)', p = "create" => ~scenario.locked,
         p # "refused" => \A g \in gs : G!Exists(groups, g) \/ g \in past.deleted
  PROVE  Inv'
<1>1. UNCHANGED <<reg, tokens, users, groups, boot, issued, past>>
  BY DEF Stores
<1>2. Types'
  BY <1>1 DEF Inv, Types, Moved
<1>3. TokensGrow /\ GroupsGrow /\ CredentialInv'
  BY <1>1, SameGrow DEF Inv, CredentialInv
<1>4. BootInv'
  <2>1. req[c].pc \notin {"admin", "forget"} /\ (IsEnrolled(reg', Admin) <=> IsEnrolled(reg, Admin))
    BY <1>1 DEF Done
  <2> QED BY <1>1, <2>1, BootKept
<1>5. Spent(c)'
  BY DEF Spent, Moved
<1> QED BY <1>1, <1>2, <1>3, <1>4, <1>5, RequestMoves

LEMMA ArriveStep ==
  ASSUME Inv, NEW c \in Cert, Arrive(c), UNCHANGED scenario
  PROVE  Inv'
<1>1. PICK p \in {"verify", "refused", "consume", "find"} :
        /\ Goto(c, p) /\ UNCHANGED <<Stores, revoking>> /\ req[c].pc = "new"
        /\ p = "consume" => In(c).cn = Admin
        /\ p = "find" => In(c).cn # Admin
  BY DEF Arrive, At
<1>2. Moved(c, p, req[c].grants) /\ req[c].grants \in SUBSET Group
  BY <1>1, GotoMoves, RequestTypes DEF Inv, Types, PC
<1>3. ByPassword(c)' /\ Names(c)'
  BY <1>1, <1>2 DEF Moved, ByPassword, Names, In
<1> QED BY SMT, <1>1, <1>2, <1>3, QuietMoves DEF Done, PC, Inv, GrantInv

LEMMA RateLimitedStep ==
  ASSUME Inv, NEW c \in Cert, RateLimited(c), UNCHANGED scenario
  PROVE  Inv'
<1>1. Goto(c, "refused") /\ UNCHANGED <<Stores, revoking>> /\ req[c].pc \in {"verify", "consume", "get"}
  BY DEF RateLimited
<1>2. Moved(c, "refused", req[c].grants) /\ req[c].grants \in SUBSET Group
  BY <1>1, GotoMoves, RequestTypes DEF Inv, Types, PC
<1>3. ByPassword(c)' /\ Names(c)'
  BY <1>1, <1>2 DEF Moved, ByPassword, Names, In
<1> QED BY <1>1, <1>2, <1>3, QuietMoves DEF Done, PC

LEMMA VerifyStep ==
  ASSUME Inv, NEW c \in Cert, Verify(c), UNCHANGED scenario
  PROVE  Inv'
<1>1. PICK p \in {"groups", "refused"} :
        /\ Goto(c, p) /\ UNCHANGED <<Stores, revoking>> /\ req[c].pc = "verify"
        /\ p = "groups" => /\ In(c).cn # Admin /\ In(c).basic = In(c).cn
                           /\ users[In(c).cn].exists
  BY DEF Verify, At, C!Authenticates
<1>2. Moved(c, p, req[c].grants) /\ req[c].grants \in SUBSET Group
  BY <1>1, GotoMoves, RequestTypes DEF Inv, Types, PC
<1>3. ByPassword(c)' /\ Names(c)'
  BY <1>1, <1>2 DEF Moved, ByPassword, Names, In, Stores
<1> QED BY <1>1, <1>2, <1>3, QuietMoves DEF Done, PC, Inv, GrantInv

LEMMA AccountGroupsStep ==
  ASSUME Inv, NEW c \in Cert, AccountGroups(c), UNCHANGED scenario
  PROVE  Inv'
<1> DEFINE gs == users[In(c).basic].groups
<1>1. /\ UNCHANGED <<Stores, revoking>> /\ req[c].pc = "groups"
      /\ In(c).cn # Admin /\ In(c).basic = In(c).cn /\ users[In(c).cn].exists /\ In(c).cn \in Name
  BY RequestTypes DEF AccountGroups, At, Inv, RequestInv, ByPassword
<1>2. gs \in SUBSET Group
  BY <1>1 DEF Inv, Types, C!UserRecord
<1>3. PICK p \in {"refused", "blocked"} :
        /\ req' = [req EXCEPT ![c].pc = p, ![c].grants = gs]
        /\ p = "blocked" => ~G!FirstMissing(groups, gs)
  BY DEF AccountGroups
<1> HIDE DEF gs
<1>4. Moved(c, p, gs)
  BY <1>2, <1>3, GrantsMove DEF Inv, Types, PC
<1>5. ByPassword(c)' /\ Names(c)'
  BY <1>1, <1>3, <1>4 DEF Moved, ByPassword, Names, In, Stores
<1>6. p # "refused" => \A g \in gs : G!Exists(groups, g)
  BY <1>3 DEF G!FirstMissing
<1> QED BY <1>1, <1>2, <1>3, <1>4, <1>5, <1>6, QuietMoves DEF Done, PC

LEMMA CheckBlockedStep ==
  ASSUME Inv, NEW c \in Cert, CheckBlocked(c), UNCHANGED scenario
  PROVE  Inv'
<1>1. PICK p \in {"rotate", "refused"} :
        Goto(c, p) /\ UNCHANGED <<Stores, revoking>> /\ req[c].pc = "blocked"
  BY DEF CheckBlocked, At
<1>2. Moved(c, p, req[c].grants) /\ req[c].grants \in SUBSET Group
  BY <1>1, GotoMoves, RequestTypes DEF Inv, Types, PC
<1>3. ByPassword(c)' /\ Names(c)'
  BY <1>1, <1>2 DEF Moved, ByPassword, Names, In, Stores, Inv, RequestInv
<1> QED BY <1>1, <1>2, <1>3, QuietMoves DEF Done, PC, Inv, GrantInv

LEMMA FindStep ==
  ASSUME Inv, NEW c \in Cert, Find(c), UNCHANGED scenario
  PROVE  Inv'
<1>1. PICK p \in {"conflict", "create", "refused", "get"} :
        /\ Goto(c, p) /\ UNCHANGED <<Stores, revoking>> /\ req[c].pc = "find"
        /\ p = "create" => ~scenario.locked
        /\ p = "get" => scenario.locked
  BY DEF Find, At
<1>2. Moved(c, p, req[c].grants) /\ req[c].grants \in SUBSET Group
  BY <1>1, GotoMoves, RequestTypes DEF Inv, Types, PC
<1>3. In(c).cn # Admin
  BY <1>1 DEF Inv, RequestInv, Names
<1>4. ByPassword(c)' /\ Names(c)'
  BY <1>1, <1>2, <1>3 DEF Moved, ByPassword, Names, In, Stores
<1> QED BY SMT, <1>1, <1>2, <1>4, QuietMoves DEF Done, PC, Inv, GrantInv

LEMMA GetTokenStep ==
  ASSUME Inv, NEW c \in Cert, GetToken(c), UNCHANGED scenario
  PROVE  Inv'
<1> DEFINE known == In(c).secret \in Token /\ tokens[In(c).secret].minted
           gs    == IF known THEN tokens[In(c).secret].groups ELSE {}
<1>1. /\ UNCHANGED <<Stores, revoking>> /\ req[c].pc = "get"
      /\ In(c).cn # Admin /\ scenario.locked
  BY DEF GetToken, At, Inv, RequestInv, Names
<1>2. gs \in SUBSET Group
  BY DEF Inv, Types, C!TokenRecord
<1>3. PICK p \in {"refused", "spend"} :
        /\ req' = [req EXCEPT ![c].pc = p, ![c].grants = gs]
        /\ p = "spend" => ~G!FirstMissing(groups, gs)
  BY DEF GetToken
<1> HIDE DEF gs
<1>4. Moved(c, p, gs)
  BY <1>2, <1>3, GrantsMove DEF Inv, Types, PC
<1>5. ByPassword(c)' /\ Names(c)'
  BY <1>1, <1>3, <1>4 DEF Moved, ByPassword, Names, In, Stores
<1>6. p # "refused" => \A g \in gs : G!Exists(groups, g)
  BY <1>3 DEF G!FirstMissing
<1> QED BY <1>1, <1>2, <1>3, <1>4, <1>5, <1>6, QuietMoves DEF Done, PC

LEMMA ValidateStep ==
  ASSUME Inv, NEW c \in Cert, ValidateAndConsume(c), UNCHANGED scenario
  PROVE  Inv'
<1> DEFINE t == In(c).secret
           ok == t \in Token /\ C!MayConsume(tokens[t], In(c).cn)
<1>1. /\ UNCHANGED <<reg, users, groups, boot, issued, past, revoking>> /\ req[c].pc = "spend"
      /\ In(c).cn # Admin /\ scenario.locked /\ In(c).cn \in Name
      /\ tokens \in [Token -> C!TokenRecord]
  BY RequestTypes DEF ValidateAndConsume, At, Inv, RequestInv, Names, Types
<1>2. CASE ~ok
  <2>1. Goto(c, "refused") /\ tokens' = tokens
    BY <1>2 DEF ValidateAndConsume
  <2>2. Moved(c, "refused", req[c].grants) /\ req[c].grants \in SUBSET Group
    BY <2>1, GotoMoves, RequestTypes DEF Inv, Types, PC
  <2>3. ByPassword(c)' /\ Names(c)'
    BY <2>2 DEF Moved, ByPassword, Names, In
  <2> QED BY <1>1, <2>1, <2>2, <2>3, QuietMoves DEF Done, PC, Stores
<1>3. CASE ok
  <2> DEFINE q == [tokens[t] EXCEPT !.used = TRUE, !.used_by = In(c).cn]
  <2>1. /\ Goto(c, "create") /\ tokens' = [tokens EXCEPT ![t] = q]
        /\ t \in Token /\ tokens[t].minted /\ ~tokens[t].used /\ tokens[t].bound \in {NoName, In(c).cn}
    BY <1>1, <1>3 DEF ValidateAndConsume, C!ApplyConsumed, C!MayConsume, C!Usable
  <2>2. q \in C!TokenRecord /\ q.used /\ q.minted = tokens[t].minted /\ q.bound = tokens[t].bound
    <3>1. tokens[t] \in C!TokenRecord /\ In(c).cn \in Name
      BY <1>1, <2>1
    <3> QED BY <3>1, ConsumedFacts
  <2> HIDE DEF q
  <2>3. tokens' \in [Token -> C!TokenRecord] /\ tokens'[t] = q /\ \A u \in Token : u # t => tokens'[u] = tokens[u]
    BY <1>1, <2>1, <2>2
  <2>4. Moved(c, "create", req[c].grants) /\ req[c].grants \in SUBSET Group
    BY <2>1, GotoMoves, RequestTypes DEF Inv, Types, PC
  <2>5. \A d \in Cert : In(d)' = In(d)
    BY <2>4 DEF Moved, In
  <2>6. ByPassword(c)' /\ Names(c)'
    BY <1>1, <2>4, <2>5 DEF Moved, ByPassword, Names
  <2>7. Spent(c)'
    <3>1. \A r \in issued : r.by = "token" => r.secret # t
      BY <2>1 DEF Inv, IssuedInv
    <3>2. \A d \in Cert : d # c /\ req[d].pc = "create" => In(d).secret # t
      BY <1>1, <2>1 DEF Inv, RequestInv, Spent
    <3>3. tokens'[t].used /\ tokens'[t].bound \in {NoName, In(c).cn}
      BY <2>1, <2>2, <2>3
    <3> QED BY SMT, <1>1, <2>1, <2>4, <2>5, <3>1, <3>2, <3>3 DEF Spent, Moved
  <2>8. Types' /\ TokensGrow /\ CredentialInv'
    <3>1. Types'
      BY <1>1, <2>3, <2>4 DEF Inv, Types, Moved
    <3>2. TokensGrow
      BY <2>1, <2>3 DEF TokensGrow
    <3>3. CredentialInv'
      BY <1>1, <2>1, <2>2, <2>3 DEF Inv, CredentialInv
    <3> QED BY <3>1, <3>2, <3>3
  <2>9. GroupsGrow /\ BootInv'
    BY <1>1, <2>4, SameGrow, BootKept DEF PC
  <2>10. \A g \in req[c].grants : G!Exists(groups, g) \/ g \in past.deleted
    BY <1>1 DEF Inv, GrantInv
  <2> QED BY <1>1, <2>4, <2>6, <2>7, <2>8, <2>9, <2>10, RequestMoves DEF Done, PC
<1> QED BY <1>2, <1>3

LEMMA ConsumeStep ==
  ASSUME Inv, NEW c \in Cert, ConsumeBootstrap(c), UNCHANGED scenario
  PROVE  Inv'
<1>1. /\ UNCHANGED <<reg, tokens, users, groups, issued, past, revoking>> /\ req[c].pc = "consume"
      /\ In(c).cn = Admin /\ boot.lock = Free /\ boot \in Boot
  BY DEF ConsumeBootstrap, At, Inv, RequestInv, Names, Types
<1>2. CASE ~(boot.outstanding /\ In(c).secret = Bootstrap)
  <2>1. Goto(c, "refused") /\ boot' = boot
    BY <1>2 DEF ConsumeBootstrap
  <2>2. Moved(c, "refused", req[c].grants) /\ req[c].grants \in SUBSET Group
    BY <2>1, GotoMoves, RequestTypes DEF Inv, Types, PC
  <2>3. ByPassword(c)' /\ Names(c)'
    BY <2>2 DEF Moved, ByPassword, Names, In
  <2> QED BY <1>1, <2>1, <2>2, <2>3, QuietMoves DEF Done, PC, Stores
<1>3. CASE boot.outstanding /\ In(c).secret = Bootstrap
  <2>1. Goto(c, "admin") /\ boot' = [boot EXCEPT !.lock = c]
    BY <1>3 DEF ConsumeBootstrap
  <2>2. boot' \in Boot /\ boot'.lock = c /\ boot'.outstanding = boot.outstanding /\ boot'.file = boot.file
    BY <1>1, <2>1 DEF Boot
  <2>3. Moved(c, "admin", req[c].grants) /\ req[c].grants \in SUBSET Group
    BY <2>1, GotoMoves, RequestTypes DEF Inv, Types, PC
  <2>4. ByPassword(c)' /\ Names(c)' /\ Spent(c)'
    BY <1>1, <1>3, <2>3 DEF Moved, ByPassword, Names, In, Spent
  <2>5. Types' /\ CredentialInv'
    BY <1>1, <2>2, <2>3 DEF Inv, Types, CredentialInv, Moved
  <2>6. BootInv'
    <3>1. ~IsEnrolled(reg, Admin) /\ boot.file
      BY <1>1, <1>3 DEF Inv, BootInv, BootstrapMatches
    <3>2. \A d \in Cert : req[d].pc \notin {"admin", "forget"}
      BY <1>1, EnrollmentAssumption DEF Inv, BootInv
    <3>3. c # Free
      BY EnrollmentAssumption
    <3> QED BY <1>1, <1>3, <2>2, <2>3, <3>1, <3>2, <3>3 DEF Moved, BootInv, BootstrapMatches
  <2>7. TokensGrow /\ GroupsGrow
    BY <1>1, SameGrow
  <2>8. \A g \in req[c].grants : G!Exists(groups, g) \/ g \in past.deleted
    BY <1>1 DEF Inv, GrantInv
  <2> QED BY <1>1, <2>3, <2>4, <2>5, <2>6, <2>7, <2>8, RequestMoves DEF Done, PC
<1> QED BY <1>2, <1>3

\* Only the admin's own enrollment changes whether the admin is enrolled.
LEMMA OthersEnroll ==
  ASSUME Inv, NEW c \in Cert, NEW by, Record(c, by), In(c).cn # Admin
  PROVE  IsEnrolled(reg', Admin) <=> IsEnrolled(reg, Admin)
<1> DEFINE cn == In(c).cn
           uid == CHOOSE u \in Uid : TRUE
<1>1. cn \in Name /\ uid \in Uid /\ reg \in RegistryState /\ Admin \in Name
  BY RequestTypes, EnrollmentAssumption DEF Inv, Types
<1>2. reg' = ApplyEvent(reg, Enrolled(cn, c, uid))
  BY DEF Record
<1> HIDE DEF cn, uid
<1>3. \A n \in Name : n # cn => reg'.devices[n] = reg.devices[n]
  BY SMT, <1>1, <1>2, EnrolledFacts
<1> QED BY <1>1, <1>3 DEF IsEnrolled, cn

LEMMA EnrollOwnerStep ==
  ASSUME Inv, NEW c \in Cert, EnrollOwner(c), UNCHANGED scenario
  PROVE  Inv'
<1>1. /\ Record(c, "password") /\ Goto(c, "grant") /\ req[c].pc = "rotate"
      /\ UNCHANGED <<tokens, users, groups, boot, past, revoking>>
      /\ In(c).cn # Admin /\ users[In(c).cn].exists
  BY DEF EnrollOwner, At, Inv, RequestInv, ByPassword
<1>2. Moved(c, "grant", req[c].grants)
  BY <1>1, GotoMoves DEF Inv, Types, PC
<1>3. BootInv'
  BY <1>1, <1>2, OthersEnroll, BootKept DEF PC
<1>4. Recorded(c, "grant", "password")
  BY <1>1, <1>2 DEF Recorded
<1> QED BY <1>3, <1>4, RequestRecords DEF Path

LEMMA EnrollNewStep ==
  ASSUME Inv, NEW c \in Cert, EnrollNew(c), UNCHANGED scenario
  PROVE  Inv'
<1>1. /\ req[c].pc = "create" /\ UNCHANGED <<tokens, users, groups, boot, past, revoking>>
      /\ In(c).cn # Admin
  BY DEF EnrollNew, At, Inv, RequestInv, Names
<1>2. CASE IsEnrolled(reg, In(c).cn)
  <2>1. Goto(c, "conflict") /\ UNCHANGED <<reg, issued>>
    BY <1>2 DEF EnrollNew
  <2>2. Moved(c, "conflict", req[c].grants) /\ req[c].grants \in SUBSET Group
    BY <2>1, GotoMoves, RequestTypes DEF Inv, Types, PC
  <2>3. ByPassword(c)' /\ Names(c)'
    BY <2>2 DEF Moved, ByPassword, Names, In
  <2>4. \A g \in req[c].grants : G!Exists(groups, g) \/ g \in past.deleted
    BY <1>1 DEF Inv, GrantInv
  <2> QED BY <1>1, <2>1, <2>2, <2>3, <2>4, QuietMoves DEF Done, PC, Stores
<1>3. CASE ~IsEnrolled(reg, In(c).cn)
  <2>1. PICK by \in {"token", "open"} :
          Record(c, by) /\ Goto(c, "grant") /\ (by = "token" => scenario.locked)
    BY <1>3 DEF EnrollNew
  <2>2. Moved(c, "grant", req[c].grants)
    BY <2>1, GotoMoves DEF Inv, Types, PC
  <2>3. BootInv'
    BY <1>1, <2>1, <2>2, OthersEnroll, BootKept DEF PC
  <2>4. Recorded(c, "grant", by)
    BY <1>1, <1>3, <2>1, <2>2 DEF Recorded
  <2> QED BY <2>1, <2>3, <2>4, RequestRecords DEF Path
<1> QED BY <1>2, <1>3

LEMMA EnrollAdminStep ==
  ASSUME Inv, NEW c \in Cert, EnrollAdmin(c), UNCHANGED scenario
  PROVE  Inv'
<1>1. /\ req[c].pc = "admin" /\ UNCHANGED <<tokens, users, groups, past, revoking>>
      /\ In(c).cn = Admin /\ In(c).secret = Bootstrap /\ ~IsEnrolled(reg, Admin)
      /\ boot.lock = c
  BY DEF EnrollAdmin, At, Inv, RequestInv, Names, BootInv
<1>2. Record(c, "bootstrap") /\ Goto(c, "forget") /\ boot' = boot
  BY <1>1 DEF EnrollAdmin
<1>3. Moved(c, "forget", req[c].grants)
  BY <1>2, GotoMoves DEF Inv, Types, PC
<1>4. IsEnrolled(reg', Admin)
  <2> DEFINE uid == CHOOSE u \in Uid : TRUE
  <2>1. uid \in Uid /\ reg \in RegistryState /\ Admin \in Name
    BY EnrollmentAssumption DEF Inv, Types
  <2>2. reg' = ApplyEvent(reg, Enrolled(Admin, c, uid))
    BY <1>1, <1>2 DEF Record
  <2> HIDE DEF uid
  <2>3. reg'.devices[Admin].cert = c
    BY SMT, <2>1, <2>2, EnrolledFacts
  <2> QED BY <2>3, NoCertAssumption DEF IsEnrolled
<1>5. BootInv'
  <2>1. \A d \in Cert : d # c => req[d].pc \notin {"admin", "forget"} /\ req'[d] = req[d]
    BY <1>1, <1>3 DEF Inv, BootInv, Moved
  <2>2. c # Free
    BY EnrollmentAssumption
  <2> QED BY <1>1, <1>2, <1>3, <1>4, <2>1, <2>2 DEF Moved, BootInv, BootstrapMatches
<1>6. Recorded(c, "forget", "bootstrap")
  BY <1>1, <1>2, <1>3 DEF Recorded
<1> QED BY <1>5, <1>6, RequestRecords DEF Path

LEMMA ForgetStep ==
  ASSUME Inv, NEW c \in Cert, ForgetBootstrap(c), UNCHANGED scenario
  PROVE  Inv'
<1>1. /\ req[c].pc = "forget" /\ Goto(c, "grant") /\ boot \in Boot /\ boot.lock = c
      /\ UNCHANGED <<reg, tokens, users, groups, issued, past, revoking>>
      /\ IsEnrolled(reg, Admin)
  BY DEF ForgetBootstrap, At, Inv, Types, BootInv
<1>2. boot' \in Boot /\ boot'.lock = Free /\ boot'.outstanding = FALSE
  <2>1. PICK file \in {FALSE, boot.file} : boot' = [outstanding |-> FALSE, file |-> file, lock |-> Free]
    BY DEF ForgetBootstrap
  <2> QED BY <1>1, <2>1 DEF Boot
<1>3. Moved(c, "grant", req[c].grants) /\ req[c].grants \in SUBSET Group
  BY <1>1, GotoMoves, RequestTypes DEF Inv, Types, PC
<1>4. ByPassword(c)' /\ Names(c)' /\ Spent(c)'
  BY <1>3 DEF Moved, ByPassword, Names, In, Spent
<1>5. Types' /\ CredentialInv'
  BY <1>1, <1>2, <1>3 DEF Inv, Types, CredentialInv, Moved
<1>6. BootInv'
  <2>1. \A d \in Cert : req'[d].pc \notin {"admin", "forget"} /\ d # Free
    BY SMT, <1>1, <1>3, EnrollmentAssumption DEF Inv, BootInv, Moved
  <2> QED BY <1>1, <1>2, <2>1 DEF BootInv, BootstrapMatches
<1>7. TokensGrow /\ GroupsGrow
  BY <1>1, SameGrow
<1>8. \A g \in req[c].grants : G!Exists(groups, g) \/ g \in past.deleted
  BY <1>1 DEF Inv, GrantInv
<1> QED BY <1>1, <1>3, <1>4, <1>5, <1>6, <1>7, <1>8, RequestMoves DEF Done, PC

LEMMA GrantStep ==
  ASSUME Inv, NEW c \in Cert, Grant(c), UNCHANGED scenario
  PROVE  Inv'
<1> DEFINE gs == req[c].grants
<1>1. /\ req[c].pc = "grant" /\ Goto(c, "ok") /\ groups \in G!GroupState
      /\ UNCHANGED <<reg, tokens, users, boot, issued, past, revoking>>
      /\ groups' = IF G!FirstMissing(groups, gs) THEN groups ELSE G!Granted(groups, In(c).cn, gs)
      /\ In(c).cn \in Name /\ gs \in SUBSET Group
  BY RequestTypes DEF Grant, At, Inv, Types
<1>2. Moved(c, "ok", gs)
  BY <1>1, GotoMoves DEF Inv, Types, PC
<1>3. \A g \in gs : G!Exists(groups, g) \/ g \in past.deleted
  BY <1>1 DEF Inv, GrantInv
<1> HIDE DEF gs
<1>4. /\ groups' \in G!GroupState /\ GroupsGrow
      /\ \A g \in Group : G!Exists(groups, g) => G!Exists(groups', g)
      /\ G!FirstMissing(groups, gs) \/ \A g \in gs : groups'.members[In(c).cn][g] = "Both"
  <2>1. CASE G!FirstMissing(groups, gs)
    BY <1>1, <2>1, SameGrow
  <2>2. CASE ~G!FirstMissing(groups, gs)
    <3>1. groups' = G!Granted(groups, In(c).cn, gs)
      BY <1>1, <2>2
    <3>2. /\ groups' \in G!GroupState /\ groups'.bitpos = groups.bitpos
          /\ \A g \in gs : groups'.members[In(c).cn][g] = "Both"
          /\ \A m \in Name, g \in Group : groups.members[m][g] = "Both" => groups'.members[m][g] = "Both"
      BY SMT, <1>1, <3>1, GrantedFacts
    <3> QED BY <3>2 DEF GroupsGrow, G!Exists
  <2> QED BY <2>1, <2>2
<1>5. gs \cap past.deleted = {} => \A g \in gs : groups'.members[In(c).cn][g] = "Both"
  BY <1>3, <1>4 DEF G!FirstMissing
<1>6. ByPassword(c)' /\ Names(c)' /\ Spent(c)'
  BY <1>2 DEF Moved, ByPassword, Names, In, Spent
<1>7. Types' /\ CredentialInv'
  BY <1>1, <1>2, <1>4 DEF Inv, Types, CredentialInv, Moved
<1>8. BootInv'
  BY <1>1, <1>2, BootKept DEF PC
<1>9. TokensGrow
  BY <1>1, SameGrow
<1>10. \A g \in gs : G!Exists(groups', g) \/ g \in past.deleted
  BY <1>1, <1>3, <1>4
<1>11. "ok" \in PC /\ "ok" \in Done /\ gs = req[c].grants /\ gs \in SUBSET Group
       /\ UNCHANGED <<scenario, reg, users, issued, revoking, past>>
  BY <1>1 DEF PC, Done, gs
<1> QED BY <1>2, <1>4, <1>5, <1>6, <1>7, <1>8, <1>9, <1>10, <1>11, RequestMoves

LEMMA StoreFailsStep ==
  ASSUME Inv, NEW c \in Cert, StoreFails(c), UNCHANGED scenario
  PROVE  Inv'
<1>1. /\ scenario.failures /\ req[c].pc \in {"rotate", "admin", "spend", "create", "grant"}
      /\ UNCHANGED <<reg, tokens, users, groups, issued, past, revoking>> /\ boot \in Boot
      /\ req[c].pc = "admin" <=> boot.lock = c
  BY DEF StoreFails, Inv, Types, BootInv
<1>2. PICK p \in {"ok", "refused"} : Goto(c, p) /\ (p = "ok" => req[c].pc = "grant")
                                     /\ (req[c].pc = "grant" => p = "ok")
  BY DEF StoreFails, At
<1>3. Moved(c, p, req[c].grants) /\ req[c].grants \in SUBSET Group
  BY <1>2, GotoMoves, RequestTypes DEF Inv, Types, PC
<1>4. boot' \in Boot /\ BootInv'
  <2>1. CASE req[c].pc = "admin"
    <3>1. boot' = [boot EXCEPT !.lock = Free]
      BY <1>1, <2>1 DEF StoreFails
    <3>2. boot' \in Boot /\ boot'.lock = Free /\ boot'.outstanding = boot.outstanding /\ boot'.file = boot.file
      BY <1>1, <3>1 DEF Boot
    <3>3. boot.outstanding /\ boot.file /\ ~IsEnrolled(reg, Admin)
      BY <2>1 DEF Inv, BootInv
    <3>4. \A d \in Cert : req'[d].pc \notin {"admin", "forget"} /\ d # Free
      <4>1. \A d \in Cert : d # Free /\ (d # c => req[d].pc \notin {"admin", "forget"})
        BY <1>1, <2>1, EnrollmentAssumption DEF Inv, BootInv
      <4>2. req'[c].pc = p /\ \A d \in Cert : d # c => req'[d] = req[d]
        BY <1>3 DEF Moved
      <4> QED BY <1>2, <4>1, <4>2
    <3> QED BY <1>1, <3>2, <3>3, <3>4 DEF BootInv, BootstrapMatches
  <2>2. CASE req[c].pc # "admin"
    <3>1. boot' = boot
      BY <1>1, <2>2 DEF StoreFails
    <3> QED BY <1>1, <1>2, <1>3, <2>2, <3>1, BootKept DEF PC
  <2> QED BY <2>1, <2>2
<1>5. ByPassword(c)' /\ Names(c)' /\ Spent(c)'
  BY <1>2, <1>3 DEF Moved, ByPassword, Names, In, Spent
<1>6. Types' /\ CredentialInv'
  BY <1>1, <1>3, <1>4 DEF Inv, Types, CredentialInv, Moved
<1>7. TokensGrow /\ GroupsGrow
  BY <1>1, SameGrow
<1>8. \A g \in req[c].grants : G!Exists(groups, g) \/ g \in past.deleted
  BY <1>1 DEF Inv, GrantInv
<1>9. p \in PC /\ p \in Done /\ scenario.failures
      /\ UNCHANGED <<scenario, reg, users, issued, revoking, past>> /\ groups' = groups
  BY <1>1, <1>2 DEF PC, Done
<1> QED BY <1>3, <1>4, <1>5, <1>6, <1>7, <1>8, <1>9, RequestMoves

LEMMA CrashStep ==
  ASSUME Inv, Crash, UNCHANGED scenario
  PROVE  Inv'
<1>1. /\ boot' = BootstrapAtStart /\ revoking' = Idle /\ UNCHANGED <<reg, tokens, users, issued, past>>
      /\ req' = [c \in Cert |-> IF req[c].pc \in {"new", "ok", "conflict"} THEN req[c]
                                ELSE [req[c] EXCEPT !.pc = "refused"]]
      /\ req \in [Cert -> Request] /\ groups \in G!GroupState
  BY DEF Crash, Inv, Types
<1>2. req' \in [Cert -> Request]
  BY SMT, <1>1 DEF Request, PC
<1>3. \A c \in Cert : /\ req'[c].in = req[c].in /\ req'[c].grants = req[c].grants
                      /\ req'[c].pc = IF req[c].pc \in {"new", "ok", "conflict"} THEN req[c].pc
                                      ELSE "refused"
  BY <1>1 DEF Request
<1>4. /\ boot' \in Boot /\ boot'.lock = Free /\ boot'.outstanding = ~IsEnrolled(reg, Admin)
      /\ boot'.outstanding => boot'.file
  BY <1>1 DEF BootstrapAtStart, Boot
<1>5. revoking' \in Revoking /\ revoking'.pc = "idle"
  BY <1>1 DEF Idle, Revoking
<1>6. groups' \in G!GroupState /\ GroupsGrow
  <2>1. CASE UNCHANGED groups
    BY <1>1, <2>1, SameGrow
  <2>2. ASSUME NEW c \in Cert, NEW gs \in SUBSET req[c].grants,
               groups' = G!Granted(groups, In(c).cn, gs)
        PROVE  groups' \in G!GroupState /\ GroupsGrow
    <3>1. In(c).cn \in Name /\ gs \in SUBSET Group
      BY RequestTypes DEF Inv
    <3>2. /\ groups' \in G!GroupState /\ groups'.bitpos = groups.bitpos
          /\ \A m \in Name, g \in Group : groups.members[m][g] = "Both" => groups'.members[m][g] = "Both"
      BY SMT, <1>1, <2>2, <3>1, GrantedFacts
    <3> QED BY <3>2 DEF GroupsGrow, G!Exists
  <2> QED BY <2>1, <2>2 DEF Crash
<1>7. Types' /\ CredentialInv'
  BY <1>1, <1>2, <1>4, <1>5, <1>6 DEF Inv, Types, CredentialInv
<1>8. RequestInv'
  <2>1. \A c \in Cert : req'[c].pc \in {"new", "ok", "conflict", "refused"}
    BY <1>3
  <2> QED BY <2>1 DEF RequestInv, ByPassword, Names, Spent
<1>9. BootInv'
  BY SMTT(30), <1>1, <1>3, <1>4, EnrollmentAssumption DEF BootInv, BootstrapMatches
<1>10. IssuedInv'
  <2>1. ASSUME NEW r \in issued
        PROVE  /\ req'[r.cert].pc \in Done
               /\ r.cn = req'[r.cert].in.cn /\ r.grants = req'[r.cert].grants
    BY <1>3, <2>1, IssueTypes DEF Inv, IssuedInv, Done, In
  <2> QED BY SMT, <1>1, <2>1 DEF Inv, IssuedInv, In, TokensEnrollOnce, OnlyOwnersReplace, AdminEnrolledOnce
<1>11. CutInv'
  BY <1>1, <1>5 DEF Inv, CutInv, Gone, Replaced
<1>12. GrantInv'
  <2>1. ASSUME NEW c \in Cert, req'[c].pc # "refused", NEW g \in req'[c].grants
        PROVE  G!Exists(groups', g) \/ g \in past.deleted
    <3>1. req[c].pc # "refused" /\ g \in req[c].grants /\ g \in Group
      BY <1>3, <2>1, RequestTypes DEF Inv
    <3> QED BY <1>1, <1>6, <3>1 DEF Inv, GrantInv, GroupsGrow
  <2>2. ASSUME ~scenario.failures, NEW r \in issued, req'[r.cert].pc = "ok",
               r.grants \cap past.deleted = {}, NEW g \in r.grants
        PROVE  groups'.members[r.cn][g] = "Both"
    <3>1. r.cn \in Name /\ g \in Group /\ req[r.cert].pc = "ok"
      BY <1>3, <2>2, IssueTypes DEF Inv
    <3>2. groups.members[r.cn][g] = "Both"
      BY <2>2, <3>1 DEF Inv, GrantInv, GrantsApplied, At
    <3> QED BY <1>1, <1>6, <2>2, <3>1, <3>2 DEF GroupsGrow
  <2> QED BY <1>1, <2>1, <2>2 DEF GrantInv, GrantsApplied, At
<1> QED BY <1>7, <1>8, <1>9, <1>10, <1>11, <1>12 DEF Inv

-----------------------------------------------------------------------------
LEMMA InvInit == Init => Inv
<1> SUFFICES ASSUME Init PROVE Inv
  OBVIOUS
<1>1. /\ reg = EmptyRegistry /\ tokens = [t \in Token |-> C!NoToken] /\ users = [n \in Name |-> C!NoUser]
      /\ groups = G!FreshState /\ boot = [outstanding |-> TRUE, file |-> TRUE, lock |-> Free]
      /\ revoking = Idle /\ issued = {} /\ past = [cut |-> {}, deleted |-> {}] /\ scenario \in Scenarios
  BY DEF Init
<1>2. reg \in RegistryState /\ \A n \in Name : ~IsEnrolled(reg, n)
  BY <1>1 DEF EmptyRegistry, RegistryState, DeviceRecord, IsEnrolled
<1>3. tokens \in [Token -> C!TokenRecord] /\ \A t \in Token : ~tokens[t].used
  BY <1>1 DEF C!NoToken, C!TokenRecord
<1>4. users \in [Name -> C!UserRecord] /\ \A n \in Name : ~users[n].revoked
  BY <1>1 DEF C!NoUser, C!UserRecord
<1>5. groups \in G!GroupState
  BY <1>1 DEF G!FreshState, G!GroupState, G!Membership, G!NoMember, G!NoBitpos
<1>6. boot \in Boot /\ revoking \in Revoking /\ past \in Past /\ revoking.pc = "idle"
      /\ boot.lock = Free /\ boot.outstanding /\ boot.file /\ past.cut = {}
  BY <1>1 DEF Boot, Revoking, Past, Idle
<1>7. req \in [Cert -> Request] /\ \A c \in Cert : req[c].pc = "new" /\ req[c].grants = {}
  <2>1. scenario.inputs \subseteq Input
    BY <1>1, EnrollmentAssumption
  <2>2. req \in [Cert -> [pc: {"new"}, in: scenario.inputs, grants: {{}}]]
    BY DEF Init
  <2> QED BY <2>1, <2>2 DEF Request, PC
<1>8. Types
  BY <1>1, <1>2, <1>3, <1>4, <1>5, <1>6, <1>7 DEF Types
<1>9. RequestInv /\ CredentialInv
  BY <1>3, <1>4, <1>7 DEF RequestInv, CredentialInv, ByPassword, Names, Spent
<1>10. BootInv
  BY <1>2, <1>6, <1>7, EnrollmentAssumption DEF BootInv, BootstrapMatches
<1>11. IssuedInv /\ CutInv /\ GrantInv
  BY <1>1, <1>6, <1>7 DEF IssuedInv, CutInv, GrantInv, TokensEnrollOnce, OnlyOwnersReplace,
                          AdminEnrolledOnce, GrantsApplied
<1> QED BY <1>8, <1>9, <1>10, <1>11 DEF Inv

LEMMA InvStutter == Inv /\ UNCHANGED vars => Inv'
<1> SUFFICES ASSUME Inv, UNCHANGED vars PROVE Inv'
  OBVIOUS
<1>0. /\ scenario' = scenario /\ reg' = reg /\ tokens' = tokens /\ users' = users /\ groups' = groups
      /\ boot' = boot /\ req' = req /\ revoking' = revoking /\ issued' = issued /\ past' = past
  BY DEF vars
<1>1. Types' /\ CredentialInv'
  BY <1>0 DEF Inv, Types, CredentialInv
<1>2. BootInv'
  BY <1>0 DEF Inv, BootInv, BootstrapMatches
<1>3. RequestInv'
  <2> SUFFICES ASSUME NEW c \in Cert PROVE ByPassword(c)' /\ Names(c)' /\ Spent(c)'
    BY DEF RequestInv
  <2>1. ByPassword(c) /\ Names(c) /\ Spent(c)
    BY DEF Inv, RequestInv
  <2>2. ByPassword(c)' /\ Names(c)'
    BY <1>0, <2>1 DEF ByPassword, Names, In
  <2>3. Spent(c)'
    BY <1>0, <2>1 DEF Spent, In
  <2> QED BY <2>2, <2>3
<1>4. IssuedInv'
  <2>1. IssuedInv
    BY DEF Inv
  <2>2. TokensEnrollOnce' /\ OnlyOwnersReplace' /\ AdminEnrolledOnce'
    BY <1>0, <2>1 DEF IssuedInv, TokensEnrollOnce, OnlyOwnersReplace, AdminEnrolledOnce, In
  <2> QED BY <1>0, <2>1, <2>2 DEF IssuedInv, In
<1>5. CutInv'
  BY <1>0 DEF Inv, CutInv, Gone, Replaced, In
<1>6. GrantInv'
  BY <1>0 DEF Inv, GrantInv, GrantsApplied, In, At
<1> QED BY <1>1, <1>2, <1>3, <1>4, <1>5, <1>6 DEF Inv

LEMMA InvNext == Inv /\ [Next]_vars => Inv'
<1> SUFFICES ASSUME Inv, [Next]_vars PROVE Inv'
  OBVIOUS
<1>1. CASE UNCHANGED vars
  BY <1>1, InvStutter
<1>2. CASE Next
  <2>0. UNCHANGED scenario /\ Steps /\ scenario \in Scenarios
    BY <1>2 DEF Next, Inv, Types
  <2>1. ASSUME NEW c \in Cert, Step(c) PROVE Inv'
    BY SMTT(30), <2>0, <2>1, ArriveStep, RateLimitedStep, StoreFailsStep, VerifyStep, AccountGroupsStep,
       CheckBlockedStep, EnrollOwnerStep, ConsumeStep, EnrollAdminStep, ForgetStep, FindStep,
       GetTokenStep, ValidateStep, EnrollNewStep, GrantStep DEF Step
  <2>2. scenario.tokens \subseteq Token /\ scenario.accounts \subseteq Name
        /\ scenario.bindings \subseteq Name \cup {NoName}
    BY <2>0, EnrollmentAssumption
  <2>3. ASSUME NEW t \in scenario.tokens, NEW bound \in scenario.bindings, NEW gs \in SUBSET Group,
               MintToken(t, bound, gs)
        PROVE  Inv'
    BY <2>0, <2>2, <2>3, MintTokenStep
  <2>4. ASSUME NEW t \in scenario.tokens, RevokeToken(t) PROVE Inv'
    BY <2>0, <2>2, <2>4, RevokeTokenStep
  <2>5. ASSUME NEW n \in scenario.accounts, NEW gs \in SUBSET Group, MintUser(n, gs) PROVE Inv'
    BY <2>0, <2>2, <2>5, MintUserStep
  <2>6. ASSUME NEW n \in Name, RevokeUser(n) \/ BlockDevice(n) \/ UnblockDevice(n) PROVE Inv'
    BY <2>0, <2>6, RevokeUserStep, BlockStep
  <2>7. ASSUME NEW g \in Group, CreateGroup(g) \/ DeleteGroup(g) PROVE Inv'
    BY <2>0, <2>7, GroupStep
  <2>8. CASE FindCurrentCert \/ RevokeCurrentCert \/ Crash
    BY <2>0, <2>8, FindCurrentCertStep, RevokeCurrentCertStep, CrashStep
  <2> QED BY SMT, <2>0, <2>1, <2>3, <2>4, <2>5, <2>6, <2>7, <2>8 DEF Steps
<1> QED BY <1>1, <1>2

LEMMA InvAlways == Spec => []Inv
BY InvInit, InvNext, PTL DEF Spec

(***************************************************************************)
(* sign_client_v2: a token puts one certificate on record, for the name it  *)
(* was bound to, and only the identity's own password replaces one,         *)
(* whatever requests, admin operations and crashes interleave.              *)
(***************************************************************************)
THEOREM IssuedByRightAlways == Spec => []IssuedByRight
<1>1. Inv => IssuedByRight
  <2>1. Types => TypeOK
    BY DEF Types, TypeOK, Boot, Request, PC, Revoking, Issue, Past
  <2> QED BY <2>1 DEF Inv, IssuedInv, IssuedByRight
<1> QED BY <1>1, InvAlways, PTL

(***************************************************************************)
(* bootstrap.rs: the admin identity is enrolled once and by the bootstrap   *)
(* token, which is offered exactly until then, over crashes between the     *)
(* enrollment and the deletion of the file.                                 *)
(***************************************************************************)
THEOREM BootstrapOnceAlways == Spec => []BootstrapOnce
<1>1. Inv => BootstrapOnce
  BY DEF Inv, IssuedInv, BootInv, BootstrapOnce
<1> QED BY <1>1, InvAlways, PTL

(***************************************************************************)
(* Enrollment's groups.grant: the groups that were never deleted are        *)
(* applied, if no append fails.                                             *)
(***************************************************************************)
THEOREM GrantsAppliedAlways == Spec => []GrantsApplied
<1>1. Inv => GrantsApplied
  BY DEF Inv, GrantInv
<1> QED BY <1>1, InvAlways, PTL

(***************************************************************************)
(* revoke_user: once it has answered, no certificate that was issued on the *)
(* account before is accepted, unless a later enrollment replaced it.       *)
(***************************************************************************)
THEOREM RevokedAccountsKeepNoAccessAlways == Spec => []RevokedAccountsKeepNoAccess
<1>1. Inv => RevokedAccountsKeepNoAccess
  BY DEF Inv, CutInv, Gone, Replaced, Access, RevokedAccountsKeepNoAccess
<1> QED BY <1>1, InvAlways, PTL
=============================================================================
