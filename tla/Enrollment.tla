----------------------------- MODULE Enrollment -----------------------------
(***************************************************************************)
(* Certificate enrollment: sign_client_v2 of src/src/marti/enrollment.rs    *)
(* over the registry, the invite tokens, the password accounts, the         *)
(* bootstrap token (src/src/bootstrap.rs) and the group store, with the     *)
(* admin operations of src/src/marti/admin.rs that race it.                 *)
(*                                                                          *)
(* Requests interleave between any two lock acquisitions: a request takes   *)
(* one step per store operation.  Each request signs one certificate, so    *)
(* the request stands for its certificate.  A 429 of the failure limiter    *)
(* can end a request wherever the code asks the limiter.  A crash ends all  *)
(* requests; the stores keep what they have (see Registry and EventLog).    *)
(***************************************************************************)
EXTENDS DeviceRecords

CONSTANTS NoName,      \* no name: no Authorization header, an unbound token
          Token,       \* invite tokens
          Group, Anon, \* groups
          Admin,       \* admin_common_name
          Bootstrap,   \* the bootstrap token
          Password,    \* an account's password
          NoSecret,    \* no secret
          Scenarios,   \* servers and their clients, see Scenario
          MaxBitpos    \* bound: groups created, one after the other

Secret == Token \cup {Bootstrap, Password, NoSecret}

(***************************************************************************)
(* A request: the CSR's common name, the username of its Basic credentials  *)
(* and the secret, in the credentials or, without them, in ?token=.         *)
(***************************************************************************)
Input == [cn: Name, basic: Name \cup {NoName}, secret: Secret]

(***************************************************************************)
(* A server is locked (is_locked_down: enrollment mode Auto) or open.  The *)
(* bounds say what happens to it: the requests that clients make, the names *)
(* that get an account, the tokens that are minted and what they are bound  *)
(* to, and whether an append to an event log can fail.                      *)
(***************************************************************************)
Scenario == [locked: BOOLEAN, inputs: SUBSET Input, accounts: SUBSET Name,
             tokens: SUBSET Token, bindings: SUBSET (Name \cup {NoName}), failures: BOOLEAN]

Free == "free"    \* a lock that nobody holds

ASSUME EnrollmentAssumption ==
  /\ Admin \in Name
  /\ Free \notin Cert
  /\ Uid # {}
  /\ NoName \notin Name
  /\ \A s \in Scenarios :
        /\ DOMAIN s = {"locked", "inputs", "accounts", "tokens", "bindings", "failures"}
        /\ s.locked \in BOOLEAN /\ s.failures \in BOOLEAN
        /\ s.inputs \subseteq Input /\ s.accounts \subseteq Name /\ s.tokens \subseteq Token
        /\ s.bindings \subseteq Name \cup {NoName}
  /\ Bootstrap \notin Token
  /\ MaxBitpos \in Nat

G == INSTANCE GroupRecords
C == INSTANCE Credentials

VARIABLES
  scenario,   \* one of Scenarios, for good
  reg,        \* the device registry
  tokens,     \* the invite tokens
  users,      \* the password accounts
  groups,     \* the group store
  boot,       \* the bootstrap token: in memory, its file, who holds its lock
  req,        \* the requests: [pc, in, grants]
  revoking,   \* revoke_user in progress: [pc, name, cert]
  issued,     \* history: one record per certificate put on record
  past        \* history: names whose account was revoked, groups deleted

vars == <<scenario, reg, tokens, users, groups, boot, req, revoking, issued, past>>

Idle == [pc |-> "idle", name |-> NoName, cert |-> NoCert]

Path == {"password", "bootstrap", "token", "open"}

TypeOK ==
  /\ scenario \in Scenarios
  /\ reg \in RegistryState
  /\ tokens \in [Token -> C!TokenRecord]
  /\ users \in [Name -> C!UserRecord]
  /\ groups \in G!GroupState
  /\ boot \in [outstanding: BOOLEAN, file: BOOLEAN, lock: Cert \cup {Free}]
  /\ req \in [Cert -> [pc: {"new", "verify", "groups", "blocked", "rotate", "consume",
                            "admin", "forget", "find", "get", "spend", "create",
                            "grant", "ok", "refused", "conflict"},
                       in: Input, grants: SUBSET Group]]
  /\ revoking \in [pc: {"idle", "find", "revoke"}, name: Name \cup {NoName},
                   cert: Cert \cup {NoCert}]
  /\ issued \subseteq [cert: Cert, cn: Name, by: Path, secret: Secret, grants: SUBSET Group,
                       replaced: Cert \cup {NoCert}, cut: BOOLEAN]
  /\ past \in [cut: SUBSET Name, deleted: SUBSET Group]

Init ==
  /\ scenario \in Scenarios
  /\ reg = EmptyRegistry
  /\ tokens = [t \in Token |-> C!NoToken]
  /\ users = [n \in Name |-> C!NoUser]
  /\ groups = G!FreshState
  /\ boot = [outstanding |-> TRUE, file |-> TRUE, lock |-> Free]
  /\ req \in [Cert -> [pc: {"new"}, in: scenario.inputs, grants: {{}}]]
  /\ revoking = Idle
  /\ issued = {}
  /\ past = [cut |-> {}, deleted |-> {}]

-----------------------------------------------------------------------------
(***************************************************************************)
(* Steps of a request.                                                      *)
(***************************************************************************)
Stores == <<reg, tokens, users, groups, boot, issued, past>>

At(c, pc)    == req[c].pc = pc
Goto(c, pc)  == req' = [req EXCEPT ![c].pc = pc]
In(c)        == req[c].in

\* enroll_with_client_uid, or enroll_new_with_client_uid after its check.
Record(c, by) ==
  LET cn == In(c).cn
      uid == CHOOSE u \in Uid : TRUE
  IN  /\ reg' = ApplyEvent(reg, Enrolled(cn, c, uid))
      /\ issued' = issued \cup
           {[cert |-> c, cn |-> cn, by |-> by, secret |-> In(c).secret,
             grants |-> req[c].grants, replaced |-> reg.devices[cn].cert,
             cut |-> users[cn].revoked]}

(***************************************************************************)
(* The request arrives: Basic credentials are a password login when the     *)
(* username is an account, else a token for the CSR's own name.             *)
(***************************************************************************)
Arrive(c) ==
  /\ At(c, "new")
  /\ LET in == In(c)
         pc == IF in.basic # NoName /\ users[in.basic].exists THEN "verify"
               ELSE IF in.basic \notin {NoName, in.cn} THEN "refused"
               ELSE IF in.cn = Admin THEN (IF in.secret = NoSecret THEN "refused" ELSE "consume")
               ELSE "find"
     IN  Goto(c, pc)
  /\ UNCHANGED <<Stores, revoking>>

\* state.limiter.is_blocked: too_many_attempts.
RateLimited(c) ==
  /\ req[c].pc \in {"verify", "consume", "get"}
  /\ Goto(c, "refused")
  /\ UNCHANGED <<Stores, revoking>>

-----------------------------------------------------------------------------
(***************************************************************************)
(* The password path.                                                       *)
(***************************************************************************)
Verify(c) ==
  LET in == In(c) IN
  /\ At(c, "verify")
  /\ Goto(c, IF /\ C!Authenticates(users[in.basic], in.secret = Password)
                /\ in.cn = in.basic
                /\ in.cn # Admin
             THEN "groups" ELSE "refused")
  /\ UNCHANGED <<Stores, revoking>>

AccountGroups(c) ==
  LET grants == users[In(c).basic].groups IN
  /\ At(c, "groups")
  /\ req' = [req EXCEPT ![c].pc = IF G!FirstMissing(groups, grants) THEN "refused" ELSE "blocked",
                        ![c].grants = grants]
  /\ UNCHANGED <<Stores, revoking>>

CheckBlocked(c) ==
  /\ At(c, "blocked")
  /\ Goto(c, IF IsRevoked(reg, In(c).cn) THEN "refused" ELSE "rotate")
  /\ UNCHANGED <<Stores, revoking>>

EnrollOwner(c) ==
  /\ At(c, "rotate")
  /\ Record(c, "password")
  /\ Goto(c, "grant")
  /\ UNCHANGED <<tokens, users, groups, boot, past, revoking>>

-----------------------------------------------------------------------------
(***************************************************************************)
(* The admin's path: consume_with holds the token's lock over enroll_new,   *)
(* forgets the token only if that succeeded, and then deletes the file      *)
(* (whose deletion may fail).                                               *)
(***************************************************************************)
ConsumeBootstrap(c) ==
  /\ At(c, "consume")
  /\ boot.lock = Free
  /\ IF boot.outstanding /\ In(c).secret = Bootstrap
     THEN Goto(c, "admin") /\ boot' = [boot EXCEPT !.lock = c]
     ELSE Goto(c, "refused") /\ UNCHANGED boot
  /\ UNCHANGED <<reg, tokens, users, groups, issued, past, revoking>>

EnrollAdmin(c) ==
  /\ At(c, "admin")
  /\ IF IsEnrolled(reg, Admin)
     THEN /\ Goto(c, "conflict")
          /\ boot' = [boot EXCEPT !.lock = Free]
          /\ UNCHANGED <<reg, issued>>
     ELSE Record(c, "bootstrap") /\ Goto(c, "forget") /\ UNCHANGED boot
  /\ UNCHANGED <<tokens, users, groups, past, revoking>>

ForgetBootstrap(c) ==
  /\ At(c, "forget")
  /\ \E file \in {FALSE, boot.file} :
        boot' = [outstanding |-> FALSE, file |-> file, lock |-> Free]
  /\ Goto(c, "grant")
  /\ UNCHANGED <<reg, tokens, users, groups, issued, past, revoking>>

-----------------------------------------------------------------------------
(***************************************************************************)
(* Everyone else: a new identity only, with a token in mode Auto.           *)
(***************************************************************************)
Find(c) ==
  /\ At(c, "find")
  /\ Goto(c, IF IsEnrolled(reg, In(c).cn) THEN "conflict"
             ELSE IF ~scenario.locked THEN "create"
             ELSE IF In(c).secret = NoSecret THEN "refused"
             ELSE "get")
  /\ UNCHANGED <<Stores, revoking>>

\* An unknown token has no groups; validate_and_consume refuses it.
GetToken(c) ==
  LET known  == In(c).secret \in Token /\ tokens[In(c).secret].minted
      grants == IF known THEN tokens[In(c).secret].groups ELSE {}
  IN
  /\ At(c, "get")
  /\ req' = [req EXCEPT ![c].pc = IF G!FirstMissing(groups, grants) THEN "refused" ELSE "spend",
                        ![c].grants = grants]
  /\ UNCHANGED <<Stores, revoking>>

ValidateAndConsume(c) ==
  LET t == In(c).secret
      ok == t \in Token /\ C!MayConsume(tokens[t], In(c).cn)
  IN
  /\ At(c, "spend")
  /\ IF ok THEN tokens' = C!ApplyConsumed(tokens, t, In(c).cn) /\ Goto(c, "create")
     ELSE UNCHANGED tokens /\ Goto(c, "refused")
  /\ UNCHANGED <<reg, users, groups, boot, issued, past, revoking>>

EnrollNew_Replaces(c) ==   \* mutant: relies on the earlier check alone
  /\ At(c, "create")
  /\ Record(c, IF scenario.locked THEN "token" ELSE "open") /\ Goto(c, "grant")
  /\ UNCHANGED <<tokens, users, groups, boot, past, revoking>>

EnrollNew(c) ==
  /\ At(c, "create")
  /\ IF IsEnrolled(reg, In(c).cn)
     THEN Goto(c, "conflict") /\ UNCHANGED <<reg, issued>>
     ELSE Record(c, IF scenario.locked THEN "token" ELSE "open") /\ Goto(c, "grant")
  /\ UNCHANGED <<tokens, users, groups, boot, past, revoking>>

Grant_FirstTimeOnly(c) ==   \* mutant: a device that has groups is skipped
  LET grants == req[c].grants IN
  /\ At(c, "grant")
  /\ groups' = IF G!FirstMissing(groups, grants) \/ Cardinality({r \in issued : r.cn = In(c).cn}) > 1
               THEN groups ELSE G!Granted(groups, In(c).cn, grants)
  /\ Goto(c, "ok")
  /\ UNCHANGED <<reg, tokens, users, boot, issued, past, revoking>>

\* groups.grant: all or nothing; a failure is only logged.
Grant(c) ==
  LET grants == req[c].grants IN
  /\ At(c, "grant")
  /\ groups' = IF G!FirstMissing(groups, grants) THEN groups
               ELSE G!Granted(groups, In(c).cn, grants)
  /\ Goto(c, "ok")
  /\ UNCHANGED <<reg, tokens, users, boot, issued, past, revoking>>

(***************************************************************************)
(* The append of the request's next store operation fails: the request is   *)
(* refused (consume_with keeps the token), but a grant's failure is only    *)
(* logged.  (Registry models the events that a failed append leaves.)       *)
(***************************************************************************)
StoreFails(c) ==
  /\ scenario.failures
  /\ req[c].pc \in {"rotate", "admin", "spend", "create", "grant"}
  /\ Goto(c, IF At(c, "grant") THEN "ok" ELSE "refused")
  /\ boot' = IF boot.lock = c THEN [boot EXCEPT !.lock = Free] ELSE boot
  /\ UNCHANGED <<reg, tokens, users, groups, issued, past, revoking>>

Step(c) ==
  \/ Arrive(c) \/ RateLimited(c) \/ StoreFails(c)
  \/ Verify(c) \/ AccountGroups(c) \/ CheckBlocked(c) \/ EnrollOwner(c)
  \/ ConsumeBootstrap(c) \/ EnrollAdmin(c) \/ ForgetBootstrap(c)
  \/ Find(c) \/ GetToken(c) \/ ValidateAndConsume(c) \/ EnrollNew(c)
  \/ Grant(c)

-----------------------------------------------------------------------------
(***************************************************************************)
(* The admin API.                                                           *)
(***************************************************************************)
MintToken(t, bound, gs) ==
  /\ ~tokens[t].minted
  /\ bound # Admin
  /\ ~G!FirstMissing(groups, gs)
  /\ tokens' = C!ApplyMinted(tokens, t, bound, gs)
  /\ UNCHANGED <<reg, users, groups, boot, req, revoking, issued, past>>

RevokeToken(t) ==
  /\ tokens[t].minted
  /\ tokens' = C!ApplyTokenRevoked(tokens, t)
  /\ UNCHANGED <<reg, users, groups, boot, req, revoking, issued, past>>

MintUser(n, gs) ==
  /\ n # Admin
  /\ ~users[n].exists
  /\ ~G!FirstMissing(groups, gs)
  /\ users' = C!ApplyUserCreated(users, n, gs)
  /\ UNCHANGED <<reg, tokens, groups, boot, req, revoking, issued, past>>

(***************************************************************************)
(* revoke_user: the account, then its device's current certificate, which   *)
(* revoke_current_cert reads before it revokes it.                          *)
(***************************************************************************)
RevokeUser(n) ==
  /\ revoking = Idle
  /\ users[n].exists
  /\ users' = C!ApplyUserRevoked(users, n)
  /\ revoking' = [pc |-> "find", name |-> n, cert |-> NoCert]
  /\ UNCHANGED <<reg, tokens, groups, boot, req, issued, past>>

FindCurrentCert_Stops ==   \* mutant: only the account is revoked
  /\ revoking.pc = "find"
  /\ revoking' = Idle /\ past' = [past EXCEPT !.cut = @ \cup {revoking.name}]
  /\ UNCHANGED <<reg, tokens, users, groups, boot, req, issued>>

FindCurrentCert ==
  LET cert == reg.devices[revoking.name].cert IN
  /\ revoking.pc = "find"
  /\ IF cert = NoCert THEN revoking' = Idle /\ past' = [past EXCEPT !.cut = @ \cup {revoking.name}]
     ELSE revoking' = [revoking EXCEPT !.pc = "revoke", !.cert = cert] /\ UNCHANGED past
  /\ UNCHANGED <<reg, tokens, users, groups, boot, req, issued>>

RevokeCurrentCert ==
  /\ revoking.pc = "revoke"
  /\ reg' = ApplyEvent(reg, CertRevoked(revoking.cert))
  /\ revoking' = Idle
  /\ past' = [past EXCEPT !.cut = @ \cup {revoking.name}]
  /\ UNCHANGED <<tokens, users, groups, boot, req, issued>>

BlockDevice(n) ==
  /\ n # Admin
  /\ IsEnrolled(reg, n)
  /\ reg' = ApplyEvent(reg, Revoked(n))
  /\ UNCHANGED <<tokens, users, groups, boot, req, revoking, issued, past>>

UnblockDevice(n) ==
  /\ IsEnrolled(reg, n)
  /\ reg' = ApplyEvent(reg, Unblocked(n))
  /\ UNCHANGED <<tokens, users, groups, boot, req, revoking, issued, past>>

CreateGroup(g) ==
  /\ ~G!Exists(groups, g)
  /\ groups.next_bitpos <= MaxBitpos
  /\ groups' = G!ApplyCreated(groups, g)
  /\ UNCHANGED <<reg, tokens, users, boot, req, revoking, issued, past>>

DeleteGroup(g) ==
  /\ G!Exists(groups, g)
  /\ groups' = G!ApplyDeleted(groups, g)
  /\ past' = [past EXCEPT !.deleted = @ \cup {g}]
  /\ UNCHANGED <<reg, tokens, users, boot, req, revoking, issued>>

(***************************************************************************)
(* A crash and the restart.  A grant in progress may have recorded some of  *)
(* its groups.  BootstrapToken::load_or_create removes a stale file, or     *)
(* keeps the value that the file has.                                       *)
(***************************************************************************)
BootstrapAtStart_TrustsFile ==   \* mutant: a file that was left is a token
  [outstanding |-> boot.file, file |-> boot.file, lock |-> Free]

BootstrapAtStart ==
  IF IsEnrolled(reg, Admin) THEN [outstanding |-> FALSE, file |-> FALSE, lock |-> Free]
  ELSE [outstanding |-> TRUE, file |-> TRUE, lock |-> Free]

Crash ==
  /\ \/ UNCHANGED groups
     \/ \E c \in Cert : \E gs \in SUBSET req[c].grants :
          /\ At(c, "grant")
          /\ ~G!FirstMissing(groups, req[c].grants)
          /\ groups' = G!Granted(groups, In(c).cn, gs)
  /\ boot' = BootstrapAtStart
  /\ req' = [c \in Cert |-> IF req[c].pc \in {"new", "ok", "conflict"} THEN req[c]
                             ELSE [req[c] EXCEPT !.pc = "refused"]]
  /\ revoking' = Idle
  /\ UNCHANGED <<reg, tokens, users, issued, past>>

Steps ==
  \/ \E c \in Cert : Step(c)
  \/ \E t \in scenario.tokens :
        \/ \E bound \in scenario.bindings, gs \in SUBSET Group : MintToken(t, bound, gs)
        \/ RevokeToken(t)
  \/ \E n \in scenario.accounts, gs \in SUBSET Group : MintUser(n, gs)
  \/ \E n \in Name : RevokeUser(n) \/ BlockDevice(n) \/ UnblockDevice(n)
  \/ FindCurrentCert \/ RevokeCurrentCert
  \/ \E g \in Group : CreateGroup(g) \/ DeleteGroup(g)
  \/ Crash

Next == Steps /\ UNCHANGED scenario

Spec == Init /\ [][Next]_vars

-----------------------------------------------------------------------------
(***************************************************************************)
(* An invite token puts at most one certificate on record, and only for the *)
(* identity it was bound to, however requests interleave (TC-ENROLL-14).    *)
(***************************************************************************)
TokensEnrollOnce ==
  \A r \in issued : r.by = "token" =>
     /\ r.secret \in Token
     /\ tokens[r.secret].bound \in {NoName, r.cn}
     /\ \A s \in issued : s.by = "token" /\ s.secret = r.secret => s = r

(***************************************************************************)
(* Only the identity's own password replaces its certificate: tokens and    *)
(* open enrollment never do (TC-ENROLL-13).                                 *)
(***************************************************************************)
OnlyOwnersReplace ==
  \A r \in issued : r.replaced # NoCert => r.by = "password" /\ users[r.cn].exists

(***************************************************************************)
(* The admin identity is enrolled at most once, and by the bootstrap token, *)
(* also when the server crashes between the enrollment and the deletion of  *)
(* the token's file.                                                        *)
(***************************************************************************)
AdminEnrolledOnce ==
  \A r, s \in issued : r.cn = Admin =>
     /\ r.by = "bootstrap" /\ r.secret = Bootstrap
     /\ s.cn = Admin => r = s

(***************************************************************************)
(* "Single-use: consumed by the admin's successful enrollment": once no     *)
(* request holds its lock, the bootstrap token is outstanding exactly while *)
(* the admin is not enrolled.                                               *)
(***************************************************************************)
BootstrapMatches ==
  boot.lock = Free =>
     /\ boot.outstanding = ~IsEnrolled(reg, Admin)
     /\ boot.outstanding => boot.file

(***************************************************************************)
(* "The account's device keeps no access either: its certificate was issued *)
(* on this account's credentials": once revoke_user has answered, no        *)
(* certificate that was issued with the account's password before is        *)
(* accepted.  Except those that were replaced by a later enrollment, which  *)
(* revoke_user does not look at.                                            *)
(***************************************************************************)
RevokedAccountsKeepNoAccess ==
  \A r \in issued : r.by = "password" /\ r.cn \in past.cut /\ ~r.cut
     => \/ Access(reg, r.cn, r.cert) # "Allowed"
        \/ \E q \in issued : q.replaced = r.cert

(***************************************************************************)
(* A failure to apply the groups is "only possible if a group was deleted   *)
(* in the instant since the check": if no append fails, a device that was   *)
(* given a certificate is in the groups of its token or account that were   *)
(* never deleted.                                                           *)
(***************************************************************************)
GrantsApplied ==
  ~scenario.failures => \A r \in issued : At(r.cert, "ok") /\ r.grants \cap past.deleted = {}
     => \A g \in r.grants : groups.members[r.cn][g] = "Both"

(***************************************************************************)
(* Every certificate on record was issued by right: a token's holder got    *)
(* one, for the name the token was bound to, and took nobody's place.       *)
(***************************************************************************)
IssuedByRight == TypeOK /\ TokensEnrollOnce /\ OnlyOwnersReplace

(***************************************************************************)
(* The bootstrap token enrolls the admin once, and is offered until then.   *)
(***************************************************************************)
BootstrapOnce == AdminEnrolledOnce /\ BootstrapMatches
=============================================================================
