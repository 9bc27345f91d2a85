------------------------------ MODULE CertAdmin ------------------------------
(***************************************************************************)
(* The admin's certificate requests (src/src/marti/admin.rs) on the device  *)
(* registry: lists of certificates, and revocation, deletion and blocking   *)
(* of what was found on a list some time before.                            *)
(*                                                                          *)
(* Each call of the registry takes its lock anew: a revocation by ids reads *)
(* the rows and then revokes one certificate after the other.               *)
(* issued_at_unix follows the ids (the clock is not set back), so the row   *)
(* with the greatest id is the newest.  Left out: the expired list and the  *)
(* downloads, which show more of the same rows, and the JSON of a row.      *)
(***************************************************************************)
EXTENDS Registry

CONSTANT Admin    \* admin_common_name

ASSUME AdminAssumption == Admin \in Name

VARIABLES
  picked,    \* the rows that the admin took from a list: [list, rows]
  req,       \* the revocation in progress: [asked, todo], sets of certificates
  wrong,     \* history: certificates hit by an id that was listed for another
  orphan     \* history: an Enrolled event was in the file and not in memory

admin == <<picked, req, wrong, orphan>>
adminVars == <<vars, admin>>

NoRequest == [asked |-> {}, todo |-> {}]

-----------------------------------------------------------------------------
(***************************************************************************)
(* The lists.                                                               *)
(***************************************************************************)
SortedCerts(r) == r.certificates

NewestPerClient(r) ==
  {c \in r.certificates : \A d \in r.certificates :
      d.client_uid = c.client_uid /\ d.common_name = c.common_name => d.id <= c.id}

ListActiveCerts(r) == {c \in SortedCerts(r) : \E d \in NewestPerClient(r) : d.id = c.id}

ListReplacedCerts(r) == {c \in SortedCerts(r) : \A d \in NewestPerClient(r) : d.id # c.id}

ListRevokedCerts(r) == {c \in SortedCerts(r) : c.cert \in r.revoked_certs}

CertsOf(rows) == {c.cert : c \in rows}

\* The admin gets a list and picks some rows of it.
ListCerts(name, rows) ==
  /\ mode = "up" /\ req = NoRequest
  /\ picked.rows = {}
  /\ \E some \in SUBSET rows : some # {} /\ picked' = [list |-> name, rows |-> some]
  /\ UNCHANGED <<vars, req, wrong, orphan>>

-----------------------------------------------------------------------------
(***************************************************************************)
(* Requests that change the registry.                                       *)
(***************************************************************************)
\* What a step of the registry does to a request and to the histories.
Besides(r) ==
  /\ req' = IF mode' = "starting" THEN NoRequest ELSE r
  /\ orphan' = (orphan \/ \E i \in skipped' : log'[i].type = "Enrolled")

Misses(rows) ==
  {c.cert : c \in {c \in rows : \E p \in picked.rows : p.id = c.id /\ p.cert # c.cert}}

Named(ids) == {c \in reg.certificates : c.id \in ids}

PickedIds == {p.id : p \in picked.rows}

\* revoke_certs_by_id, up to its loop.
RevokeCertsById ==
  /\ mode = "up" /\ req = NoRequest /\ picked.rows # {}
  /\ LET rows == Named(PickedIds)
     IN  /\ req' = [asked |-> CertsOf(rows), todo |-> CertsOf(rows)]
         /\ wrong' = wrong \cup Misses(rows)
  /\ UNCHANGED <<vars, picked, orphan>>

FindByHash(hash) == {c \in reg.certificates : c.cert = hash}

\* revoke_cert_by_hash, up to the call of revoke_cert.
RevokeCertByHash(hash) ==
  /\ mode = "up" /\ req = NoRequest
  /\ FindByHash(hash) # {}
  /\ req' = [asked |-> {hash}, todo |-> {hash}]
  /\ UNCHANGED <<vars, picked, wrong, orphan>>

RevokeNext_GoesOn(c) ==    \* mutant: an error does not end the request
  /\ RevokeCert(c)
  /\ Besides([req EXCEPT !.todo = @ \ {c}])
  /\ UNCHANGED <<picked, wrong>>

\* One turn of the loop, or the one call of revoke_cert_by_hash; an error is
\* answered at once.
RevokeNext(c) ==
  /\ RevokeCert(c)
  /\ Besides(IF c \in reg'.revoked_certs THEN [req EXCEPT !.todo = @ \ {c}] ELSE NoRequest)
  /\ UNCHANGED <<picked, wrong>>

\* The answer is OK.
Revoked200 ==
  /\ req # NoRequest /\ req.todo = {}
  /\ req' = NoRequest
  /\ UNCHANGED <<vars, picked, wrong, orphan>>

DeleteCerts(id) ==
  /\ id \in PickedIds
  /\ DeleteCert(id)
  /\ wrong' = wrong \cup Misses(Named({id}))
  /\ Besides(req)
  /\ UNCHANGED picked

BlockDevice(cn) ==
  /\ cn # Admin
  /\ Revoke(cn) /\ Besides(req) /\ UNCHANGED <<picked, wrong>>

UnblockDevice(cn) == Unblock(cn) /\ Besides(req) /\ UNCHANGED <<picked, wrong>>

\* Enrollments, the start and crashes.
Elsewhere ==
  /\ \/ \E cn \in Name, cert \in Cert, uid \in Uid :
           EnrollWithClientUid(cn, cert, uid) \/ EnrollNewWithClientUid(cn, cert, uid)
     \/ ReplayEvent \/ Started \/ Crash
  /\ Besides(req)
  /\ UNCHANGED <<picked, wrong>>

AdminInit ==
  /\ Init
  /\ picked = [list |-> "none", rows |-> {}]
  /\ req = NoRequest
  /\ wrong = {} /\ orphan = FALSE

AdminNext ==
  \/ ListCerts("all", SortedCerts(reg))
  \/ ListCerts("replaced", ListReplacedCerts(reg))
  \/ RevokeCertsById
  \/ \E hash \in Cert : RevokeCertByHash(hash)
  \/ \E c \in req.todo : RevokeNext(c)
  \/ Revoked200
  \/ \E id \in 1..reg.next_cert_id : DeleteCerts(id)
  \/ \E cn \in Name : BlockDevice(cn) \/ UnblockDevice(cn)
  \/ Elsewhere

AdminSpec == AdminInit /\ [][AdminNext]_adminVars

-----------------------------------------------------------------------------
AdminTypeOK ==
  /\ TypeOK
  /\ picked \in [list: {"none", "all", "replaced"}, rows: SUBSET CertRecord]
  /\ req \in [asked: SUBSET Cert, todo: SUBSET Cert]
  /\ wrong \subseteq Cert
  /\ orphan \in BOOLEAN

(***************************************************************************)
(* "ids are assigned in log order, so they are stable across restarts":     *)
(* revoke_certs_by_id and delete_certs, with ids that the admin took from a *)
(* list any time before, hit the certificates that were listed, whatever    *)
(* was enrolled, deleted and replayed since - unless the append of an       *)
(* enrollment failed with its line in the file, which shifts the ids at the *)
(* next start.                                                              *)
(***************************************************************************)
IdsMeanWhatWasListed == orphan \/ wrong = {}

(***************************************************************************)
(* Cleaning up by the list of replaced certificates cuts nobody off: the    *)
(* certificate that a device has now is on the active list while its row is *)
(* there, and what was on the replaced list never becomes current again.    *)
(***************************************************************************)
ReplacedNeverCurrent ==
  mode = "up" => \A cn \in Name :
     /\ \A c \in SortedCerts(reg) : c.cert = reg.devices[cn].cert
                                     => c \in ListActiveCerts(reg) \ ListReplacedCerts(reg)
     /\ picked.list = "replaced" => reg.devices[cn].cert \notin CertsOf(picked.rows)

(***************************************************************************)
(* A revocation that goes on has revoked what it has passed, while rows are *)
(* deleted, devices enroll again and appends fail: its OK means that every  *)
(* certificate that the ids named is revoked and so listed.                 *)
(***************************************************************************)
RevokedSoFar ==
  LET passed == req.asked \ req.todo
  IN  /\ passed \subseteq reg.revoked_certs
      /\ CertsOf(reg.certificates) \cap passed \subseteq CertsOf(ListRevokedCerts(reg))

(***************************************************************************)
(* What the admin took from a list stays true until the request that uses   *)
(* it comes: ids still mean the certificates that were listed, and nobody's *)
(* current certificate is among those that were listed as replaced.         *)
(***************************************************************************)
ListsStayTrue == AdminTypeOK /\ IdsMeanWhatWasListed /\ ReplacedNeverCurrent
=============================================================================
