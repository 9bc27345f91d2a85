--------------------------- MODULE DeviceRecords ---------------------------
(***************************************************************************)
(* The device registry's state, its durable events and its reducer          *)
(* (src/src/registry.rs), as operators that the modules with variables      *)
(* share.  A certificate is identified with its SHA-256 fingerprint: every  *)
(* issued certificate has a fresh serial number, so no two are equal.       *)
(* Timestamps are left out: no decision of the registry reads one.          *)
(***************************************************************************)
EXTENDS Integers, FiniteSets, Sequences

CONSTANTS Name,      \* certificate Common Names, the identities
          Cert,      \* issued certificates
          NoCert,    \* "no device on record" for a name
          Uid        \* clientUid values, the absent one included

ASSUME NoCertAssumption == NoCert \notin Cert

Enrolled(cn, cert, uid) ==
  [type |-> "Enrolled", common_name |-> cn, cert |-> cert, client_uid |-> uid]
Revoked(cn)       == [type |-> "Revoked", common_name |-> cn]
Unblocked(cn)     == [type |-> "Unblocked", common_name |-> cn]
CertRevoked(cert) == [type |-> "CertRevoked", fingerprint |-> cert]
CertDeleted(id)   == [type |-> "CertDeleted", id |-> id]

(***************************************************************************)
(* RegistryEvent.  The UidBound events of old logs change nothing and are   *)
(* never written, so they are left out.                                     *)
(***************************************************************************)
RegistryEvent ==
       [type: {"Enrolled"}, common_name: Name, cert: Cert, client_uid: Uid]
  \cup [type: {"Revoked", "Unblocked"}, common_name: Name]
  \cup [type: {"CertRevoked"}, fingerprint: Cert]
  \cup [type: {"CertDeleted"}, id: Nat]

DeviceRecord == [cert: Cert \cup {NoCert}, revoked: BOOLEAN]

(***************************************************************************)
(* A row of the certificates vector.  Rows are only appended, with the      *)
(* next id, and filtered, so the set of rows determines the vector.         *)
(***************************************************************************)
CertRecord == [id: Nat, common_name: Name, cert: Cert, client_uid: Uid]

RegistryState ==
  [devices: [Name -> DeviceRecord],
   revoked_certs: SUBSET Cert,
   certificates: SUBSET CertRecord,
   next_cert_id: Nat]

EmptyRegistry ==
  [devices       |-> [cn \in Name |-> [cert |-> NoCert, revoked |-> FALSE]],
   revoked_certs |-> {},
   certificates  |-> {},
   next_cert_id  |-> 0]

-----------------------------------------------------------------------------
(***************************************************************************)
(* apply_event, one operator per event type: what live operations and the   *)
(* replay at startup both do to the state.                                  *)
(***************************************************************************)
ApplyEnrolled_Unblocks(reg, e) ==      \* mutant: re-enrollment clears the block
  LET id == reg.next_cert_id + 1
      cn == e.common_name
  IN  [reg EXCEPT
         !.next_cert_id = id,
         !.certificates = @ \cup {[id |-> id, common_name |-> cn,
                                   cert |-> e.cert, client_uid |-> e.client_uid]},
         !.devices[cn] = [cert |-> e.cert, revoked |-> FALSE]]

ApplyEnrolled(reg, e) ==
  LET id == reg.next_cert_id + 1
      cn == e.common_name
  IN  [reg EXCEPT
         !.next_cert_id = id,
         !.certificates = @ \cup {[id |-> id, common_name |-> cn,
                                   cert |-> e.cert, client_uid |-> e.client_uid]},
         !.devices[cn].cert = e.cert]   \* a block survives re-enrollment

\* A block or an unblock of a name that is not on record changes nothing.
SetBlocked(reg, cn, blocked) ==
  IF reg.devices[cn].cert = NoCert THEN reg
  ELSE [reg EXCEPT !.devices[cn].revoked = blocked]

ApplyCertRevoked(reg, e) ==
  [reg EXCEPT !.revoked_certs = @ \cup {e.fingerprint}]

ApplyCertDeleted_Forgets(reg, e) ==    \* mutant: forgets the revocation too
  [reg EXCEPT !.certificates = {c \in @ : c.id # e.id},
              !.revoked_certs = @ \ {c.cert : c \in {d \in reg.certificates : d.id = e.id}}]

ApplyCertDeleted_Reuses(reg, e) ==     \* mutant: the id is free for the next one
  [reg EXCEPT !.certificates = {c \in @ : c.id # e.id},
              !.next_cert_id = IF e.id = @ THEN @ - 1 ELSE @]

ApplyCertDeleted(reg, e) ==
  [reg EXCEPT !.certificates = {c \in @ : c.id # e.id}]

ApplyEvent(reg, e) ==
  CASE e.type = "Enrolled"    -> ApplyEnrolled(reg, e)
    [] e.type = "Revoked"     -> SetBlocked(reg, e.common_name, TRUE)
    [] e.type = "Unblocked"   -> SetBlocked(reg, e.common_name, FALSE)
    [] e.type = "CertRevoked" -> ApplyCertRevoked(reg, e)
    [] e.type = "CertDeleted" -> ApplyCertDeleted(reg, e)

-----------------------------------------------------------------------------
(***************************************************************************)
(* The registry's queries.                                                  *)
(***************************************************************************)
IsEnrolled(reg, cn) == reg.devices[cn].cert # NoCert

IsRevoked(reg, cn) == reg.devices[cn].revoked

Access(reg, cn, cert) ==
  IF reg.devices[cn].revoked THEN "Blocked"
  ELSE IF cert \in reg.revoked_certs THEN "CertRevoked"
  ELSE "Allowed"
=============================================================================
