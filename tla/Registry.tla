------------------------------ MODULE Registry ------------------------------
(***************************************************************************)
(* DeviceRegistry of src/src/registry.rs over its event log: every          *)
(* operation appends an event and then applies it to memory under one       *)
(* write lock, and a restart replays the log one event at a time before     *)
(* the server takes requests.                                               *)
(*                                                                          *)
(* An append can fail after its line reached the file (a failed fsync): the *)
(* caller gets an error and memory stays as it was, but the next start      *)
(* replays the event.  A crash can come between the append and the apply.   *)
(* What a crash can do inside one append is modelled in EventLog.           *)
(***************************************************************************)
EXTENDS DeviceRecords

CONSTANTS AppendMayFail,   \* whether appends can fail
          MaxLog,          \* bound on the length of the log
          MaxSignals       \* bound on the revocation counter

VARIABLES
  mode,         \* "starting" while the log is replayed, then "up"
  reg,          \* the RegistryState in memory
  log,          \* the events in the file
  pos,          \* how many events of the log the replay has applied
  skipped,      \* the events in the file that memory did not apply
  revocations,  \* the watch channel that connections subscribe to
  promised,     \* certificates whose revocation was acknowledged
  held,         \* names with an acknowledged block and no unblock since
  shown         \* the <<id, certificate>> rows that readers could list

vars == <<mode, reg, log, pos, skipped, revocations, promised, held, shown>>

Rows(r) == {<<c.id, c.cert>> : c \in r.certificates}

Issued == {log[i].cert : i \in {j \in 1..Len(log) : log[j].type = "Enrolled"}}

TypeOK ==
  /\ mode \in {"starting", "up"}
  /\ reg \in RegistryState
  /\ log \in Seq(RegistryEvent)
  /\ pos \in 0..Len(log)
  /\ skipped \subseteq 1..Len(log)
  /\ revocations \in Nat
  /\ promised \subseteq Cert
  /\ held \subseteq Name
  /\ shown \subseteq Nat \X Cert

Init ==
  /\ mode = "starting"
  /\ reg = EmptyRegistry
  /\ log = << >>
  /\ pos = 0
  /\ skipped = {}
  /\ revocations = 0
  /\ promised = {}
  /\ held = {}
  /\ shown = {}

-----------------------------------------------------------------------------
(***************************************************************************)
(* The process stops; it starts again with an empty state and a new watch   *)
(* channel.  What was acknowledged stays acknowledged.                      *)
(***************************************************************************)
Stopped ==
  /\ mode' = "starting"
  /\ reg' = EmptyRegistry
  /\ pos' = 0
  /\ skipped' = {}
  /\ revocations' = 0
  /\ UNCHANGED <<promised, shown>>

Committed(e) ==
  /\ log' = Append(log, e)
  /\ reg' = ApplyEvent(reg, e)
  /\ pos' = pos + 1
  /\ shown' = shown \cup Rows(reg')
  /\ UNCHANGED <<mode, skipped>>

(***************************************************************************)
(* An operation that does not return Ok: the process dies with the event in *)
(* the file, or the append reports an error, with or without the event.     *)
(***************************************************************************)
Interrupted(e) ==
  \/ /\ log' = Append(log, e)
     /\ Stopped
  \/ /\ AppendMayFail
     /\ \/ UNCHANGED <<log, pos, skipped>>
        \/ /\ log' = Append(log, e)
           /\ pos' = pos + 1
           /\ skipped' = skipped \cup {Len(log) + 1}
     /\ UNCHANGED <<mode, reg, revocations, promised, shown>>

Serving == mode = "up" /\ Len(log) < MaxLog

Signalled ==
  /\ revocations < MaxSignals
  /\ revocations' = revocations + 1

-----------------------------------------------------------------------------
(***************************************************************************)
(* The operations.                                                          *)
(***************************************************************************)
EnrollWithClientUid(cn, cert, uid) ==
  LET e == Enrolled(cn, cert, uid) IN
  /\ Serving
  /\ cert \notin Issued
  /\ \/ Committed(e) /\ UNCHANGED <<revocations, promised, held>>
     \/ Interrupted(e) /\ UNCHANGED held

EnrollNewWithClientUid(cn, cert, uid) ==
  /\ ~IsEnrolled(reg, cn)
  /\ EnrollWithClientUid(cn, cert, uid)

Revoke(cn) ==
  LET e == Revoked(cn) IN
  /\ Serving
  /\ IsEnrolled(reg, cn)
  /\ \/ Committed(e) /\ Signalled /\ held' = held \cup {cn} /\ UNCHANGED promised
     \/ Interrupted(e) /\ UNCHANGED held

Unblock(cn) ==
  LET e == Unblocked(cn) IN
  /\ Serving
  /\ IsEnrolled(reg, cn)
  /\ held' = held \ {cn}
  /\ \/ Committed(e) /\ Signalled /\ UNCHANGED promised
     \/ Interrupted(e)

(***************************************************************************)
(* revoke_cert.  Its callers name a certificate that is on record: by row   *)
(* id, by the hash of a row, or as a device's current certificate (read     *)
(* before the call, so perhaps replaced or deleted since).                  *)
(***************************************************************************)
RevokeCert(cert) ==
  LET e == CertRevoked(cert) IN
  /\ Serving
  /\ cert \in Issued
  /\ UNCHANGED held
  /\ IF cert \in reg.revoked_certs
     THEN /\ Signalled
          /\ promised' = promised \cup {cert}
          /\ UNCHANGED <<mode, reg, log, pos, skipped, shown>>
     ELSE \/ Committed(e) /\ Signalled /\ promised' = promised \cup {cert}
          \/ Interrupted(e)

(***************************************************************************)
(* delete_certs, one id at a time: its write lock hides the states between  *)
(* two ids from readers, but a crash between them leaves the first deleted. *)
(***************************************************************************)
DeleteCert(id) ==
  LET e == CertDeleted(id) IN
  /\ Serving
  /\ \E c \in reg.certificates : c.id = id
  /\ UNCHANGED held
  /\ \/ Committed(e) /\ UNCHANGED <<revocations, promised>>
     \/ Interrupted(e)

ReplayEvent_SkipsUnblock ==   \* mutant: the replay's reducer lags behind
  /\ mode = "starting"
  /\ pos < Len(log)
  /\ reg' = IF log[pos + 1].type = "Unblocked" THEN reg ELSE ApplyEvent(reg, log[pos + 1])
  /\ pos' = pos + 1
  /\ UNCHANGED <<mode, log, skipped, revocations, promised, held, shown>>

(***************************************************************************)
(* load_or_create: open_and_replay with the same reducer.                   *)
(***************************************************************************)
ReplayEvent ==
  /\ mode = "starting"
  /\ pos < Len(log)
  /\ reg' = ApplyEvent(reg, log[pos + 1])
  /\ pos' = pos + 1
  /\ UNCHANGED <<mode, log, skipped, revocations, promised, held, shown>>

Started ==
  /\ mode = "starting"
  /\ pos = Len(log)
  /\ mode' = "up"
  /\ shown' = shown \cup Rows(reg)
  /\ UNCHANGED <<reg, log, pos, skipped, revocations, promised, held>>

Crash == Stopped /\ UNCHANGED <<log, held>>

Next ==
  \/ \E cn \in Name, cert \in Cert, uid \in Uid :
        \/ EnrollWithClientUid(cn, cert, uid)
        \/ EnrollNewWithClientUid(cn, cert, uid)
  \/ \E cn \in Name : Revoke(cn) \/ Unblock(cn)
  \/ \E cert \in Cert : RevokeCert(cert)
  \/ \E id \in 1..reg.next_cert_id : DeleteCert(id)
  \/ ReplayEvent
  \/ Started
  \/ Crash

Spec == Init /\ [][Next]_vars

-----------------------------------------------------------------------------
(***************************************************************************)
(* What the log means, without the reducer: the state after its first n     *)
(* events in closed form.                                                   *)
(***************************************************************************)
EnrollmentsIn(l, n) == {i \in 1..n : l[i].type = "Enrolled"}

EnrollmentsOf(l, n, cn) == {i \in EnrollmentsIn(l, n) : l[i].common_name = cn}

IdAt(l, i) == Cardinality(EnrollmentsIn(l, i))

RowAt(l, i) ==
  [id |-> IdAt(l, i), common_name |-> l[i].common_name,
   cert |-> l[i].cert, client_uid |-> l[i].client_uid]

LatestCerts(l, n, cn) ==
  {l[i].cert : i \in {i \in EnrollmentsOf(l, n, cn) :
                        \A j \in EnrollmentsOf(l, n, cn) : j <= i}}

TheOnly(S) == CHOOSE x \in S : TRUE

CurrentCert(l, n, cn) ==
  IF EnrollmentsOf(l, n, cn) = {} THEN NoCert ELSE TheOnly(LatestCerts(l, n, cn))

BlockedAfter(l, n, cn) ==
  \E i \in 1..n : /\ l[i] = Revoked(cn)
                  /\ EnrollmentsOf(l, i, cn) # {}
                  /\ \A j \in i+1..n : l[j] # Unblocked(cn)

View(l, n) ==
  [devices |-> [cn \in Name |-> [cert    |-> CurrentCert(l, n, cn),
                                 revoked |-> BlockedAfter(l, n, cn)]],
   revoked_certs |-> {c \in Cert : \E i \in 1..n : l[i] = CertRevoked(c)},
   certificates |->
     {RowAt(l, i) : i \in {i \in EnrollmentsIn(l, n) :
                             \A j \in i+1..n : l[j] # CertDeleted(IdAt(l, i))}},
   next_cert_id |-> IdAt(l, n)]

(***************************************************************************)
(* Memory is what the log says: as long as no append failed since the last  *)
(* start, the state that readers see is the closed-form meaning of the file *)
(* (so a restart, a copy of the log or an audit of it gives the same        *)
(* registry), also half way through a replay.                               *)
(***************************************************************************)
MemoryIsLogView == skipped = {} => reg = View(log, pos)

(***************************************************************************)
(* A certificate whose revocation was acknowledged is never accepted again: *)
(* not after its row is deleted, after re-enrollment, after an unblock,     *)
(* after failed appends or after any number of restarts.                    *)
(***************************************************************************)
RevokedForGood ==
  mode = "up" => \A cert \in promised, cn \in Name : Access(reg, cn, cert) # "Allowed"

(***************************************************************************)
(* A blocked identity stays blocked with whatever certificate until an      *)
(* unblock is asked for: re-enrollment (rotation) and restarts keep it.     *)
(***************************************************************************)
BlockHolds ==
  mode = "up" => \A cn \in held, cert \in Cert : Access(reg, cn, cert) = "Blocked"

(***************************************************************************)
(* "ids are assigned in log order, so they are stable across restarts"      *)
(* (CertRecord): an id that a reader was shown for one certificate is never *)
(* shown for another one, so an admin's revoke or delete by id hits the     *)
(* certificate that was listed.                                             *)
(***************************************************************************)
IdsStable == \A r, s \in shown : r[1] = s[1] => r[2] = s[2]
=============================================================================
