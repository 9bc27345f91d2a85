--------------------------- MODULE RegistryProofs ---------------------------
(***************************************************************************)
(* Proofs about Registry, for every set of names, certificates and uids,    *)
(* every bound, and with or without failing appends.                        *)
(***************************************************************************)
EXTENDS CertAdmin, FiniteSetTheorems, TLAPS

\* Most steps are about sets and functions only: Zenon proves them.  The others say SMT.
USE Zenon

-----------------------------------------------------------------------------
(***************************************************************************)
(* Facts about the closed form.                                             *)
(***************************************************************************)

\* The number of enrollments in a prefix of the log is a natural number.
LEMMA IdAtType ==
  ASSUME NEW l, NEW n \in Nat
  PROVE  /\ IsFiniteSet(EnrollmentsIn(l, n))
         /\ IdAt(l, n) \in Nat
<1>1. IsFiniteSet(1..n)
  BY SMT, FS_Interval
<1>2. IsFiniteSet(EnrollmentsIn(l, n))
  BY <1>1, FS_Subset DEF EnrollmentsIn
<1> QED
  BY <1>2, FS_CardinalityType DEF IdAt

\* One more event adds one to the count exactly when it is an enrollment.
LEMMA IdAtStep ==
  ASSUME NEW l, NEW n \in Nat
  PROVE  IdAt(l, n + 1) = IF l[n + 1].type = "Enrolled" THEN IdAt(l, n) + 1
                          ELSE IdAt(l, n)
<1>1. CASE l[n + 1].type = "Enrolled"
  <2>1. EnrollmentsIn(l, n + 1) = EnrollmentsIn(l, n) \cup {n + 1}
    BY SMT, <1>1 DEF EnrollmentsIn
  <2>2. n + 1 \notin EnrollmentsIn(l, n)
    BY SMT DEF EnrollmentsIn
  <2> QED
    BY <1>1, <2>1, <2>2, IdAtType, FS_AddElement DEF IdAt
<1>2. CASE l[n + 1].type # "Enrolled"
  <2>1. EnrollmentsIn(l, n + 1) = EnrollmentsIn(l, n)
    BY SMT, <1>2 DEF EnrollmentsIn
  <2> QED
    BY <1>2, <2>1 DEF IdAt
<1> QED
  BY <1>1, <1>2

\* Equal prefixes have equal enrollments.
LEMMA EnrollmentsPrefix ==
  ASSUME NEW l, NEW k, NEW n \in Nat, \A i \in 1..n : l[i] = k[i],
         NEW m \in 0..n, NEW cn
  PROVE  /\ EnrollmentsIn(l, m) = EnrollmentsIn(k, m)
         /\ EnrollmentsOf(l, m, cn) = EnrollmentsOf(k, m, cn)
         /\ IdAt(l, m) = IdAt(k, m)
<1>1. \A i \in 1..m : l[i] = k[i]
  BY SMT
<1>2. EnrollmentsIn(l, m) = EnrollmentsIn(k, m)
  BY <1>1 DEF EnrollmentsIn
<1>3. EnrollmentsOf(l, m, cn) = EnrollmentsOf(k, m, cn)
  BY <1>1, <1>2 DEF EnrollmentsOf, EnrollmentsIn
<1> QED
  BY <1>2, <1>3 DEF IdAt

\* The meaning of a prefix depends on the prefix only.
LEMMA ViewPrefix ==
  ASSUME NEW l, NEW k, NEW n \in Nat, \A i \in 1..n : l[i] = k[i]
  PROVE  View(l, n) = View(k, n)
<1>0. n \in 0..n /\ \A i \in 1..n : i \in 0..n
  BY SMT
<1>1. EnrollmentsIn(l, n) = EnrollmentsIn(k, n)
  BY <1>0, EnrollmentsPrefix
<1>2. \A i \in 1..n : IdAt(l, i) = IdAt(k, i) /\ RowAt(l, i) = RowAt(k, i)
  BY <1>0, EnrollmentsPrefix DEF RowAt
<1>3. IdAt(l, n) = IdAt(k, n)
  BY <1>0, EnrollmentsPrefix
<1>4. ASSUME NEW cn \in Name
      PROVE  CurrentCert(l, n, cn) = CurrentCert(k, n, cn)
  <2>1. EnrollmentsOf(l, n, cn) = EnrollmentsOf(k, n, cn)
    BY <1>1 DEF EnrollmentsOf, EnrollmentsIn
  <2>2. EnrollmentsOf(l, n, cn) \subseteq 1..n
    BY DEF EnrollmentsOf, EnrollmentsIn
  <2>3. LatestCerts(l, n, cn) = LatestCerts(k, n, cn)
    BY <2>1, <2>2 DEF LatestCerts
  <2> QED
    BY <2>1, <2>3 DEF CurrentCert
<1>5. ASSUME NEW cn \in Name
      PROVE  BlockedAfter(l, n, cn) = BlockedAfter(k, n, cn)
  <2>1. \A i \in 1..n : EnrollmentsOf(l, i, cn) = EnrollmentsOf(k, i, cn)
    BY SMT, <1>0, EnrollmentsPrefix
  <2> QED
    BY SMT, <2>1 DEF BlockedAfter
<1>6. {c \in Cert : \E i \in 1..n : l[i] = CertRevoked(c)}
        = {c \in Cert : \E i \in 1..n : k[i] = CertRevoked(c)}
  OBVIOUS
<1>7. {i \in EnrollmentsIn(l, n) : \A j \in i+1..n : l[j] # CertDeleted(IdAt(l, i))}
        = {i \in EnrollmentsIn(k, n) : \A j \in i+1..n : k[j] # CertDeleted(IdAt(k, i))}
  BY SMT, <1>1, <1>2 DEF EnrollmentsIn
<1>8. View(l, n).certificates = View(k, n).certificates
  BY SMT, <1>2, <1>7 DEF View, EnrollmentsIn
<1> QED
  BY <1>3, <1>4, <1>5, <1>6, <1>8 DEF View

\* A name with an enrollment in the prefix has a current certificate.
HasCert(l, n) ==
  \A cn \in Name : EnrollmentsOf(l, n, cn) # {} => CurrentCert(l, n, cn) \in Cert

\* That depends on the prefix only.
LEMMA HasCertPrefix ==
  ASSUME NEW l, NEW k, NEW n \in Nat, \A i \in 1..n : l[i] = k[i], HasCert(l, n)
  PROVE  HasCert(k, n)
<1>1. View(l, n).devices = View(k, n).devices
  BY ViewPrefix
<1>2. ASSUME NEW cn \in Name
      PROVE  /\ CurrentCert(l, n, cn) = CurrentCert(k, n, cn)
             /\ EnrollmentsOf(l, n, cn) = EnrollmentsOf(k, n, cn)
  <2>1. View(l, n).devices[cn].cert = View(k, n).devices[cn].cert
    BY <1>1
  <2>2. CurrentCert(l, n, cn) = CurrentCert(k, n, cn)
    BY <2>1 DEF View
  <2> QED
    BY <2>2 DEF EnrollmentsOf, EnrollmentsIn
<1> QED
  BY <1>2 DEF HasCert

\* The meaning of one more event is what the reducer makes of it.
LEMMA ViewStep ==
  ASSUME NEW l \in Seq(RegistryEvent), NEW n \in Nat, n < Len(l),
         HasCert(l, n)
  PROVE  /\ HasCert(l, n + 1)
         /\ View(l, n + 1) = ApplyEvent(View(l, n), l[n + 1])
<1> DEFINE e == l[n + 1]
<1>0. /\ e \in RegistryEvent
      /\ n + 1 \in 1..(n + 1)
      /\ 1..(n + 1) = (1..n) \cup {n + 1}
      /\ n + 1 \notin 1..n
      /\ \A i \in 1..n : (i+1)..(n + 1) = ((i+1)..n) \cup {n + 1}
      /\ (n+1+1)..(n+1) = {}
  BY SMT
<1>id. IdAt(l, n + 1) = IF e.type = "Enrolled" THEN IdAt(l, n) + 1 ELSE IdAt(l, n)
  BY IdAtStep
<1>nat. IdAt(l, n) \in Nat
  BY IdAtType
<1>in. EnrollmentsIn(l, n + 1) = EnrollmentsIn(l, n) \cup
                                   (IF e.type = "Enrolled" THEN {n + 1} ELSE {})
  BY <1>0 DEF EnrollmentsIn
<1>of. ASSUME NEW cn
       PROVE  EnrollmentsOf(l, n + 1, cn) = EnrollmentsOf(l, n, cn) \cup
                 (IF e.type = "Enrolled" /\ e.common_name = cn THEN {n + 1} ELSE {})
  BY <1>0, <1>in DEF EnrollmentsOf, EnrollmentsIn
<1>cur. ASSUME NEW cn
        PROVE  CurrentCert(l, n + 1, cn) =
                 IF e.type = "Enrolled" /\ e.common_name = cn THEN e.cert
                 ELSE CurrentCert(l, n, cn)
  <2>1. CASE e.type = "Enrolled" /\ e.common_name = cn
    <3>1. EnrollmentsOf(l, n, cn) \subseteq 1..n
      BY DEF EnrollmentsOf, EnrollmentsIn
    <3>2. EnrollmentsOf(l, n + 1, cn) = EnrollmentsOf(l, n, cn) \cup {n + 1}
      BY <1>of, <2>1
    <3>3. {i \in EnrollmentsOf(l, n + 1, cn) :
             \A j \in EnrollmentsOf(l, n + 1, cn) : j <= i} = {n + 1}
      <4>1. n + 1 \in EnrollmentsOf(l, n + 1, cn)
        BY <3>2
      <4>2. \A j \in EnrollmentsOf(l, n + 1, cn) : j <= n + 1 /\ j \in Nat
        BY SMT, <3>1, <3>2
      <4>3. \A i \in EnrollmentsOf(l, n + 1, cn) : n + 1 <= i => i = n + 1
        BY SMT, <4>2
      <4> QED
        BY <4>1, <4>2, <4>3
    <3>4. LatestCerts(l, n + 1, cn) = {e.cert}
      BY <3>3 DEF LatestCerts
    <3> QED
      BY <2>1, <3>2, <3>4 DEF CurrentCert, TheOnly
  <2>2. CASE ~(e.type = "Enrolled" /\ e.common_name = cn)
    <3>1. EnrollmentsOf(l, n + 1, cn) = EnrollmentsOf(l, n, cn)
      BY <1>of, <2>2
    <3>2. LatestCerts(l, n + 1, cn) = LatestCerts(l, n, cn)
      BY <3>1 DEF LatestCerts
    <3>3. CurrentCert(l, n + 1, cn) = CurrentCert(l, n, cn)
      BY <3>1, <3>2 DEF CurrentCert
    <3> QED
      BY <2>2, <3>3
  <2> QED
    BY <2>1, <2>2
<1>has. HasCert(l, n + 1)
  BY <1>0, <1>of, <1>cur DEF HasCert, RegistryEvent
<1>blk. ASSUME NEW cn \in Name
        PROVE  /\ e = Unblocked(cn) => BlockedAfter(l, n + 1, cn) = FALSE
               /\ e = Revoked(cn) /\ EnrollmentsOf(l, n, cn) # {}
                    => BlockedAfter(l, n + 1, cn) = TRUE
               /\ e # Unblocked(cn) /\ (e # Revoked(cn) \/ EnrollmentsOf(l, n, cn) = {})
                    => BlockedAfter(l, n + 1, cn) = BlockedAfter(l, n, cn)
  <2>1. e = Revoked(cn) => EnrollmentsOf(l, n + 1, cn) = EnrollmentsOf(l, n, cn)
    <3>1. e = Revoked(cn) => e.type # "Enrolled"
      BY SMT DEF Revoked
    <3> QED
      BY <1>of, <3>1
  <2>2. Revoked(cn) # Unblocked(cn)
    BY DEF Revoked, Unblocked
  <2>3. \A m : BlockedAfter(l, m, cn) \in BOOLEAN
    BY DEF BlockedAfter
  <2>4. BlockedAfter(l, n + 1, cn) <=>
          \/ BlockedAfter(l, n, cn) /\ e # Unblocked(cn)
          \/ e = Revoked(cn) /\ EnrollmentsOf(l, n, cn) # {}
    BY SMT, <1>0, <2>1, <2>2 DEF BlockedAfter, e
  <2> QED
    BY <2>2, <2>3, <2>4
<1>bool. \A m, cn : BlockedAfter(l, m, cn) \in BOOLEAN
  BY DEF BlockedAfter
<1>rvk. {c \in Cert : \E i \in 1..(n + 1) : l[i] = CertRevoked(c)}
          = {c \in Cert : \E i \in 1..n : l[i] = CertRevoked(c)}
              \cup {c \in Cert : e = CertRevoked(c)}
  BY <1>0
<1> DEFINE Alive(m) == {i \in EnrollmentsIn(l, m) :
                          \A j \in i+1..m : l[j] # CertDeleted(IdAt(l, i))}
           rows(m) == {RowAt(l, i) : i \in Alive(m)}
<1>alv. Alive(n + 1) = {i \in Alive(n) : e # CertDeleted(IdAt(l, i))} \cup
                         (IF e.type = "Enrolled" THEN {n + 1} ELSE {})
  <2>1. EnrollmentsIn(l, n) \subseteq 1..n
    BY DEF EnrollmentsIn
  <2> QED
    BY SMT, <1>0, <1>in, <2>1
<1> DEFINE v == View(l, n)
           w == View(l, n + 1)
           D(m) == [cn \in Name |-> [cert    |-> CurrentCert(l, m, cn),
                                     revoked |-> BlockedAfter(l, m, cn)]]
           R(m) == {c \in Cert : \E i \in 1..m : l[i] = CertRevoked(c)}
<1>v. v = [devices |-> D(n), revoked_certs |-> R(n),
           certificates |-> rows(n), next_cert_id |-> IdAt(l, n)]
  BY DEF View
<1>w. w = [devices |-> D(n + 1), revoked_certs |-> R(n + 1),
           certificates |-> rows(n + 1), next_cert_id |-> IdAt(l, n + 1)]
  BY DEF View
<1>dev. ASSUME NEW x \in Name, \A cn \in Name \ {x} :
                     /\ CurrentCert(l, n + 1, cn) = CurrentCert(l, n, cn)
                     /\ BlockedAfter(l, n + 1, cn) = BlockedAfter(l, n, cn)
        PROVE  D(n + 1) = [D(n) EXCEPT ![x] = [cert    |-> CurrentCert(l, n + 1, x),
                                               revoked |-> BlockedAfter(l, n + 1, x)]]
  BY <1>dev
<1>same. ASSUME \A cn \in Name :
                     /\ CurrentCert(l, n + 1, cn) = CurrentCert(l, n, cn)
                     /\ BlockedAfter(l, n + 1, cn) = BlockedAfter(l, n, cn)
         PROVE  D(n + 1) = D(n)
  BY <1>same
<1>at. \A cn \in Name : D(n)[cn] = [cert    |-> CurrentCert(l, n, cn),
                                     revoked |-> BlockedAfter(l, n, cn)]
  OBVIOUS
<1>dom. DOMAIN D(n) = Name
  OBVIOUS
<1> HIDE DEF Alive, rows, v, w, e, D, R
<1> SUFFICES w = ApplyEvent(v, e)
  BY <1>has DEF v, w, e
<1>rev. R(n + 1) = R(n) \cup {c \in Cert : e = CertRevoked(c)}
  BY <1>rvk DEF R
<1>cases. e.type \in {"Enrolled", "Revoked", "Unblocked", "CertRevoked", "CertDeleted"}
  BY <1>0 DEF RegistryEvent
<1>1. CASE e.type = "Enrolled"
  <2> DEFINE x == e.common_name
  <2>1. rows(n + 1) = rows(n) \cup {[id |-> IdAt(l, n) + 1, common_name |-> x,
                                     cert |-> e.cert, client_uid |-> e.client_uid]}
    <3>1. \A i : e # CertDeleted(IdAt(l, i))
      BY SMT, <1>1 DEF CertDeleted
    <3>2. Alive(n + 1) = Alive(n) \cup {n + 1}
      BY <1>1, <1>alv, <3>1
    <3>3. RowAt(l, n + 1) = [id |-> IdAt(l, n) + 1, common_name |-> x,
                             cert |-> e.cert, client_uid |-> e.client_uid]
      BY <1>1, <1>id DEF RowAt, e
    <3> QED
      BY SMT, <3>2, <3>3 DEF rows
  <2>2. \A cn \in Name : e # Unblocked(cn) /\ e # Revoked(cn)
    BY SMT, <1>1 DEF Unblocked, Revoked
  <2>3. R(n + 1) = R(n)
    <3>1. \A c \in Cert : e # CertRevoked(c)
      BY SMT, <1>1 DEF CertRevoked
    <3> QED
      BY <1>rev, <3>1
  <2>4. x \in Name
    BY <1>0, <1>1 DEF RegistryEvent
  <2>5. D(n + 1) = [D(n) EXCEPT ![x] = [cert |-> e.cert, revoked |-> BlockedAfter(l, n, x)]]
    BY <1>1, <1>cur, <1>blk, <1>dev, <2>2, <2>4
  <2>6. D(n + 1) = [D(n) EXCEPT ![x].cert = e.cert]
    <3>0. D(n)[x] = [cert |-> CurrentCert(l, n, x), revoked |-> BlockedAfter(l, n, x)]
      BY <1>at, <2>4
    <3>1. [D(n)[x] EXCEPT !.cert = e.cert] = [cert |-> e.cert, revoked |-> BlockedAfter(l, n, x)]
      BY SMT, <3>0
    <3> QED
      BY <2>5, <3>1
  <2>7. IdAt(l, n + 1) = IdAt(l, n) + 1
    BY <1>1, <1>id
  <2>8. ApplyEvent(v, e) = ApplyEnrolled(v, e)
    BY <1>1 DEF ApplyEvent
  <2> QED
    BY <1>v, <1>w, <2>1, <2>3, <2>6, <2>7, <2>8 DEF ApplyEnrolled
<1>2. CASE e.type = "CertDeleted"
  <2>1. rows(n + 1) = {c \in rows(n) : c.id # e.id}
    <3>1. e = CertDeleted(e.id)
      BY <1>0, <1>2 DEF CertDeleted, RegistryEvent
    <3>2. \A i : e # CertDeleted(IdAt(l, i)) <=> RowAt(l, i).id # e.id
      BY SMT, <3>1 DEF CertDeleted, RowAt
    <3> QED
      BY <1>2, <1>alv, <3>2 DEF rows
  <2>2. \A cn \in Name : e # Unblocked(cn) /\ e # Revoked(cn)
    BY SMT, <1>2 DEF Unblocked, Revoked
  <2>3. R(n + 1) = R(n)
    <3>1. \A c \in Cert : e # CertRevoked(c)
      BY SMT, <1>2 DEF CertRevoked
    <3> QED
      BY <1>rev, <3>1
  <2>4. D(n + 1) = D(n)
    BY <1>2, <1>cur, <1>blk, <1>same, <2>2
  <2>5. IdAt(l, n + 1) = IdAt(l, n)
    BY <1>2, <1>id
  <2>6. ApplyEvent(v, e) = ApplyCertDeleted(v, e)
    BY <1>2 DEF ApplyEvent
  <2> QED
    BY <1>v, <1>w, <2>1, <2>3, <2>4, <2>5, <2>6 DEF ApplyCertDeleted
<1>3. CASE e.type \in {"Revoked", "Unblocked", "CertRevoked"}
  <2>1. rows(n + 1) = rows(n)
    <3>1. \A i : e # CertDeleted(IdAt(l, i))
      BY SMT, <1>3 DEF CertDeleted
    <3> QED
      BY <1>3, <1>alv, <3>1 DEF rows
  <2>2. IdAt(l, n + 1) = IdAt(l, n)
    BY <1>3, <1>id
  <2>3. CASE e.type = "CertRevoked"
    <3>1. R(n + 1) = R(n) \cup {e.fingerprint}
      BY SMT, <1>0, <1>rev, <2>3 DEF CertRevoked, RegistryEvent
    <3>2. \A cn \in Name : e # Unblocked(cn) /\ e # Revoked(cn)
      BY SMT, <2>3 DEF Unblocked, Revoked
    <3>3. D(n + 1) = D(n)
      BY <1>cur, <1>blk, <1>same, <2>3, <3>2
    <3>4. ApplyEvent(v, e) = ApplyCertRevoked(v, e)
      BY <2>3 DEF ApplyEvent
    <3> QED
      BY <1>v, <1>w, <2>1, <2>2, <3>1, <3>3, <3>4 DEF ApplyCertRevoked
  <2>4. CASE e.type \in {"Revoked", "Unblocked"}
    <3> DEFINE x == e.common_name
               b == e.type = "Revoked"
    <3>1. x \in Name /\ e = IF b THEN Revoked(x) ELSE Unblocked(x)
      BY <1>0, <2>4 DEF RegistryEvent, Revoked, Unblocked
    <3>2. R(n + 1) = R(n)
      <4>1. \A c \in Cert : e # CertRevoked(c)
        BY SMT, <2>4 DEF CertRevoked
      <4> QED
        BY <1>rev, <4>1
    <3>3. ApplyEvent(v, e) = SetBlocked(v, x, b)
      BY <2>4 DEF ApplyEvent
    <3>4. \A cn \in Name \ {x} : e # Unblocked(cn) /\ e # Revoked(cn)
      BY SMT, <3>1 DEF Unblocked, Revoked
    <3>5. \A cn \in Name \ {x} : BlockedAfter(l, n + 1, cn) = BlockedAfter(l, n, cn)
      BY <1>blk, <3>4
    <3>6. \A cn \in Name : CurrentCert(l, n + 1, cn) = CurrentCert(l, n, cn)
      BY <1>cur, <2>4
    <3>7. EnrollmentsOf(l, n, x) = {} <=> CurrentCert(l, n, x) = NoCert
      BY <3>1, NoCertAssumption DEF HasCert, CurrentCert
    <3>a. D(n)[x] = [cert |-> CurrentCert(l, n, x), revoked |-> BlockedAfter(l, n, x)]
      BY <1>at, <3>1
    <3>c. v.devices[x].cert = CurrentCert(l, n, x)
      BY SMT, <1>v, <3>a
    <3>8. CASE EnrollmentsOf(l, n, x) = {}
      <4>1. ~BlockedAfter(l, n, x)
        <5>1. \A i \in 1..n : EnrollmentsOf(l, i, x) \subseteq EnrollmentsOf(l, n, x)
          BY SMT DEF EnrollmentsOf, EnrollmentsIn
        <5> QED
          BY <3>8, <5>1 DEF BlockedAfter
      <4>2. BlockedAfter(l, n + 1, x) = BlockedAfter(l, n, x)
        BY <1>blk, <1>bool, <3>1, <3>8, <4>1
      <4>3. D(n + 1) = D(n)
        BY <1>same, <3>5, <3>6, <4>2
      <4>4. SetBlocked(v, x, b) = v
        BY <3>c, <3>7, <3>8 DEF SetBlocked
      <4> QED
        BY <1>v, <1>w, <2>1, <2>2, <3>2, <3>3, <4>3, <4>4
    <3>9. CASE EnrollmentsOf(l, n, x) # {}
      <4>1. BlockedAfter(l, n + 1, x) = b
        BY <1>blk, <3>1, <3>9
      <4>2. D(n + 1) = [D(n) EXCEPT ![x] = [cert |-> CurrentCert(l, n, x), revoked |-> b]]
        BY <1>dev, <3>1, <3>5, <3>6, <4>1
      <4>3. D(n + 1) = [D(n) EXCEPT ![x].revoked = b]
        <5>1. [D(n)[x] EXCEPT !.revoked = b] = [cert |-> CurrentCert(l, n, x), revoked |-> b]
          BY SMT, <3>a
        <5> QED
          BY <4>2, <5>1
      <4>4. SetBlocked(v, x, b) = [v EXCEPT !.devices[x].revoked = b]
        BY <3>c, <3>7, <3>9 DEF SetBlocked
      <4> QED
        BY <1>v, <1>w, <2>1, <2>2, <3>2, <3>3, <4>3, <4>4
    <3> QED
      BY <3>8, <3>9
  <2> QED
    BY <1>3, <2>3, <2>4
<1> QED
  BY <1>cases, <1>1, <1>2, <1>3
-----------------------------------------------------------------------------
(***************************************************************************)
(* Facts about the reducer.                                                 *)
(***************************************************************************)

\* The reducer keeps the registry well typed.
LEMMA ApplyType ==
  ASSUME NEW r \in RegistryState, NEW e \in RegistryEvent
  PROVE  ApplyEvent(r, e) \in RegistryState
<1>1. CASE e.type = "Enrolled"
  <2>1. e \in [type: {"Enrolled"}, common_name: Name, cert: Cert, client_uid: Uid]
    BY <1>1 DEF RegistryEvent
  <2>2. r.next_cert_id + 1 \in Nat
    BY SMT DEF RegistryState
  <2>3. ApplyEvent(r, e) = ApplyEnrolled(r, e)
    BY <1>1 DEF ApplyEvent
  <2> DEFINE row == [id |-> r.next_cert_id + 1, common_name |-> e.common_name,
                     cert |-> e.cert, client_uid |-> e.client_uid]
             rows == r.certificates \cup {row}
             dev == [r.devices EXCEPT ![e.common_name].cert = e.cert]
  <2>4. row \in CertRecord
    BY <2>1, <2>2 DEF CertRecord
  <2>5. dev \in [Name -> DeviceRecord]
    BY SMT, <2>1 DEF RegistryState, DeviceRecord
  <2>6. ApplyEnrolled(r, e) = [r EXCEPT !.next_cert_id = r.next_cert_id + 1,
                                        !.certificates = rows,
                                        !.devices = dev]
    BY DEF ApplyEnrolled
  <2>7. rows \in SUBSET CertRecord
    BY <2>4 DEF RegistryState
  <2> HIDE DEF row, rows, dev
  <2>8. [r EXCEPT !.next_cert_id = r.next_cert_id + 1, !.certificates = rows,
                  !.devices = dev] \in RegistryState
    BY <2>2, <2>5, <2>7 DEF RegistryState
  <2> QED
    BY <2>3, <2>6, <2>8
<1>2. ASSUME NEW cn \in Name, NEW b \in BOOLEAN
      PROVE  SetBlocked(r, cn, b) \in RegistryState
  <2> DEFINE d == [r.devices[cn] EXCEPT !.revoked = b]
             D == [r.devices EXCEPT ![cn] = d]
  <2>1. r.devices \in [Name -> DeviceRecord] /\ r.devices[cn] \in DeviceRecord
    BY DEF RegistryState
  <2>2. d \in DeviceRecord
    BY <2>1 DEF DeviceRecord
  <2>3. SetBlocked(r, cn, b) = r \/ SetBlocked(r, cn, b) = [r EXCEPT !.devices = D]
    BY DEF SetBlocked
  <2> HIDE DEF d
  <2>4. D \in [Name -> DeviceRecord]
    BY <2>1, <2>2
  <2> HIDE DEF D
  <2> QED BY <2>3, <2>4 DEF RegistryState
<1>3. CASE e.type \in {"Revoked", "Unblocked"}
  <2>1. e.common_name \in Name
    BY <1>3 DEF RegistryEvent
  <2>2. \/ ApplyEvent(r, e) = SetBlocked(r, e.common_name, TRUE)
        \/ ApplyEvent(r, e) = SetBlocked(r, e.common_name, FALSE)
    BY <1>3 DEF ApplyEvent
  <2> QED
    BY <1>2, <2>1, <2>2
<1>4. CASE e.type = "CertRevoked"
  <2>1. e.fingerprint \in Cert
    BY <1>4 DEF RegistryEvent
  <2> QED
    BY <1>4, <2>1 DEF ApplyEvent, ApplyCertRevoked, RegistryState
<1>5. CASE e.type = "CertDeleted"
  BY <1>5 DEF ApplyEvent, ApplyCertDeleted, RegistryState
<1> QED
  BY <1>1, <1>3, <1>4, <1>5 DEF RegistryEvent

\* What the reducer never takes back: a revoked certificate, a block (but
\* for an unblock of that name); and what only one kind of event adds: a name
\* on record, a revoked certificate.
LEMMA ApplyKeeps ==
  ASSUME NEW r \in RegistryState, NEW e \in RegistryEvent
  PROVE  /\ r.revoked_certs \subseteq ApplyEvent(r, e).revoked_certs
         /\ \A cn \in Name : r.devices[cn].revoked /\ e # Unblocked(cn)
                              => ApplyEvent(r, e).devices[cn].revoked
         /\ \A cn \in Name : IsEnrolled(ApplyEvent(r, e), cn)
                => IsEnrolled(r, cn) \/ (e.type = "Enrolled" /\ e.common_name = cn)
         /\ \A c \in ApplyEvent(r, e).revoked_certs :
                c \in r.revoked_certs \/ e = CertRevoked(c)
<1>1. CASE e.type = "Enrolled"
  <2>1. ApplyEvent(r, e) = ApplyEnrolled(r, e) /\ e.common_name \in Name
    BY <1>1 DEF ApplyEvent, RegistryEvent
  <2> QED
    BY SMT, <1>1, <2>1 DEF ApplyEnrolled, RegistryState, DeviceRecord, IsEnrolled
<1>2. CASE e.type = "Revoked"
  <2>1. ApplyEvent(r, e) = SetBlocked(r, e.common_name, TRUE) /\ e.common_name \in Name
    BY <1>2 DEF ApplyEvent, RegistryEvent
  <2> QED
    BY SMT, <2>1 DEF SetBlocked, RegistryState, DeviceRecord, IsEnrolled
<1>3. CASE e.type = "Unblocked"
  <2>1. ApplyEvent(r, e) = SetBlocked(r, e.common_name, FALSE) /\ e.common_name \in Name
    BY <1>3 DEF ApplyEvent, RegistryEvent
  <2>2. e = Unblocked(e.common_name)
    BY <1>3 DEF RegistryEvent, Unblocked
  <2> QED
    BY SMT, <2>1, <2>2 DEF SetBlocked, RegistryState, DeviceRecord, IsEnrolled
<1>4. CASE e.type = "CertRevoked"
  <2>1. e = CertRevoked(e.fingerprint)
    BY <1>4 DEF RegistryEvent, CertRevoked
  <2> QED
    BY <1>4, <2>1 DEF ApplyEvent, ApplyCertRevoked, RegistryState, IsEnrolled
<1>5. CASE e.type = "CertDeleted"
  BY <1>5 DEF ApplyEvent, ApplyCertDeleted, RegistryState, IsEnrolled
<1> QED
  BY <1>1, <1>2, <1>3, <1>4, <1>5 DEF RegistryEvent

-----------------------------------------------------------------------------
(***************************************************************************)
(* The inductive invariant.  LogInv ties memory to the file: the replay     *)
(* stands at pos, and everything that memory knows comes from events before *)
(* pos.  PromiseInv says why an acknowledgement outlives a restart: the     *)
(* file holds the event behind it, and nothing after it in the file undoes  *)
(* it.                                                                      *)
(***************************************************************************)
LogInv ==
  /\ mode \in {"starting", "up"}
  /\ reg \in RegistryState
  /\ log \in Seq(RegistryEvent)
  /\ pos \in 0..Len(log)
  /\ skipped \subseteq 1..Len(log)
  /\ mode = "up" => pos = Len(log)
  /\ mode = "starting" => skipped = {}
  /\ HasCert(log, pos)
  /\ MemoryIsLogView
  /\ \A cn \in Name : IsEnrolled(reg, cn) => EnrollmentsOf(log, pos, cn) # {}
  /\ \A c \in reg.revoked_certs : \E i \in 1..pos : log[i] = CertRevoked(c)

Persisted(l, P, H) ==
  /\ \A c \in P : \E i \in 1..Len(l) : l[i] = CertRevoked(c)
  /\ \A cn \in H : BlockedAfter(l, Len(l), cn)

PromiseInv ==
  /\ promised \subseteq Cert
  /\ held \subseteq Name
  /\ Persisted(log, promised, held)
  /\ mode = "up" => /\ promised \subseteq reg.revoked_certs
                    /\ \A cn \in held : reg.devices[cn].revoked

RegInv == LogInv /\ PromiseInv

\* Appending an event moves the end of the log and nothing before it.
LEMMA AppendFacts ==
  ASSUME NEW l \in Seq(RegistryEvent), NEW e \in RegistryEvent
  PROVE  /\ Append(l, e) \in Seq(RegistryEvent)
         /\ Len(Append(l, e)) = Len(l) + 1
         /\ Len(l) \in Nat
         /\ Append(l, e)[Len(l) + 1] = e
         /\ \A i \in 1..Len(l) : Append(l, e)[i] = l[i]
  BY SMT

\* Appending to the log keeps what was promised, but for the block of a
\* name that the appended event unblocks.
LEMMA AppendPersisted ==
  ASSUME NEW l \in Seq(RegistryEvent), NEW e \in RegistryEvent,
         NEW P \in SUBSET Cert, NEW H \in SUBSET Name,
         Persisted(l, P, H), \A cn \in H : e # Unblocked(cn)
  PROVE  Persisted(Append(l, e), P, H)
<1> DEFINE k == Append(l, e)
<1>1. /\ Len(k) = Len(l) + 1 /\ Len(l) \in Nat
      /\ k[Len(l) + 1] = e
      /\ \A i \in 1..Len(l) : k[i] = l[i]
  BY AppendFacts
<1> HIDE DEF k
<1>2. \A c \in P : \E i \in 1..Len(k) : k[i] = CertRevoked(c)
  BY SMT, <1>1 DEF Persisted
<1>3. ASSUME NEW cn \in H
      PROVE  BlockedAfter(k, Len(k), cn)
  <2>1. PICK i \in 1..Len(l) : /\ l[i] = Revoked(cn)
                               /\ EnrollmentsOf(l, i, cn) # {}
                               /\ \A j \in i+1..Len(l) : l[j] # Unblocked(cn)
    BY DEF Persisted, BlockedAfter
  <2>2. EnrollmentsOf(k, i, cn) = EnrollmentsOf(l, i, cn)
    BY SMT, <1>1 DEF EnrollmentsOf, EnrollmentsIn
  <2>3. \A j \in i+1..Len(k) : k[j] # Unblocked(cn)
    BY SMT, <1>1, <2>1
  <2>4. i \in 1..Len(k) /\ k[i] = Revoked(cn)
    BY SMT, <1>1, <2>1
  <2> QED
    BY <2>1, <2>2, <2>3, <2>4 DEF BlockedAfter
<1> QED
  BY <1>2, <1>3 DEF Persisted, k

\* An acknowledged operation keeps memory and file together.
LEMMA CommittedLog ==
  ASSUME LogInv, mode = "up", NEW e \in RegistryEvent, Committed(e)
  PROVE  LogInv'
<1>0. /\ reg \in RegistryState /\ log \in Seq(RegistryEvent) /\ pos = Len(log)
      /\ mode' = "up" /\ skipped' = skipped /\ log' = Append(log, e)
      /\ reg' = ApplyEvent(reg, e) /\ pos' = pos + 1
  BY DEF LogInv, Committed
<1>1. /\ log' \in Seq(RegistryEvent)
      /\ Len(log') = Len(log) + 1 /\ Len(log) \in Nat
      /\ log'[Len(log) + 1] = e
      /\ \A i \in 1..Len(log) : log'[i] = log[i]
  BY <1>0, AppendFacts
<1>2. reg' \in RegistryState
  BY <1>0, ApplyType
<1>3. HasCert(log', Len(log))
  BY <1>0, <1>1, HasCertPrefix DEF LogInv
<1>4. View(log', Len(log)) = View(log, Len(log))
  BY <1>1, ViewPrefix
<1>5. /\ HasCert(log', Len(log) + 1)
      /\ View(log', Len(log) + 1) = ApplyEvent(View(log', Len(log)), e)
  BY SMT, <1>1, <1>3, ViewStep
<1>6. MemoryIsLogView'
  BY <1>0, <1>4, <1>5 DEF MemoryIsLogView, LogInv
<1>7. ASSUME NEW cn \in Name, IsEnrolled(reg', cn)
      PROVE  EnrollmentsOf(log', pos', cn) # {}
  <2>1. IsEnrolled(reg, cn) \/ (e.type = "Enrolled" /\ e.common_name = cn)
    BY <1>0, <1>7, ApplyKeeps
  <2>2. CASE IsEnrolled(reg, cn)
    BY SMT, <1>0, <1>1, <2>2 DEF LogInv, EnrollmentsOf, EnrollmentsIn
  <2>3. CASE e.type = "Enrolled" /\ e.common_name = cn
    BY SMT, <1>0, <1>1, <2>3 DEF EnrollmentsOf, EnrollmentsIn
  <2> QED
    BY <2>1, <2>2, <2>3
<1>8. ASSUME NEW c \in reg'.revoked_certs
      PROVE  \E i \in 1..pos' : log'[i] = CertRevoked(c)
  <2>1. c \in reg.revoked_certs \/ e = CertRevoked(c)
    BY <1>0, ApplyKeeps
  <2>2. c \in reg.revoked_certs => \E i \in 1..pos : log[i] = CertRevoked(c)
    BY DEF LogInv
  <2> QED
    BY SMT, <1>0, <1>1, <2>1, <2>2
<1> QED
  BY SMT, <1>0, <1>1, <1>2, <1>5, <1>6, <1>7, <1>8 DEF LogInv

\* A process that stops starts again with nothing in memory.
LEMMA StoppedLog ==
  ASSUME log' \in Seq(RegistryEvent), Stopped
  PROVE  LogInv'
<1>1. EmptyRegistry \in RegistryState
  BY DEF EmptyRegistry, RegistryState, DeviceRecord
<1>2. /\ EnrollmentsIn(log', 0) = {}
      /\ \A cn : EnrollmentsOf(log', 0, cn) = {}
  BY SMT DEF EnrollmentsOf, EnrollmentsIn
<1>3. View(log', 0) = EmptyRegistry
  <2>1. IdAt(log', 0) = 0
    BY <1>2, FS_EmptySet DEF IdAt
  <2>2. \A cn : CurrentCert(log', 0, cn) = NoCert /\ BlockedAfter(log', 0, cn) = FALSE
    BY SMT, <1>2 DEF CurrentCert, BlockedAfter
  <2>3. [cn \in Name |-> [cert    |-> CurrentCert(log', 0, cn),
                          revoked |-> BlockedAfter(log', 0, cn)]] = EmptyRegistry.devices
    BY <2>2 DEF EmptyRegistry
  <2>4. {c \in Cert : \E i \in 1..0 : log'[i] = CertRevoked(c)} = {}
    BY SMT
  <2>5. View(log', 0).certificates = {}
    BY <1>2 DEF View
  <2> QED
    BY <2>1, <2>3, <2>4, <2>5 DEF View, EmptyRegistry
<1>4. HasCert(log', 0)
  BY <1>2 DEF HasCert
<1>5. EmptyRegistry.revoked_certs = {} /\ \A cn \in Name : ~IsEnrolled(EmptyRegistry, cn)
  BY DEF IsEnrolled, EmptyRegistry
<1> QED
  BY SMT, <1>1, <1>3, <1>4, <1>5 DEF Stopped, LogInv, MemoryIsLogView

\* An operation that does not return Ok leaves memory and file related.
LEMMA InterruptedLog ==
  ASSUME LogInv, mode = "up", NEW e \in RegistryEvent, Interrupted(e)
  PROVE  LogInv'
<1>0. /\ reg \in RegistryState /\ log \in Seq(RegistryEvent) /\ pos = Len(log)
  BY DEF LogInv
<1>1. CASE log' = Append(log, e) /\ Stopped
  BY <1>0, <1>1, StoppedLog, AppendFacts
<1>2. CASE UNCHANGED <<log, pos, skipped, mode, reg>>
  BY <1>2 DEF LogInv, MemoryIsLogView
<1>3. CASE /\ log' = Append(log, e)
           /\ pos' = pos + 1
           /\ skipped' = skipped \cup {Len(log) + 1}
           /\ UNCHANGED <<mode, reg>>
  <2>1. /\ log' \in Seq(RegistryEvent)
        /\ Len(log') = Len(log) + 1 /\ Len(log) \in Nat
        /\ log'[Len(log) + 1] = e
        /\ \A i \in 1..Len(log) : log'[i] = log[i]
    BY <1>0, <1>3, AppendFacts
  <2>2. HasCert(log', Len(log))
    BY <1>0, <2>1, HasCertPrefix DEF LogInv
  <2>3. HasCert(log', Len(log) + 1)
    BY SMT, <2>1, <2>2, ViewStep
  <2>4. ASSUME NEW cn \in Name, IsEnrolled(reg, cn)
        PROVE  EnrollmentsOf(log', pos', cn) # {}
    BY SMT, <1>0, <1>3, <2>1, <2>4 DEF LogInv, EnrollmentsOf, EnrollmentsIn
  <2>5. MemoryIsLogView'
    BY <1>3 DEF MemoryIsLogView
  <2>6. skipped' \subseteq 1..Len(log')
    <3>1. skipped \subseteq 1..Len(log)
      BY DEF LogInv
    <3>2. 1..Len(log) \subseteq 1..(Len(log) + 1) /\ Len(log) + 1 \in 1..(Len(log) + 1)
      BY SMT, <2>1
    <3> QED
      BY <1>3, <2>1, <3>1, <3>2
  <2>7. \A cn \in Name : IsEnrolled(reg', cn) => EnrollmentsOf(log', pos', cn) # {}
    BY <1>3, <2>4
  <2>8. ASSUME NEW c \in reg'.revoked_certs
        PROVE  \E i \in 1..pos' : log'[i] = CertRevoked(c)
    <3>1. \E i \in 1..pos : log[i] = CertRevoked(c)
      BY <1>3 DEF LogInv
    <3> QED
      BY SMT, <1>0, <1>3, <2>1, <3>1
  <2> QED
    BY SMT, <1>0, <1>3, <2>1, <2>3, <2>5, <2>6, <2>7, <2>8 DEF LogInv
<1> QED
  BY <1>1, <1>2, <1>3 DEF Interrupted

\* One step of the replay.
LEMMA ReplayLog ==
  ASSUME LogInv, ReplayEvent
  PROVE  LogInv'
<1>0. /\ reg \in RegistryState /\ log \in Seq(RegistryEvent) /\ pos \in Nat
      /\ pos < Len(log) /\ Len(log) \in Nat /\ skipped = {} /\ mode = "starting"
      /\ reg' = ApplyEvent(reg, log[pos + 1]) /\ pos' = pos + 1
      /\ UNCHANGED <<mode, log, skipped>>
      /\ log[pos + 1] \in RegistryEvent
  BY SMT DEF LogInv, ReplayEvent
<1>1. reg' \in RegistryState
  BY <1>0, ApplyType
<1>2. /\ HasCert(log, pos + 1)
      /\ View(log, pos + 1) = ApplyEvent(View(log, pos), log[pos + 1])
  BY <1>0, ViewStep DEF LogInv
<1>3. MemoryIsLogView'
  BY <1>0, <1>2 DEF MemoryIsLogView, LogInv
<1>4. ASSUME NEW cn \in Name, IsEnrolled(reg', cn)
      PROVE  EnrollmentsOf(log', pos', cn) # {}
  <2> DEFINE e == log[pos + 1]
  <2>1. IsEnrolled(reg, cn) \/ (e.type = "Enrolled" /\ e.common_name = cn)
    BY <1>0, <1>4, ApplyKeeps
  <2>2. CASE IsEnrolled(reg, cn)
    BY SMT, <1>0, <2>2 DEF LogInv, EnrollmentsOf, EnrollmentsIn
  <2>3. CASE e.type = "Enrolled" /\ e.common_name = cn
    BY SMT, <1>0, <2>3 DEF EnrollmentsOf, EnrollmentsIn
  <2> QED
    BY <2>1, <2>2, <2>3
<1>5. ASSUME NEW c \in reg'.revoked_certs
      PROVE  \E i \in 1..pos' : log'[i] = CertRevoked(c)
  <2>1. c \in reg.revoked_certs \/ log[pos + 1] = CertRevoked(c)
    BY <1>0, ApplyKeeps
  <2>2. c \in reg.revoked_certs => \E i \in 1..pos : log[i] = CertRevoked(c)
    BY DEF LogInv
  <2> QED
    BY SMT, <1>0, <2>1, <2>2
<1> QED
  BY SMTT(30), <1>0, <1>1, <1>2, <1>3, <1>4, <1>5 DEF LogInv

-----------------------------------------------------------------------------
(***************************************************************************)
(* The invariant holds and implies the properties.                          *)
(***************************************************************************)

\* An operation that commits an event, keeps what was promised and promises
\* only what the event does.
LEMMA CommittedPromise ==
  ASSUME RegInv, mode = "up", NEW e \in RegistryEvent, Committed(e),
         promised' \in SUBSET Cert, held' \in SUBSET Name,
         \A c \in promised' \ promised : e = CertRevoked(c),
         \A cn \in held' \ held : e = Revoked(cn) /\ IsEnrolled(reg, cn),
         \A cn \in held' : e # Unblocked(cn)
  PROVE  PromiseInv'
<1>0. /\ reg \in RegistryState /\ log \in Seq(RegistryEvent) /\ pos = Len(log)
      /\ log' = Append(log, e) /\ reg' = ApplyEvent(reg, e)
  BY DEF RegInv, LogInv, Committed
<1>1. /\ Len(log') = Len(log) + 1 /\ Len(log) \in Nat
      /\ log'[Len(log) + 1] = e
      /\ \A i \in 1..Len(log) : log'[i] = log[i]
  BY <1>0, AppendFacts
<1>2. Persisted(log', promised, held \cap held')
  <2>1. Persisted(log, promised, held \cap held')
    BY DEF RegInv, PromiseInv, Persisted
  <2> QED
    BY <1>0, <2>1, AppendPersisted DEF RegInv, PromiseInv
<1>3. \A c \in promised' : \E i \in 1..Len(log') : log'[i] = CertRevoked(c)
  BY SMT, <1>1, <1>2 DEF Persisted
<1>4. ASSUME NEW cn \in held'
      PROVE  BlockedAfter(log', Len(log'), cn)
  <2>1. CASE cn \in held
    BY <1>2, <2>1 DEF Persisted
  <2>2. CASE cn \notin held
    <3>1. e = Revoked(cn) /\ IsEnrolled(reg, cn)
      BY <2>2
    <3>2. EnrollmentsOf(log, Len(log), cn) # {}
      BY <1>0, <3>1 DEF RegInv, LogInv
    <3>3. EnrollmentsOf(log', Len(log) + 1, cn) # {}
      BY SMT, <1>1, <3>2 DEF EnrollmentsOf, EnrollmentsIn
    <3> QED
      BY SMT, <1>1, <3>1, <3>3 DEF BlockedAfter
  <2> QED
    BY <2>1, <2>2
<1>5. promised' \subseteq reg'.revoked_certs
  <2>1. promised \subseteq reg.revoked_certs
    BY DEF RegInv, PromiseInv
  <2>2. reg.revoked_certs \subseteq reg'.revoked_certs
    BY <1>0, ApplyKeeps
  <2>3. ASSUME NEW c \in promised', c \notin promised
        PROVE  c \in reg'.revoked_certs
    <3>1. e = CertRevoked(c)
      BY <2>3
    <3>2. e.type = "CertRevoked" /\ e.fingerprint = c
      BY <3>1 DEF CertRevoked
    <3>3. reg' = ApplyCertRevoked(reg, e)
      BY <1>0, <3>2 DEF ApplyEvent
    <3> QED
      BY <1>0, <3>2, <3>3 DEF ApplyCertRevoked, RegistryState
  <2> QED
    BY <2>1, <2>2, <2>3
<1>6. ASSUME NEW cn \in held'
      PROVE  reg'.devices[cn].revoked
  <2>1. CASE cn \in held
    <3>1. reg.devices[cn].revoked
      BY <2>1 DEF RegInv, PromiseInv
    <3> QED
      BY <1>0, <3>1, ApplyKeeps
  <2>2. CASE cn \notin held
    <3>1. e = Revoked(cn) /\ IsEnrolled(reg, cn)
      BY <2>2
    <3>2. e.type = "Revoked" /\ e.common_name = cn
      BY <3>1 DEF Revoked
    <3>3. reg' = SetBlocked(reg, cn, TRUE)
      BY <1>0, <3>2 DEF ApplyEvent
    <3> QED
      BY SMT, <1>0, <3>1, <3>3 DEF SetBlocked, IsEnrolled, RegistryState, DeviceRecord
  <2> QED
    BY <2>1, <2>2
<1> QED
  BY <1>3, <1>4, <1>5, <1>6 DEF PromiseInv, Persisted

\* An operation that does not return Ok promises nothing and breaks no
\* promise, unless it was asked to lift the block.
LEMMA InterruptedPromise ==
  ASSUME RegInv, mode = "up", NEW e \in RegistryEvent, Interrupted(e),
         held' \in SUBSET held,
         \A cn \in held' : e # Unblocked(cn)
  PROVE  PromiseInv'
<1>0. /\ log \in Seq(RegistryEvent) /\ promised \subseteq Cert /\ held \subseteq Name
      /\ promised' = promised
      /\ Persisted(log, promised, held')
  BY DEF RegInv, LogInv, PromiseInv, Persisted, Interrupted, Stopped
<1>1. CASE log' = Append(log, e)
  <2>1. Persisted(log', promised, held')
    BY <1>0, <1>1, AppendPersisted
  <2>2. mode' = "starting" \/ (mode' = mode /\ reg' = reg)
    BY DEF Interrupted, Stopped
  <2> QED
    BY <1>0, <2>1, <2>2 DEF RegInv, PromiseInv
<1>2. CASE UNCHANGED <<log, mode, reg>>
  BY <1>0, <1>2 DEF RegInv, PromiseInv
<1> QED
  BY <1>1, <1>2 DEF Interrupted

\* The invariant holds in the initial state.
LEMMA RegInvInit == Init => RegInv
<1> SUFFICES ASSUME Init PROVE RegInv
  OBVIOUS
<1>1. EmptyRegistry \in RegistryState
  BY DEF EmptyRegistry, RegistryState, DeviceRecord
<1>2. log = << >> /\ pos = 0 /\ Len(log) = 0 /\ log \in Seq(RegistryEvent)
  BY SMT DEF Init
<1>3. EnrollmentsIn(log, 0) = {} /\ \A cn : EnrollmentsOf(log, 0, cn) = {}
  BY SMT DEF EnrollmentsOf, EnrollmentsIn
<1>4. View(log, 0) = EmptyRegistry
  <2>1. IdAt(log, 0) = 0
    BY <1>3, FS_EmptySet DEF IdAt
  <2>2. \A cn : CurrentCert(log, 0, cn) = NoCert /\ BlockedAfter(log, 0, cn) = FALSE
    BY SMT, <1>3 DEF CurrentCert, BlockedAfter
  <2>3. [cn \in Name |-> [cert    |-> CurrentCert(log, 0, cn),
                          revoked |-> BlockedAfter(log, 0, cn)]] = EmptyRegistry.devices
    BY <2>2 DEF EmptyRegistry
  <2>4. {c \in Cert : \E i \in 1..0 : log[i] = CertRevoked(c)} = {}
    BY SMT
  <2>5. View(log, 0).certificates = {}
    BY <1>3 DEF View
  <2> QED
    BY <2>1, <2>3, <2>4, <2>5 DEF View, EmptyRegistry
<1>5. LogInv
  BY SMT, <1>1, <1>2, <1>3, <1>4 DEF LogInv, Init, MemoryIsLogView, HasCert, IsEnrolled, EmptyRegistry
<1>6. PromiseInv
  BY DEF PromiseInv, Persisted, Init
<1> QED
  BY <1>5, <1>6 DEF RegInv

\* Every step keeps the invariant.
LEMMA RegInvNext == RegInv /\ [Next]_vars => RegInv'
<1> SUFFICES ASSUME RegInv, [Next]_vars PROVE RegInv'
  OBVIOUS
<1>0. LogInv /\ PromiseInv /\ promised \subseteq Cert /\ held \subseteq Name
  BY DEF RegInv, PromiseInv
<1>1. ASSUME NEW cn \in Name, NEW cert \in Cert, NEW uid \in Uid,
             EnrollWithClientUid(cn, cert, uid)
      PROVE  RegInv'
  <2> DEFINE e == Enrolled(cn, cert, uid)
  <2>1. e \in RegistryEvent /\ mode = "up" /\ (\A x : e # Unblocked(x))
    BY <1>1 DEF EnrollWithClientUid, Serving, Enrolled, RegistryEvent, Unblocked
  <2>2. held' = held /\ ((Committed(e) /\ promised' = promised) \/ Interrupted(e))
    BY <1>1 DEF EnrollWithClientUid
  <2> HIDE DEF e
  <2>3. CASE Committed(e) /\ promised' = promised
    BY <1>0, <2>1, <2>2, <2>3, CommittedLog, CommittedPromise DEF RegInv
  <2>4. CASE Interrupted(e)
    BY <1>0, <2>1, <2>2, <2>4, InterruptedLog, InterruptedPromise DEF RegInv
  <2> QED
    BY <2>2, <2>3, <2>4
<1>2. ASSUME NEW cn \in Name, Revoke(cn)
      PROVE  RegInv'
  <2> DEFINE e == Revoked(cn)
  <2>1. e \in RegistryEvent /\ mode = "up" /\ (\A x : e # Unblocked(x)) /\ IsEnrolled(reg, cn)
    BY <1>2 DEF Revoke, Serving, Revoked, RegistryEvent, Unblocked
  <2>2. \/ Committed(e) /\ promised' = promised /\ held' = held \cup {cn}
        \/ Interrupted(e) /\ held' = held
    BY <1>2 DEF Revoke
  <2>3. \A x \in (held \cup {cn}) \ held : e = Revoked(x) /\ IsEnrolled(reg, x)
    BY <2>1
  <2> HIDE DEF e
  <2>4. CASE Committed(e) /\ promised' = promised /\ held' = held \cup {cn}
    <3>1. held' \in SUBSET Name
      BY <1>0, <2>4
    <3> QED
      BY <1>0, <2>1, <2>3, <2>4, <3>1, CommittedLog, CommittedPromise DEF RegInv
  <2>5. CASE Interrupted(e) /\ held' = held
    BY <1>0, <2>1, <2>5, InterruptedLog, InterruptedPromise DEF RegInv
  <2> QED
    BY <2>2, <2>4, <2>5
<1>3. ASSUME NEW cn \in Name, Unblock(cn)
      PROVE  RegInv'
  <2> DEFINE e == Unblocked(cn)
  <2>1. e \in RegistryEvent /\ mode = "up" /\ held' = held \ {cn}
    BY <1>3 DEF Unblock, Serving, Unblocked, RegistryEvent
  <2>2. (Committed(e) /\ promised' = promised) \/ Interrupted(e)
    BY <1>3 DEF Unblock
  <2>3. \A x \in held' : e # Unblocked(x)
    BY <2>1 DEF Unblocked
  <2> HIDE DEF e
  <2>4. CASE Committed(e) /\ promised' = promised
    BY <1>0, <2>1, <2>3, <2>4, CommittedLog, CommittedPromise DEF RegInv
  <2>5. CASE Interrupted(e)
    BY <1>0, <2>1, <2>3, <2>5, InterruptedLog, InterruptedPromise DEF RegInv
  <2> QED
    BY <2>2, <2>4, <2>5
<1>4. ASSUME NEW cert \in Cert, RevokeCert(cert)
      PROVE  RegInv'
  <2> DEFINE e == CertRevoked(cert)
  <2>1. e \in RegistryEvent /\ mode = "up" /\ held' = held /\ (\A x : e # Unblocked(x))
    BY <1>4 DEF RevokeCert, Serving, CertRevoked, RegistryEvent, Unblocked
  <2>2. CASE cert \in reg.revoked_certs
    <3>1. promised' = promised \cup {cert} /\ UNCHANGED <<mode, reg, log, pos, skipped>>
      BY <1>4, <2>2 DEF RevokeCert
    <3>2. LogInv'
      BY <1>0, <3>1 DEF LogInv, MemoryIsLogView
    <3>3. \E i \in 1..Len(log) : log[i] = CertRevoked(cert)
      BY <1>0, <2>1, <2>2 DEF LogInv
    <3>4. PromiseInv'
      BY <1>0, <2>1, <2>2, <3>1, <3>3 DEF PromiseInv, Persisted
    <3> QED
      BY <3>2, <3>4 DEF RegInv
  <2>3. CASE cert \notin reg.revoked_certs
    <3>1. \/ Committed(e) /\ promised' = promised \cup {cert}
          \/ Interrupted(e)
      BY <1>4, <2>3 DEF RevokeCert
    <3>2. \A c \in (promised \cup {cert}) \ promised : e = CertRevoked(c)
      OBVIOUS
    <3> HIDE DEF e
    <3>3. CASE Committed(e) /\ promised' = promised \cup {cert}
      <4>1. promised' \in SUBSET Cert
        BY <1>0, <3>3
      <4> QED
        BY <1>0, <2>1, <3>2, <3>3, <4>1, CommittedLog, CommittedPromise DEF RegInv
    <3>4. CASE Interrupted(e)
      BY <1>0, <2>1, <3>4, InterruptedLog, InterruptedPromise DEF RegInv
    <3> QED
      BY <3>1, <3>3, <3>4
  <2> QED
    BY <2>2, <2>3
<1>5. ASSUME NEW id \in 1..reg.next_cert_id, DeleteCert(id)
      PROVE  RegInv'
  <2> DEFINE e == CertDeleted(id)
  <2>1. id \in Nat
    BY SMT, <1>0 DEF LogInv, RegistryState
  <2>2. e \in RegistryEvent /\ mode = "up" /\ held' = held /\ (\A x : e # Unblocked(x))
    BY <1>5, <2>1 DEF DeleteCert, Serving, CertDeleted, RegistryEvent, Unblocked
  <2>3. (Committed(e) /\ promised' = promised) \/ Interrupted(e)
    BY <1>5 DEF DeleteCert
  <2> HIDE DEF e
  <2>4. CASE Committed(e) /\ promised' = promised
    BY <1>0, <2>2, <2>4, CommittedLog, CommittedPromise DEF RegInv
  <2>5. CASE Interrupted(e)
    BY <1>0, <2>2, <2>5, InterruptedLog, InterruptedPromise DEF RegInv
  <2> QED
    BY <2>3, <2>4, <2>5
<1>6. CASE ReplayEvent
  <2>1. LogInv'
    BY <1>0, <1>6, ReplayLog
  <2>2. PromiseInv'
    BY <1>0, <1>6 DEF ReplayEvent, PromiseInv
  <2> QED
    BY <2>1, <2>2 DEF RegInv
<1>7. CASE Started
  <2>1. /\ UNCHANGED <<reg, log, pos, skipped, promised, held>>
        /\ mode = "starting" /\ mode' = "up" /\ pos = Len(log)
    BY <1>7 DEF Started
  <2>2. LogInv'
    BY <1>0, <2>1 DEF LogInv, MemoryIsLogView
  <2>3. reg = View(log, Len(log))
    BY <1>0, <2>1 DEF LogInv, MemoryIsLogView
  <2>4. promised \subseteq reg.revoked_certs
    BY <1>0, <2>3 DEF PromiseInv, Persisted, View
  <2>5. \A cn \in held : reg.devices[cn].revoked
    BY <1>0, <2>3 DEF PromiseInv, Persisted, View
  <2> QED
    BY <1>0, <2>1, <2>2, <2>4, <2>5 DEF RegInv, PromiseInv
<1>8. CASE Crash
  <2>1. log' = log /\ held' = held /\ promised' = promised /\ mode' = "starting" /\ Stopped
    BY <1>8 DEF Crash, Stopped
  <2>2. LogInv'
    BY <1>0, <2>1, StoppedLog DEF LogInv
  <2> QED
    BY <1>0, <2>1, <2>2 DEF RegInv, PromiseInv
<1>9. CASE UNCHANGED vars
  BY <1>0, <1>9 DEF vars, RegInv, LogInv, PromiseInv, MemoryIsLogView
<1> QED
  BY <1>1, <1>2, <1>3, <1>4, <1>5, <1>6, <1>7, <1>8, <1>9
  DEF Next, EnrollNewWithClientUid

\* The invariant holds in every reachable state.
LEMMA RegInvAlways == Spec => []RegInv
  BY RegInvInit, RegInvNext, PTL DEF Spec

\* Memory is the closed-form meaning of the log, through every interleaving of
\* operations, crashes and replays (until an append fails).
THEOREM MemoryIsLogViewAlways == Spec => []MemoryIsLogView
<1>1. RegInv => MemoryIsLogView
  BY DEF RegInv, LogInv
<1> QED
  BY <1>1, RegInvAlways, PTL

\* An acknowledged revocation is final, whatever is deleted, re-enrolled,
\* unblocked, interrupted or restarted afterwards.
THEOREM RevokedForGoodAlways == Spec => []RevokedForGood
<1>1. RegInv => RevokedForGood
  BY DEF RegInv, PromiseInv, RevokedForGood, Access
<1> QED
  BY <1>1, RegInvAlways, PTL

\* A block holds for every certificate until an unblock is asked for.
THEOREM BlockHoldsAlways == Spec => []BlockHolds
<1>1. RegInv => BlockHolds
  BY DEF RegInv, PromiseInv, BlockHolds, Access
<1> QED
  BY <1>1, RegInvAlways, PTL

-----------------------------------------------------------------------------
(***************************************************************************)
(* Types, and the ids of the listed rows.                                   *)
(***************************************************************************)

Shape(L, S) ==
  /\ \/ L' = L
     \/ \E e \in RegistryEvent : L' = Append(L, e)
  /\ S' = S \/ S' = S \cup Rows(reg')
  /\ ~AppendMayFail /\ skipped = {} => skipped' = {}
  /\ revocations \in Nat => revocations' \in Nat

\* What every step does to the log, the listed rows and the counter.
LEMMA StepShape == LogInv /\ [Next]_vars => Shape(log, shown)
<1> SUFFICES ASSUME LogInv, [Next]_vars PROVE Shape(log, shown)
  OBVIOUS
<1>c. ASSUME NEW e \in RegistryEvent, Committed(e), Signalled \/ UNCHANGED revocations
      PROVE  Shape(log, shown)
  BY SMT, <1>c DEF Committed, Signalled, Shape
<1>i. ASSUME NEW e \in RegistryEvent, Interrupted(e)
      PROVE  Shape(log, shown)
  BY SMT, <1>i DEF Interrupted, Stopped, Shape
<1>1. ASSUME NEW cn \in Name, NEW cert \in Cert, NEW uid \in Uid,
             EnrollWithClientUid(cn, cert, uid)
      PROVE  Shape(log, shown)
  <2>1. Enrolled(cn, cert, uid) \in RegistryEvent
    BY DEF Enrolled, RegistryEvent
  <2> QED
    BY <1>1, <1>c, <1>i, <2>1 DEF EnrollWithClientUid
<1>2. ASSUME NEW cn \in Name, Revoke(cn) \/ Unblock(cn)
      PROVE  Shape(log, shown)
  <2>1. Revoked(cn) \in RegistryEvent /\ Unblocked(cn) \in RegistryEvent
    BY DEF Revoked, Unblocked, RegistryEvent
  <2> QED
    BY <1>2, <1>c, <1>i, <2>1 DEF Revoke, Unblock
<1>3. ASSUME NEW cert \in Cert, RevokeCert(cert)
      PROVE  Shape(log, shown)
  <2>1. CertRevoked(cert) \in RegistryEvent
    BY DEF CertRevoked, RegistryEvent
  <2>2. CASE cert \in reg.revoked_certs
    BY SMT, <1>3, <2>2 DEF RevokeCert, Signalled, Shape
  <2>3. CASE cert \notin reg.revoked_certs
    BY <1>3, <1>c, <1>i, <2>1, <2>3 DEF RevokeCert
  <2> QED
    BY <2>2, <2>3
<1>4. ASSUME NEW id \in 1..reg.next_cert_id, DeleteCert(id)
      PROVE  Shape(log, shown)
  <2>1. CertDeleted(id) \in RegistryEvent
    BY SMT DEF CertDeleted, RegistryEvent, LogInv, RegistryState
  <2> QED
    BY <1>4, <1>c, <1>i, <2>1 DEF DeleteCert
<1>5. CASE ReplayEvent
  BY <1>5 DEF ReplayEvent, Shape
<1>6. CASE Started
  BY <1>6 DEF Started, Shape
<1>7. CASE Crash
  BY <1>7 DEF Crash, Stopped, Shape
<1>8. CASE UNCHANGED vars
  BY <1>8 DEF vars, Shape
<1> QED
  BY <1>1, <1>2, <1>3, <1>4, <1>5, <1>6, <1>7, <1>8
  DEF Next, EnrollNewWithClientUid

\* Every variable keeps its type, the state after a partial replay included.
THEOREM TypeOKAlways == Spec => []TypeOK
<1> DEFINE Inv == RegInv /\ revocations \in Nat /\ shown \subseteq Nat \X Cert
<1>1. Init => Inv
  BY SMT, RegInvInit DEF Init
<1>2. Inv /\ [Next]_vars => Inv'
  <2> SUFFICES ASSUME Inv, [Next]_vars PROVE Inv'
    OBVIOUS
  <2>1. RegInv' /\ Shape(log, shown)
    BY RegInvNext, StepShape DEF RegInv
  <2>2. reg' \in RegistryState
    BY <2>1 DEF RegInv, LogInv
  <2>3. Rows(reg') \subseteq Nat \X Cert
    BY SMT, <2>2 DEF Rows, RegistryState, CertRecord
  <2> QED
    BY <2>1, <2>3 DEF Shape
<1>3. Inv => TypeOK
  BY DEF RegInv, LogInv, PromiseInv, TypeOK
<1> QED
  BY <1>1, <1>2, <1>3, PTL DEF Spec

\* A later enrollment has a larger id.
LEMMA IdsIncrease ==
  ASSUME NEW l, NEW n \in Nat, NEW i \in EnrollmentsIn(l, n),
         NEW j \in EnrollmentsIn(l, n), i < j
  PROVE  IdAt(l, i) < IdAt(l, j)
<1>1. i \in 1..n /\ j \in 1..n /\ j - 1 \in Nat /\ (j - 1) + 1 = j
      /\ l[j].type = "Enrolled" /\ i \in Nat
  BY SMT DEF EnrollmentsIn
<1>2. IdAt(l, j) = IdAt(l, j - 1) + 1
  BY <1>1, IdAtStep
<1>3. EnrollmentsIn(l, i) \subseteq EnrollmentsIn(l, j - 1)
  BY SMT, <1>1 DEF EnrollmentsIn
<1>4. IdAt(l, i) <= IdAt(l, j - 1)
  BY <1>1, <1>3, IdAtType, FS_Subset DEF IdAt
<1> QED
  BY SMT, <1>1, <1>2, <1>4, IdAtType

\* The listed rows are rows of enrollments in the log.
ShownInv ==
  /\ skipped = {}
  /\ \A r \in shown : \E i \in EnrollmentsIn(log, Len(log)) :
        r = <<IdAt(log, i), log[i].cert>>

\* Without failed appends, the id shown for a certificate is its id for ever,
\* across restarts, so an operation by id hits the certificate that was listed.
THEOREM IdsStableAlways == ~AppendMayFail /\ Spec => []IdsStable
<1> SUFFICES ASSUME ~AppendMayFail PROVE Spec => []IdsStable
  OBVIOUS
<1>1. Init => ShownInv
  BY DEF Init, ShownInv
<1>2. RegInv /\ RegInv' /\ ShownInv /\ [Next]_vars => ShownInv'
  <2> SUFFICES ASSUME RegInv, RegInv', ShownInv, [Next]_vars PROVE ShownInv'
    OBVIOUS
  <2>1. Shape(log, shown)
    BY StepShape DEF RegInv
  <2>2. skipped' = {}
    BY <2>1 DEF Shape, ShownInv
  <2>3. /\ Len(log) \in Nat /\ Len(log) <= Len(log') /\ Len(log') \in Nat
        /\ \A i \in 1..Len(log) : log'[i] = log[i]
    BY SMT, <2>1, AppendFacts DEF Shape, RegInv, LogInv
  <2>4. ASSUME NEW r \in shown
        PROVE  \E i \in EnrollmentsIn(log', Len(log')) : r = <<IdAt(log', i), log'[i].cert>>
    <3>1. PICK i \in EnrollmentsIn(log, Len(log)) : r = <<IdAt(log, i), log[i].cert>>
      BY DEF ShownInv
    <3>2. i \in 1..Len(log) /\ i \in 0..Len(log) /\ log'[i] = log[i]
      BY SMT, <2>3, <3>1 DEF EnrollmentsIn
    <3>3. IdAt(log', i) = IdAt(log, i)
      BY <2>3, <3>2, EnrollmentsPrefix
    <3>4. i \in EnrollmentsIn(log', Len(log'))
      BY SMT, <2>3, <3>1, <3>2 DEF EnrollmentsIn
    <3> QED
      BY <3>1, <3>2, <3>3, <3>4
  <2>5. ASSUME NEW r \in Rows(reg')
        PROVE  \E i \in EnrollmentsIn(log', Len(log')) : r = <<IdAt(log', i), log'[i].cert>>
    <3>1. reg' = View(log', pos') /\ pos' \in 0..Len(log')
      BY <2>2 DEF RegInv, LogInv, MemoryIsLogView
    <3>2. PICK c \in View(log', pos').certificates : r = <<c.id, c.cert>>
      BY <3>1 DEF Rows
    <3>3. PICK i \in EnrollmentsIn(log', pos') : c = RowAt(log', i)
      BY <3>2 DEF View
    <3>4. r = <<IdAt(log', i), log'[i].cert>>
      BY <3>2, <3>3 DEF RowAt
    <3>5. i \in EnrollmentsIn(log', Len(log'))
      BY SMT, <2>3, <3>1, <3>3 DEF EnrollmentsIn
    <3> QED
      BY <3>4, <3>5
  <2> QED
    BY <2>1, <2>2, <2>4, <2>5 DEF Shape, ShownInv
<1>3. RegInv /\ ShownInv => IdsStable
  <2> SUFFICES ASSUME RegInv, ShownInv, NEW r \in shown, NEW s \in shown, r[1] = s[1]
               PROVE  r[2] = s[2]
    BY DEF IdsStable
  <2>1. PICK i \in EnrollmentsIn(log, Len(log)) : r = <<IdAt(log, i), log[i].cert>>
    BY DEF ShownInv
  <2>2. PICK j \in EnrollmentsIn(log, Len(log)) : s = <<IdAt(log, j), log[j].cert>>
    BY DEF ShownInv
  <2>3. Len(log) \in Nat /\ i \in Nat /\ j \in Nat
    BY SMT DEF RegInv, LogInv, EnrollmentsIn
  <2>4. IdAt(log, i) = IdAt(log, j) /\ IdAt(log, i) \in Nat
    BY <2>1, <2>2, <2>3, IdAtType
  <2>5. i = j
    BY SMT, <2>3, <2>4, IdsIncrease
  <2> QED
    BY <2>1, <2>2, <2>5
<1> QED
  BY <1>1, <1>2, <1>3, RegInvAlways, PTL DEF Spec

-----------------------------------------------------------------------------
(***************************************************************************)
(* Proofs about the admin's certificate requests, for every set of names,   *)
(* certificates and uids, every bound, and with or without failing appends: *)
(* what was taken from a list stays true until the request that uses it     *)
(* comes, and a revocation has revoked what it has passed.                  *)
(***************************************************************************)

-----------------------------------------------------------------------------
(***************************************************************************)
(* Memory and file.  A certificate is enrolled once.  Every row has its     *)
(* enrollment among the first n events, rows with larger ids have later     *)
(* ones, and the row of a device's current certificate has the largest id   *)
(* of its name.  This holds of memory also when it skipped events.          *)
(***************************************************************************)
Distinct(l) ==
  \A i, j \in EnrollmentsIn(l, Len(l)) : l[i].cert = l[j].cert => i = j

RowsInv(l, n, r) ==
  /\ \A c \in r.certificates :
       /\ c.id <= r.next_cert_id
       /\ \E i \in EnrollmentsIn(l, n) : l[i].cert = c.cert /\ l[i].common_name = c.common_name
  /\ \A c, d \in r.certificates : \A i, j \in EnrollmentsIn(l, n) :
       c.id < d.id /\ l[i].cert = c.cert /\ l[j].cert = d.cert => i < j
  /\ \A cn \in Name : r.devices[cn].cert # NoCert =>
       \E i \in EnrollmentsOf(l, n, cn) : l[i].cert = r.devices[cn].cert
  /\ \A cn \in Name, c, d \in r.certificates :
       c.cert = r.devices[cn].cert /\ d.common_name = cn => d.id <= c.id

\* While memory has applied every event, nothing enrolls a name after its
\* current certificate.
LatestInv(l, n, r) ==
  \A cn \in Name : \A i, j \in EnrollmentsOf(l, n, cn) : l[i].cert = r.devices[cn].cert => j <= i

(***************************************************************************)
(* Without an enrollment that is in the file and was not applied, ids are   *)
(* those of the file.                                                       *)
(***************************************************************************)
Entry(l, n, c) == \E i \in EnrollmentsIn(l, n) : c.id = IdAt(l, i) /\ c.cert = l[i].cert

IdsInv(l, n, r) ==
  /\ r.next_cert_id = IdAt(l, n)
  /\ \A c \in r.certificates : Entry(l, n, c)

\* In the file, an enrollment of the same name comes after that of c.
Superseded(l, c) ==
  \E i, j \in EnrollmentsIn(l, Len(l)) :
     i < j /\ l[i].cert = c.cert /\ l[i].common_name = l[j].common_name

RequestTypes ==
  /\ picked \in [list: {"none", "all", "replaced"}, rows: SUBSET CertRecord]
  /\ req \in [asked: SUBSET Cert, todo: SUBSET Cert]
  /\ wrong \subseteq Cert /\ orphan \in BOOLEAN

FileInv ==
  /\ Distinct(log)
  /\ RowsInv(log, pos, reg)
  /\ skipped = {} => LatestInv(log, pos, reg)

RequestInv ==
  /\ mode = "starting" => req = NoRequest
  /\ req.asked \ req.todo \subseteq reg.revoked_certs

ListInv ==
  /\ orphan \/ /\ \A i \in skipped : log[i].type # "Enrolled"
               /\ IdsInv(log, pos, reg)
               /\ \A p \in picked.rows : Entry(log, Len(log), p)
               /\ wrong = {}
  /\ picked.list = "replaced" => \A p \in picked.rows :
       /\ Superseded(log, p)
       /\ mode = "up" => \A cn \in Name : reg.devices[cn].cert # p.cert

AdminInv == RegInv /\ RequestTypes /\ FileInv /\ RequestInv /\ ListInv

-----------------------------------------------------------------------------
(***************************************************************************)
(* What appending to the file and applying an event do to these relations.  *)
(***************************************************************************)

\* They depend on the events that were applied only.
LEMMA RowsPrefix ==
  ASSUME NEW l, NEW k, NEW n \in Nat, \A i \in 1..n : l[i] = k[i], NEW r
  PROVE  /\ RowsInv(l, n, r) => RowsInv(k, n, r)
         /\ LatestInv(l, n, r) => LatestInv(k, n, r)
         /\ IdsInv(l, n, r) => IdsInv(k, n, r)
<1>0. n \in 0..n /\ \A i \in 1..n : i \in 0..n
  BY SMT
<1>1. /\ EnrollmentsIn(l, n) = EnrollmentsIn(k, n)
      /\ \A cn : EnrollmentsOf(l, n, cn) = EnrollmentsOf(k, n, cn)
      /\ IdAt(l, n) = IdAt(k, n)
      /\ \A i \in 1..n : IdAt(l, i) = IdAt(k, i)
  <2>1. EnrollmentsIn(l, n) = EnrollmentsIn(k, n)
    BY DEF EnrollmentsIn
  <2>4. IdAt(l, n) = IdAt(k, n)
    BY <2>1 DEF IdAt
  <2>2. ASSUME NEW cn PROVE EnrollmentsOf(l, n, cn) = EnrollmentsOf(k, n, cn)
    BY <2>1 DEF EnrollmentsOf, EnrollmentsIn
  <2>3. ASSUME NEW i \in 1..n PROVE IdAt(l, i) = IdAt(k, i)
    BY <1>0, EnrollmentsPrefix
  <2> QED
    BY <2>1, <2>2, <2>3, <2>4
<1>2. /\ \A i \in EnrollmentsIn(l, n) : i \in 1..n /\ l[i] = k[i]
      /\ \A cn : \A i \in EnrollmentsOf(l, n, cn) : l[i] = k[i]
  BY DEF EnrollmentsIn, EnrollmentsOf
<1>3. RowsInv(l, n, r) => RowsInv(k, n, r)
  BY SMT, <1>1, <1>2 DEF RowsInv
<1>4. LatestInv(l, n, r) => LatestInv(k, n, r)
  BY <1>1, <1>2 DEF LatestInv
<1>5. IdsInv(l, n, r) => IdsInv(k, n, r)
  BY SMT, <1>1, <1>2 DEF IdsInv, Entry
<1> QED
  BY <1>3, <1>4, <1>5

\* A longer file says the same of its beginning.
LEMMA EntryPrefix ==
  ASSUME NEW l, NEW k, NEW n \in Nat, NEW m \in Nat, n <= m,
         \A i \in 1..n : l[i] = k[i], NEW c, Entry(l, n, c)
  PROVE  Entry(k, m, c)
<1>1. PICK i \in EnrollmentsIn(l, n) : c.id = IdAt(l, i) /\ c.cert = l[i].cert
  BY DEF Entry
<1>2. i \in 1..n /\ i \in 0..n /\ l[i] = k[i] /\ i \in EnrollmentsIn(k, m)
  BY SMT, <1>1 DEF EnrollmentsIn
<1>3. \A j \in 1..i : l[j] = k[j]
  BY SMT, <1>2
<1>4. IdAt(l, i) = IdAt(k, i)
  BY <1>3 DEF IdAt, EnrollmentsIn
<1> QED
  BY <1>1, <1>2, <1>4 DEF Entry

\* What replaced a certificate stays in the file.
LEMMA SupersededPrefix ==
  ASSUME NEW l, NEW k, Len(l) \in Nat, Len(k) \in Nat, Len(l) <= Len(k),
         \A i \in 1..Len(l) : l[i] = k[i], NEW c, Superseded(l, c)
  PROVE  Superseded(k, c)
<1>1. PICK i, j \in EnrollmentsIn(l, Len(l)) :
         i < j /\ l[i].cert = c.cert /\ l[i].common_name = l[j].common_name
  BY DEF Superseded
<1>2. /\ i \in EnrollmentsIn(k, Len(k)) /\ l[i] = k[i]
      /\ j \in EnrollmentsIn(k, Len(k)) /\ l[j] = k[j]
  BY SMT, <1>1 DEF EnrollmentsIn
<1> QED
  BY SMT, <1>1, <1>2 DEF Superseded

\* An event whose certificate is new keeps certificates distinct.
LEMMA DistinctAppend ==
  ASSUME NEW l \in Seq(RegistryEvent), NEW e \in RegistryEvent, Distinct(l),
         e.type = "Enrolled" => \A i \in EnrollmentsIn(l, Len(l)) : l[i].cert # e.cert
  PROVE  Distinct(Append(l, e))
<1> DEFINE k == Append(l, e)
<1>1. /\ Len(k) = Len(l) + 1 /\ Len(l) \in Nat /\ k[Len(l) + 1] = e
      /\ \A i \in 1..Len(l) : k[i] = l[i]
  BY AppendFacts
<1> HIDE DEF k
<1>2. ASSUME NEW i \in EnrollmentsIn(k, Len(k))
      PROVE  \/ i \in EnrollmentsIn(l, Len(l)) /\ k[i] = l[i]
             \/ i = Len(l) + 1 /\ k[i] = e /\ e.type = "Enrolled"
  BY SMT, <1>1 DEF EnrollmentsIn
<1> QED
  BY <1>2 DEF Distinct, k

\* Events that memory skips do not disturb the relation of rows to the file.
LEMMA RowsSkip ==
  ASSUME NEW l \in Seq(RegistryEvent), NEW n \in Nat, n < Len(l), Distinct(l),
         NEW r, RowsInv(l, n, r)
  PROVE  RowsInv(l, n + 1, r)
<1>0. /\ \A i \in EnrollmentsIn(l, n) : i \in EnrollmentsIn(l, n + 1)
      /\ \A cn : \A i \in EnrollmentsOf(l, n, cn) : i \in EnrollmentsOf(l, n + 1, cn)
  BY SMT DEF EnrollmentsIn, EnrollmentsOf
<1>1. ASSUME NEW c \in r.certificates, NEW i \in EnrollmentsIn(l, n + 1), l[i].cert = c.cert
      PROVE  i \in EnrollmentsIn(l, n)
  <2>1. PICK j \in EnrollmentsIn(l, n) : l[j].cert = c.cert
    BY DEF RowsInv
  <2>2. i \in EnrollmentsIn(l, Len(l)) /\ j \in EnrollmentsIn(l, Len(l))
    BY SMT DEF EnrollmentsIn
  <2>3. i = j
    BY <1>1, <2>1, <2>2 DEF Distinct
  <2> QED
    BY <2>3
<1>2. \A c \in r.certificates :
        /\ c.id <= r.next_cert_id
        /\ \E i \in EnrollmentsIn(l, n + 1) :
              l[i].cert = c.cert /\ l[i].common_name = c.common_name
  BY <1>0 DEF RowsInv
<1>3. ASSUME NEW c \in r.certificates, NEW d \in r.certificates,
             NEW i \in EnrollmentsIn(l, n + 1), NEW j \in EnrollmentsIn(l, n + 1),
             c.id < d.id, l[i].cert = c.cert, l[j].cert = d.cert
      PROVE  i < j
  <2>1. i \in EnrollmentsIn(l, n) /\ j \in EnrollmentsIn(l, n)
    BY <1>1, <1>3
  <2> QED
    BY <1>3, <2>1 DEF RowsInv
<1>4. \A cn \in Name : r.devices[cn].cert # NoCert =>
        \E i \in EnrollmentsOf(l, n + 1, cn) : l[i].cert = r.devices[cn].cert
  BY <1>0 DEF RowsInv
<1>5. \A cn \in Name, c, d \in r.certificates :
        c.cert = r.devices[cn].cert /\ d.common_name = cn => d.id <= c.id
  BY DEF RowsInv
<1> QED
  BY <1>2, <1>3, <1>4, <1>5 DEF RowsInv

\* What an enrollment changes: one row with the next id, and the current
\* certificate of its name.
LEMMA EnrolledEffect ==
  ASSUME NEW r \in RegistryState, NEW e \in RegistryEvent, e.type = "Enrolled"
  PROVE  LET q == ApplyEvent(r, e)
             row == [id |-> r.next_cert_id + 1, common_name |-> e.common_name,
                     cert |-> e.cert, client_uid |-> e.client_uid]
         IN  /\ e.common_name \in Name /\ e.cert \in Cert
             /\ q.certificates = r.certificates \cup {row}
             /\ q.next_cert_id = r.next_cert_id + 1
             /\ q.devices[e.common_name].cert = e.cert
             /\ \A cn \in Name : cn # e.common_name => q.devices[cn].cert = r.devices[cn].cert
<1>1. e \in [type: {"Enrolled"}, common_name: Name, cert: Cert, client_uid: Uid]
  BY DEF RegistryEvent
<1>2. ApplyEvent(r, e) = ApplyEnrolled(r, e)
  BY DEF ApplyEvent
<1> QED
  BY SMT, <1>1, <1>2 DEF ApplyEnrolled, RegistryState, DeviceRecord

\* What no other event adds: a row, an id, a current certificate.
LEMMA OtherEffect ==
  ASSUME NEW r \in RegistryState, NEW e \in RegistryEvent, e.type # "Enrolled"
  PROVE  LET q == ApplyEvent(r, e)
         IN  /\ q.certificates \subseteq r.certificates
             /\ q.next_cert_id = r.next_cert_id
             /\ \A cn \in Name : q.devices[cn].cert = r.devices[cn].cert
<1>1. ASSUME NEW x \in Name, NEW b \in BOOLEAN
      PROVE  LET q == SetBlocked(r, x, b)
             IN  /\ q.certificates = r.certificates
                 /\ q.next_cert_id = r.next_cert_id
                 /\ \A cn \in Name : q.devices[cn].cert = r.devices[cn].cert
  BY DEF SetBlocked, RegistryState, DeviceRecord
<1>2. CASE e.type \in {"Revoked", "Unblocked"}
  <2>1. e.common_name \in Name
    BY <1>2 DEF RegistryEvent
  <2>2. \/ ApplyEvent(r, e) = SetBlocked(r, e.common_name, TRUE)
        \/ ApplyEvent(r, e) = SetBlocked(r, e.common_name, FALSE)
    BY <1>2 DEF ApplyEvent
  <2>3. CASE ApplyEvent(r, e) = SetBlocked(r, e.common_name, TRUE)
    BY <1>1, <2>1, <2>3
  <2>4. CASE ApplyEvent(r, e) = SetBlocked(r, e.common_name, FALSE)
    BY <1>1, <2>1, <2>4
  <2> QED
    BY <2>2, <2>3, <2>4
<1>3. CASE e.type = "CertRevoked"
  BY <1>3 DEF ApplyEvent, ApplyCertRevoked, RegistryState
<1>4. CASE e.type = "CertDeleted"
  BY <1>4 DEF ApplyEvent, ApplyCertDeleted, RegistryState
<1> QED
  BY <1>2, <1>3, <1>4 DEF RegistryEvent

\* Applying the next event keeps rows and file related.
LEMMA RowsStep ==
  ASSUME NEW l \in Seq(RegistryEvent), NEW n \in Nat, n < Len(l), Distinct(l),
         NEW r \in RegistryState, RowsInv(l, n, r)
  PROVE  /\ RowsInv(l, n + 1, ApplyEvent(r, l[n + 1]))
         /\ LatestInv(l, n, r) => LatestInv(l, n + 1, ApplyEvent(r, l[n + 1]))
<1> DEFINE e == l[n + 1]
           q == ApplyEvent(r, e)
           row == [id |-> r.next_cert_id + 1, common_name |-> e.common_name,
                   cert |-> e.cert, client_uid |-> e.client_uid]
<1>0. e \in RegistryEvent /\ n + 1 \in 1..Len(l)
  BY SMT
<1>1. RowsInv(l, n + 1, r)
  BY RowsSkip
<1>2. ASSUME e.type # "Enrolled"
      PROVE  /\ RowsInv(l, n + 1, q)
             /\ LatestInv(l, n, r) => LatestInv(l, n + 1, q)
  <2>1. /\ q.certificates \subseteq r.certificates
        /\ q.next_cert_id = r.next_cert_id
        /\ \A cn \in Name : q.devices[cn].cert = r.devices[cn].cert
    BY <1>0, <1>2, OtherEffect
  <2>2. \A cn : EnrollmentsOf(l, n + 1, cn) = EnrollmentsOf(l, n, cn)
    BY SMTT(30), <1>2 DEF EnrollmentsOf, EnrollmentsIn
  <2> HIDE DEF q, e
  <2>3. RowsInv(l, n + 1, q)
    BY SMT, <1>1, <2>1 DEF RowsInv
  <2>4. LatestInv(l, n, r) => LatestInv(l, n + 1, q)
    BY <2>1, <2>2 DEF LatestInv
  <2> QED
    BY <2>3, <2>4
<1>3. ASSUME e.type = "Enrolled"
      PROVE  /\ RowsInv(l, n + 1, q)
             /\ LatestInv(l, n, r) => LatestInv(l, n + 1, q)
  <2>1. /\ e.common_name \in Name /\ e.cert \in Cert
        /\ q.certificates = r.certificates \cup {row}
        /\ q.next_cert_id = r.next_cert_id + 1
        /\ q.devices[e.common_name].cert = e.cert
        /\ \A cn \in Name : cn # e.common_name => q.devices[cn].cert = r.devices[cn].cert
    BY <1>0, <1>3, EnrolledEffect
  <2>2. /\ row.id = r.next_cert_id + 1 /\ row.common_name = e.common_name
        /\ row.cert = e.cert
        /\ r.next_cert_id \in Nat
        /\ \A c \in r.certificates : c.id \in Nat
    BY DEF RegistryState, CertRecord
  <2>3. /\ n + 1 \in EnrollmentsIn(l, n + 1)
        /\ n + 1 \in EnrollmentsOf(l, n + 1, e.common_name)
        /\ EnrollmentsIn(l, n + 1) = EnrollmentsIn(l, n) \cup {n + 1}
        /\ \A i \in EnrollmentsIn(l, n) : i \in Nat /\ i <= n /\ i \in EnrollmentsIn(l, Len(l))
        /\ n + 1 \in EnrollmentsIn(l, Len(l))
    BY SMT, <1>0, <1>3 DEF EnrollmentsIn, EnrollmentsOf
  <2>4. \A i \in EnrollmentsIn(l, n) : l[i].cert # e.cert
    BY SMT, <2>3 DEF Distinct
  <2> HIDE DEF q, row
  <2>5. \A c \in q.certificates :
          /\ c.id <= q.next_cert_id
          /\ \E i \in EnrollmentsIn(l, n + 1) :
                l[i].cert = c.cert /\ l[i].common_name = c.common_name
    <3>1. \A c \in r.certificates : c.id <= r.next_cert_id
      BY DEF RowsInv
    <3>2. \A c \in q.certificates : c.id <= q.next_cert_id
      BY SMT, <2>1, <2>2, <3>1
    <3>3. \A c \in r.certificates : \E i \in EnrollmentsIn(l, n + 1) :
             l[i].cert = c.cert /\ l[i].common_name = c.common_name
      BY <1>1 DEF RowsInv
    <3> QED
      BY <2>1, <2>2, <2>3, <3>2, <3>3
  <2>6. ASSUME NEW c \in r.certificates PROVE c.cert # e.cert /\ c.id < row.id
    <3>1. PICK i \in EnrollmentsIn(l, n) : l[i].cert = c.cert
      BY DEF RowsInv
    <3>2. c.id <= r.next_cert_id
      BY DEF RowsInv
    <3> QED
      BY SMT, <2>2, <2>4, <3>1, <3>2
  <2>7. ASSUME NEW c \in q.certificates, NEW d \in q.certificates,
               NEW i \in EnrollmentsIn(l, n + 1), NEW j \in EnrollmentsIn(l, n + 1),
               c.id < d.id, l[i].cert = c.cert, l[j].cert = d.cert
        PROVE  i < j
    <3>1. c # row
      BY SMT, <2>1, <2>2, <2>6, <2>7
    <3>2. c \in r.certificates
      BY <2>1, <3>1
    <3>3. i # n + 1
      BY <2>6, <2>7, <3>2
    <3>4. i \in EnrollmentsIn(l, n)
      BY <2>3, <3>3
    <3>5. CASE d = row
      <4>1. j = n + 1
        BY <2>2, <2>3, <2>4, <2>7, <3>5
      <4>2. i \in Nat /\ i <= n
        BY <2>3, <3>4
      <4> QED
        BY SMT, <4>1, <4>2
    <3>6. CASE d \in r.certificates
      BY <1>1, <2>7, <3>2, <3>6 DEF RowsInv
    <3> QED
      BY <2>1, <3>5, <3>6
  <2>8. ASSUME NEW cn \in Name, q.devices[cn].cert # NoCert
        PROVE  \E i \in EnrollmentsOf(l, n + 1, cn) : l[i].cert = q.devices[cn].cert
    <3>1. CASE cn = e.common_name
      BY ZenonT(30), <2>1, <2>3, <3>1
    <3>2. CASE cn # e.common_name
      BY SMT, <1>1, <2>1, <2>8, <3>2 DEF RowsInv
    <3> QED
      BY <3>1, <3>2
  <2>9. ASSUME NEW cn \in Name, NEW c \in q.certificates, NEW d \in q.certificates,
               c.cert = q.devices[cn].cert, d.common_name = cn
        PROVE  d.id <= c.id
    <3>1. CASE cn = e.common_name
      <4>1. c = row
        BY ZenonT(30), <2>1, <2>6, <2>9, <3>1
      <4> QED
        BY SMT, <2>1, <2>2, <2>6, <4>1
    <3>2. CASE cn # e.common_name
      <4>1. d \in r.certificates
        BY <2>1, <2>2, <2>9, <3>2
      <4>2. c.cert = r.devices[cn].cert /\ c.cert \in Cert
        <5>1. c.cert = r.devices[cn].cert
          BY <2>1, <2>9, <3>2
        <5>2. \A x \in r.certificates : x.cert \in Cert
          BY DEF RegistryState, CertRecord
        <5> QED
          BY <2>1, <2>2, <5>1, <5>2
      <4>3. PICK i \in EnrollmentsOf(l, n, cn) : l[i].cert = c.cert
        BY SMT, <4>2, NoCertAssumption DEF RowsInv
      <4>4. c # row
        BY <2>2, <2>4, <4>3 DEF EnrollmentsOf
      <4> QED
        BY SMT, <1>1, <2>1, <2>9, <4>1, <4>2, <4>4 DEF RowsInv
    <3> QED
      BY ZenonT(30), <3>1, <3>2
  <2>10. ASSUME LatestInv(l, n, r), NEW cn \in Name,
                NEW i \in EnrollmentsOf(l, n + 1, cn), NEW j \in EnrollmentsOf(l, n + 1, cn),
                l[i].cert = q.devices[cn].cert
         PROVE  j <= i
    <3>1. \A k \in EnrollmentsOf(l, n + 1, cn) :
             /\ l[k].common_name = cn /\ k \in Nat /\ k <= n + 1
             /\ k \in EnrollmentsOf(l, n, cn) \/ k = n + 1
             /\ k \in EnrollmentsOf(l, n, cn) => k \in EnrollmentsIn(l, n)
      BY SMT DEF EnrollmentsOf, EnrollmentsIn
    <3>2. CASE cn = e.common_name
      <4>1. i = n + 1
        BY <2>1, <2>4, <2>10, <3>1, <3>2
      <4> QED
        BY <3>1, <4>1
    <3>3. CASE cn # e.common_name
      <4>1. i # n + 1 /\ j # n + 1
        BY <3>1, <3>3
      <4> QED
        BY <2>1, <2>10, <3>1, <3>3, <4>1 DEF LatestInv
    <3> QED
      BY <3>2, <3>3
  <2>11. RowsInv(l, n + 1, q)
    BY <2>5, <2>7, <2>8, <2>9 DEF RowsInv
  <2>12. LatestInv(l, n, r) => LatestInv(l, n + 1, q)
    BY <2>10 DEF LatestInv
  <2> QED
    BY <2>11, <2>12
<1> QED
  BY <1>2, <1>3

\* Applying the next event, or skipping one that is no enrollment, keeps ids
\* those of the file.
LEMMA IdsStep ==
  ASSUME NEW l \in Seq(RegistryEvent), NEW n \in Nat, n < Len(l),
         NEW r \in RegistryState, IdsInv(l, n, r)
  PROVE  /\ IdsInv(l, n + 1, ApplyEvent(r, l[n + 1]))
         /\ l[n + 1].type # "Enrolled" => IdsInv(l, n + 1, r)
<1> DEFINE e == l[n + 1]
           q == ApplyEvent(r, e)
           row == [id |-> r.next_cert_id + 1, common_name |-> e.common_name,
                   cert |-> e.cert, client_uid |-> e.client_uid]
<1>0. e \in RegistryEvent
  BY SMT
<1>1. IdAt(l, n + 1) = IF e.type = "Enrolled" THEN IdAt(l, n) + 1 ELSE IdAt(l, n)
  BY IdAtStep
<1>2. \A c \in r.certificates : Entry(l, n + 1, c)
  <2>1. n + 1 \in Nat /\ n <= n + 1 /\ \A i \in 1..n : l[i] = l[i]
    BY SMT
  <2> QED
    BY <2>1, EntryPrefix DEF IdsInv
<1>3. ASSUME e.type # "Enrolled"
      PROVE  IdsInv(l, n + 1, q) /\ IdsInv(l, n + 1, r)
  <2>1. q.certificates \subseteq r.certificates /\ q.next_cert_id = r.next_cert_id
    BY <1>0, <1>3, OtherEffect
  <2> HIDE DEF q, e
  <2> QED
    BY <1>1, <1>2, <1>3, <2>1 DEF IdsInv
<1>4. ASSUME e.type = "Enrolled"
      PROVE  IdsInv(l, n + 1, q)
  <2>1. q.certificates = r.certificates \cup {row} /\ q.next_cert_id = r.next_cert_id + 1
    BY <1>0, <1>4, EnrolledEffect
  <2>2. row.id = r.next_cert_id + 1 /\ row.cert = e.cert
    OBVIOUS
  <2>3. r.next_cert_id = IdAt(l, n)
    BY DEF IdsInv
  <2>4. n + 1 \in EnrollmentsIn(l, n + 1)
    BY SMT, <1>4 DEF EnrollmentsIn
  <2> HIDE DEF q, row
  <2>5. Entry(l, n + 1, row)
    BY <1>1, <1>4, <2>2, <2>3, <2>4 DEF Entry
  <2> HIDE DEF e
  <2> QED
    BY <1>1, <1>2, <1>4, <2>1, <2>3, <2>5 DEF IdsInv
<1> QED
  BY <1>3, <1>4

-----------------------------------------------------------------------------
(***************************************************************************)
(* The steps of the registry.                                               *)
(***************************************************************************)
Fresh(e) == e.type = "Enrolled" => e.cert \notin Issued

Kind ==
  \/ \E e \in RegistryEvent : mode = "up" /\ Fresh(e) /\ (Committed(e) \/ Interrupted(e))
  \/ ReplayEvent
  \/ Started
  \/ Stopped /\ log' = log
  \/ UNCHANGED <<mode, reg, log, pos, skipped>>

\* A step commits an event or is interrupted at one, replays one, or leaves
\* the file alone.
LEMMA StepKind == LogInv /\ [Next]_vars => Kind
<1> SUFFICES ASSUME LogInv, [Next]_vars PROVE Kind
  OBVIOUS
<1>1. ASSUME NEW cn \in Name, NEW cert \in Cert, NEW uid \in Uid,
             EnrollWithClientUid(cn, cert, uid)
      PROVE  Kind
  <2> DEFINE e == Enrolled(cn, cert, uid)
  <2>1. e \in RegistryEvent /\ e.cert = cert
    BY DEF Enrolled, RegistryEvent
  <2>2. mode = "up" /\ cert \notin Issued /\ (Committed(e) \/ Interrupted(e))
    BY <1>1 DEF EnrollWithClientUid, Serving
  <2> HIDE DEF e
  <2>3. Fresh(e)
    BY <2>1, <2>2 DEF Fresh
  <2> QED
    BY <2>1, <2>2, <2>3 DEF Kind
<1>e. ASSUME NEW e \in RegistryEvent, e.type # "Enrolled", mode = "up",
             Committed(e) \/ Interrupted(e)
      PROVE  Kind
  BY <1>e DEF Kind, Fresh
<1>2. ASSUME NEW cn \in Name, Revoke(cn) \/ Unblock(cn)
      PROVE  Kind
  <2>1. /\ Revoked(cn) \in RegistryEvent /\ Unblocked(cn) \in RegistryEvent
        /\ Revoked(cn).type # "Enrolled" /\ Unblocked(cn).type # "Enrolled"
    BY DEF Revoked, Unblocked, RegistryEvent
  <2> QED
    BY <1>2, <1>e, <2>1 DEF Revoke, Unblock, Serving
<1>3. ASSUME NEW cert \in Cert, RevokeCert(cert)
      PROVE  Kind
  <2>1. CertRevoked(cert) \in RegistryEvent /\ CertRevoked(cert).type # "Enrolled"
    BY DEF CertRevoked, RegistryEvent
  <2>2. CASE cert \in reg.revoked_certs
    BY <1>3, <2>2 DEF RevokeCert, Kind
  <2>3. CASE cert \notin reg.revoked_certs
    BY <1>3, <1>e, <2>1, <2>3 DEF RevokeCert, Serving
  <2> QED
    BY <2>2, <2>3
<1>4. ASSUME NEW id \in 1..reg.next_cert_id, DeleteCert(id)
      PROVE  Kind
  <2>1. CertDeleted(id) \in RegistryEvent /\ CertDeleted(id).type # "Enrolled"
    BY SMT DEF CertDeleted, RegistryEvent, LogInv, RegistryState
  <2> QED
    BY <1>4, <1>e, <2>1 DEF DeleteCert, Serving
<1>5. CASE ReplayEvent \/ Started
  BY <1>5 DEF Kind
<1>6. CASE Crash
  BY <1>6 DEF Crash, Kind
<1>7. CASE UNCHANGED vars
  BY <1>7 DEF vars, Kind
<1> QED
  BY <1>1, <1>2, <1>3, <1>4, <1>5, <1>6, <1>7 DEF Next, EnrollNewWithClientUid

Extends(l, k) ==
  /\ Len(l) \in Nat /\ Len(k) \in Nat /\ Len(l) <= Len(k)
  /\ \A i \in 1..Len(l) : l[i] = k[i]

\* The file only grows.
LEMMA LogGrows == LogInv /\ Kind => Extends(log, log')
<1> SUFFICES ASSUME LogInv, Kind PROVE Extends(log, log')
  OBVIOUS
<1>0. log \in Seq(RegistryEvent)
  BY DEF LogInv
<1>1. log' = log \/ \E e \in RegistryEvent : log' = Append(log, e)
  BY DEF Kind, Committed, Interrupted, ReplayEvent, Started
<1>2. CASE log' = log
  BY SMT, <1>0, <1>2 DEF Extends
<1>3. ASSUME NEW e \in RegistryEvent, log' = Append(log, e) PROVE Extends(log, log')
  BY SMT, <1>0, <1>3, AppendFacts DEF Extends
<1> QED
  BY <1>1, <1>2, <1>3

\* With nothing in memory, rows and ids are related to any file.
LEMMA EmptyRelated ==
  ASSUME NEW l
  PROVE  /\ RowsInv(l, 0, EmptyRegistry)
         /\ LatestInv(l, 0, EmptyRegistry)
         /\ IdsInv(l, 0, EmptyRegistry)
<1>1. EnrollmentsIn(l, 0) = {} /\ \A cn : EnrollmentsOf(l, 0, cn) = {}
  BY SMT DEF EnrollmentsOf, EnrollmentsIn
<1>2. IdAt(l, 0) = 0
  BY <1>1, FS_EmptySet DEF IdAt
<1>3. /\ EmptyRegistry.certificates = {} /\ EmptyRegistry.next_cert_id = 0
      /\ \A cn \in Name : EmptyRegistry.devices[cn].cert = NoCert
  BY DEF EmptyRegistry
<1> QED
  BY <1>1, <1>2, <1>3 DEF RowsInv, LatestInv, IdsInv

Orphaned == \E i \in skipped : log[i].type = "Enrolled"

\* Ids are those of the file.
IdsTrue == (\A i \in skipped : log[i].type # "Enrolled") /\ IdsInv(log, pos, reg)

\* Every step keeps rows and file related, and ids those of the file unless
\* it leaves an enrollment in the file and not in memory.
LEMMA FileStep ==
  ASSUME LogInv, FileInv, Kind
  PROVE  FileInv' /\ (IdsTrue => IdsTrue' \/ Orphaned')
<1>0. /\ reg \in RegistryState /\ log \in Seq(RegistryEvent) /\ pos \in Nat
      /\ pos <= Len(log) /\ Len(log) \in Nat /\ skipped \subseteq 1..Len(log)
      /\ mode = "up" => pos = Len(log)
      /\ mode = "starting" => skipped = {}
      /\ Distinct(log) /\ RowsInv(log, pos, reg)
      /\ skipped = {} => LatestInv(log, pos, reg)
  BY SMT DEF LogInv, FileInv
<1>g. Extends(log, log')
  BY LogGrows
<1>1. ASSUME NEW e \in RegistryEvent, Fresh(e)
      PROVE  Distinct(Append(log, e))
  <2>1. e.type = "Enrolled" => \A i \in EnrollmentsIn(log, Len(log)) : log[i].cert # e.cert
    BY <1>1 DEF Fresh, Issued, EnrollmentsIn
  <2> QED
    BY <1>0, <2>1, DistinctAppend
<1>2. ASSUME Stopped, Distinct(log')
      PROVE  FileInv' /\ IdsTrue'
  <2>1. reg' = EmptyRegistry /\ pos' = 0 /\ skipped' = {}
    BY <1>2 DEF Stopped
  <2> QED
    BY <1>2, <2>1, EmptyRelated DEF FileInv, IdsTrue
<1>3. ASSUME UNCHANGED <<reg, log, pos, skipped>>
      PROVE  FileInv' /\ (IdsTrue => IdsTrue')
  BY <1>3 DEF FileInv, IdsTrue
<1>4. CASE ReplayEvent
  <2>1. /\ mode = "starting" /\ pos < Len(log) /\ reg' = ApplyEvent(reg, log[pos + 1])
        /\ pos' = pos + 1 /\ UNCHANGED <<log, skipped>>
    BY <1>4 DEF ReplayEvent
  <2>2. RowsInv(log, pos + 1, reg') /\ LatestInv(log, pos + 1, reg')
    BY <1>0, <2>1, RowsStep
  <2>3. IdsTrue => IdsInv(log, pos + 1, reg')
    BY <1>0, <2>1, IdsStep DEF IdsTrue
  <2> QED
    BY <1>0, <2>1, <2>2, <2>3 DEF FileInv, IdsTrue
<1>5. ASSUME NEW e \in RegistryEvent, mode = "up", Fresh(e), log' = Append(log, e)
      PROVE  /\ log' \in Seq(RegistryEvent) /\ Len(log') = pos + 1 /\ log'[pos + 1] = e
             /\ Distinct(log') /\ RowsInv(log', pos, reg)
             /\ skipped = {} => LatestInv(log', pos, reg)
             /\ IdsTrue => IdsInv(log', pos, reg) /\ \A i \in skipped : log'[i].type # "Enrolled"
  <2>1. /\ log' \in Seq(RegistryEvent) /\ Len(log') = pos + 1 /\ log'[pos + 1] = e
        /\ \A i \in 1..pos : log[i] = log'[i]
    BY SMT, <1>0, <1>5, AppendFacts
  <2>2. /\ RowsInv(log', pos, reg)
        /\ LatestInv(log, pos, reg) => LatestInv(log', pos, reg)
        /\ IdsInv(log, pos, reg) => IdsInv(log', pos, reg)
    BY <1>0, <2>1, RowsPrefix
  <2>3. skipped \subseteq 1..pos
    BY <1>0, <1>5
  <2> QED
    BY <1>0, <1>1, <1>5, <2>1, <2>2, <2>3 DEF IdsTrue
<1>6. ASSUME NEW e \in RegistryEvent, mode = "up", Fresh(e), Committed(e)
      PROVE  FileInv' /\ (IdsTrue => IdsTrue')
  <2>1. /\ log' = Append(log, e) /\ reg' = ApplyEvent(reg, e) /\ pos' = pos + 1
        /\ skipped' = skipped
    BY <1>6 DEF Committed
  <2>2. /\ log' \in Seq(RegistryEvent) /\ Len(log') = pos + 1 /\ log'[pos + 1] = e
        /\ Distinct(log') /\ RowsInv(log', pos, reg)
        /\ skipped = {} => LatestInv(log', pos, reg)
        /\ IdsTrue => IdsInv(log', pos, reg) /\ \A i \in skipped : log'[i].type # "Enrolled"
    BY <1>5, <1>6, <2>1
  <2>3. pos < Len(log')
    BY SMT, <1>0, <2>2
  <2>4. /\ RowsInv(log', pos + 1, reg')
        /\ LatestInv(log', pos, reg) => LatestInv(log', pos + 1, reg')
    BY <1>0, <2>1, <2>2, <2>3, RowsStep
  <2>5. IdsInv(log', pos, reg) => IdsInv(log', pos + 1, reg')
    BY <1>0, <2>1, <2>2, <2>3, IdsStep
  <2> QED
    BY <2>1, <2>2, <2>4, <2>5 DEF FileInv, IdsTrue
<1>7. ASSUME NEW e \in RegistryEvent, mode = "up", Fresh(e), Interrupted(e)
      PROVE  FileInv' /\ (IdsTrue => IdsTrue' \/ Orphaned')
  <2>1. CASE log' = Append(log, e) /\ Stopped
    BY <1>1, <1>2, <1>7, <2>1
  <2>2. CASE UNCHANGED <<reg, log, pos, skipped>>
    BY <1>3, <2>2
  <2>3. CASE /\ log' = Append(log, e) /\ pos' = pos + 1 /\ reg' = reg
             /\ skipped' = skipped \cup {Len(log) + 1}
    <3>2. /\ log' \in Seq(RegistryEvent) /\ Len(log') = pos + 1 /\ log'[pos + 1] = e
          /\ Distinct(log') /\ RowsInv(log', pos, reg)
          /\ IdsTrue => IdsInv(log', pos, reg) /\ \A i \in skipped : log'[i].type # "Enrolled"
      BY <1>5, <1>7, <2>3
    <3>3. pos < Len(log') /\ skipped' = skipped \cup {pos + 1}
      BY SMT, <1>0, <1>7, <2>3, <3>2
    <3>4. RowsInv(log', pos + 1, reg)
      BY <1>0, <3>2, <3>3, RowsSkip
    <3>5. IdsInv(log', pos, reg) /\ e.type # "Enrolled" => IdsInv(log', pos + 1, reg)
      BY <1>0, <3>2, <3>3, IdsStep
    <3>6. FileInv'
      BY <2>3, <3>2, <3>3, <3>4 DEF FileInv
    <3>7. CASE e.type = "Enrolled"
      <4>1. Orphaned'
        BY <3>2, <3>3, <3>7 DEF Orphaned
      <4> QED
        BY <3>6, <4>1
    <3>8. CASE e.type # "Enrolled"
      <4>1. IdsTrue => IdsTrue'
        BY <2>3, <3>2, <3>3, <3>5, <3>8 DEF IdsTrue
      <4> QED
        BY <3>6, <4>1
    <3> QED
      BY <3>7, <3>8
  <2> QED
    BY <1>7, <2>1, <2>2, <2>3 DEF Interrupted
<1>8. CASE Started
  BY <1>3, <1>8 DEF Started
<1>9. CASE Stopped /\ log' = log
  <2>1. Distinct(log')
    BY <1>0, <1>9
  <2> QED
    BY <1>2, <1>9, <2>1
<1>10. CASE UNCHANGED <<mode, reg, log, pos, skipped>>
  BY <1>3, <1>10
<1> QED
  BY <1>4, <1>6, <1>7, <1>8, <1>9, <1>10 DEF Kind

\* While the process goes on, no revocation is taken back.
LEMMA RevokedGrow ==
  ASSUME LogInv, Kind, mode' # "starting"
  PROVE  reg.revoked_certs \subseteq reg'.revoked_certs
<1>0. reg \in RegistryState
  BY DEF LogInv
<1>1. ASSUME NEW e \in RegistryEvent, Committed(e)
      PROVE  reg.revoked_certs \subseteq reg'.revoked_certs
  BY <1>0, <1>1, ApplyKeeps DEF Committed
<1>2. ASSUME NEW e \in RegistryEvent, Interrupted(e)
      PROVE  reg.revoked_certs \subseteq reg'.revoked_certs
  BY <1>2 DEF Interrupted, Stopped
<1>3. CASE ReplayEvent
  BY <1>3 DEF ReplayEvent
<1>4. CASE Started
  BY <1>4 DEF Started
<1>5. CASE Stopped
  BY <1>5 DEF Stopped
<1> QED
  BY <1>1, <1>2, <1>3, <1>4, <1>5 DEF Kind

-----------------------------------------------------------------------------
(***************************************************************************)
(* The lists.                                                               *)
(***************************************************************************)

\* The row of a device's current certificate is the newest of its name.
LEMMA CurrentIsNewest ==
  ASSUME LogInv, FileInv, NEW cn \in Name, NEW c \in reg.certificates,
         c.cert = reg.devices[cn].cert
  PROVE  c \in NewestPerClient(reg)
<1>0. /\ RowsInv(log, pos, reg) /\ Distinct(log) /\ c \in CertRecord
      /\ pos \in Nat /\ pos <= Len(log) /\ Len(log) \in Nat
  BY SMT DEF LogInv, FileInv, RegistryState
<1>1. c.cert \in Cert
  BY <1>0 DEF CertRecord
<1>2. PICK i \in EnrollmentsIn(log, pos) :
         log[i].cert = c.cert /\ log[i].common_name = c.common_name
  BY <1>0 DEF RowsInv
<1>3. PICK j \in EnrollmentsOf(log, pos, cn) : log[j].cert = c.cert
  BY SMTT(30), <1>0, <1>1, NoCertAssumption DEF RowsInv
<1>4. i \in EnrollmentsIn(log, Len(log)) /\ j \in EnrollmentsIn(log, Len(log))
  BY SMT, <1>0 DEF EnrollmentsIn, EnrollmentsOf
<1>5. i = j
  BY <1>0, <1>2, <1>3, <1>4 DEF Distinct
<1>6. c.common_name = cn
  BY <1>2, <1>3, <1>5 DEF EnrollmentsOf
<1>7. \A d \in reg.certificates : d.common_name = cn => d.id <= c.id
  BY <1>0 DEF RowsInv
<1> QED
  BY <1>6, <1>7 DEF NewestPerClient

\* A row of the replaced list is no device's current one, and the file says
\* what replaced it.
LEMMA ReplacedRows ==
  ASSUME LogInv, FileInv, NEW p \in ListReplacedCerts(reg)
  PROVE  /\ Superseded(log, p)
         /\ \A cn \in Name : reg.devices[cn].cert # p.cert
<1>0. /\ RowsInv(log, pos, reg) /\ reg.certificates \subseteq CertRecord
      /\ pos \in Nat /\ pos <= Len(log) /\ Len(log) \in Nat
  BY SMT DEF LogInv, FileInv, RegistryState
<1>1. p \in reg.certificates /\ p \notin NewestPerClient(reg)
  BY DEF ListReplacedCerts, SortedCerts
<1>2. \A cn \in Name : reg.devices[cn].cert # p.cert
  BY <1>1, CurrentIsNewest
<1>3. PICK d \in reg.certificates : d.common_name = p.common_name /\ ~(d.id <= p.id)
  BY <1>1 DEF NewestPerClient
<1>4. p.id < d.id
  BY SMT, <1>0, <1>1, <1>3 DEF CertRecord
<1>5. PICK i \in EnrollmentsIn(log, pos) :
         log[i].cert = p.cert /\ log[i].common_name = p.common_name
  BY <1>0, <1>1 DEF RowsInv
<1>6. PICK j \in EnrollmentsIn(log, pos) :
         log[j].cert = d.cert /\ log[j].common_name = d.common_name
  BY <1>0, <1>3 DEF RowsInv
<1>7. i < j
  BY <1>0, <1>1, <1>3, <1>4, <1>5, <1>6 DEF RowsInv
<1>8. i \in EnrollmentsIn(log, Len(log)) /\ j \in EnrollmentsIn(log, Len(log))
  BY SMT, <1>0 DEF EnrollmentsIn
<1> QED
  BY <1>2, <1>3, <1>5, <1>6, <1>7, <1>8 DEF Superseded

\* Rows with the id of a picked one are that row's certificate.
LEMMA NoMisses ==
  ASSUME LogInv, IdsInv(log, pos, reg), \A p \in picked.rows : Entry(log, Len(log), p),
         NEW rows \in SUBSET reg.certificates
  PROVE  Misses(rows) = {}
<1>0. pos \in Nat /\ pos <= Len(log) /\ Len(log) \in Nat
  BY SMT DEF LogInv
<1>1. ASSUME NEW c \in rows, NEW p \in picked.rows, p.id = c.id
      PROVE  p.cert = c.cert
  <2>1. Entry(log, pos, c)
    BY DEF IdsInv
  <2>2. PICK i \in EnrollmentsIn(log, pos) : c.id = IdAt(log, i) /\ c.cert = log[i].cert
    BY <2>1 DEF Entry
  <2>3. PICK j \in EnrollmentsIn(log, Len(log)) : p.id = IdAt(log, j) /\ p.cert = log[j].cert
    BY DEF Entry
  <2>4. i \in EnrollmentsIn(log, Len(log)) /\ i \in Nat /\ j \in Nat
    BY SMT, <1>0 DEF EnrollmentsIn
  <2>5. IdAt(log, i) = IdAt(log, j) /\ IdAt(log, i) \in Nat
    BY <1>1, <2>2, <2>3, <2>4, IdAtType
  <2>6. ~(i < j) /\ ~(j < i)
    BY SMT, <1>0, <2>4, <2>5, IdsIncrease
  <2> QED
    BY SMT, <2>2, <2>3, <2>4, <2>6
<1> QED
  BY <1>1 DEF Misses

\* Nothing that was listed as replaced becomes current.
LEMMA ReplacedStays ==
  ASSUME LogInv, FileInv, Kind, mode' = "up", NEW p \in CertRecord, Superseded(log, p),
         mode = "up" => \A cn \in Name : reg.devices[cn].cert # p.cert
  PROVE  \A cn \in Name : reg'.devices[cn].cert # p.cert
<1>0. /\ reg \in RegistryState /\ log \in Seq(RegistryEvent) /\ Len(log) \in Nat
      /\ p.cert \in Cert
  BY SMT DEF LogInv, CertRecord
<1>1. PICK i, j \in EnrollmentsIn(log, Len(log)) :
         i < j /\ log[i].cert = p.cert /\ log[i].common_name = log[j].common_name
  BY DEF Superseded
<1>2. ASSUME NEW e \in RegistryEvent, mode = "up", Fresh(e), Committed(e), NEW cn \in Name
      PROVE  reg'.devices[cn].cert # p.cert
  <2>1. reg' = ApplyEvent(reg, e)
    BY <1>2 DEF Committed
  <2>2. CASE e.type = "Enrolled"
    <3>1. p.cert \in Issued
      BY <1>1 DEF Issued, EnrollmentsIn
    <3>2. e.cert # p.cert
      BY <1>2, <2>2, <3>1 DEF Fresh
    <3>3. /\ reg'.devices[e.common_name].cert = e.cert
          /\ cn # e.common_name => reg'.devices[cn].cert = reg.devices[cn].cert
      BY SMT, <1>0, <2>1, <2>2, EnrolledEffect
    <3> QED
      BY <1>2, <3>2, <3>3
  <2>3. CASE e.type # "Enrolled"
    <3>1. reg'.devices[cn].cert = reg.devices[cn].cert
      BY <1>0, <2>1, <2>3, OtherEffect
    <3> QED
      BY <1>2, <3>1
  <2> QED
    BY <2>2, <2>3
<1>3. ASSUME NEW e \in RegistryEvent, mode = "up", Interrupted(e)
      PROVE  \A cn \in Name : reg'.devices[cn].cert # p.cert
  BY <1>3 DEF Interrupted, Stopped
<1>4. ASSUME Started, NEW cn \in Name
      PROVE  reg'.devices[cn].cert # p.cert
  <2>1. reg' = reg /\ mode = "starting" /\ pos = Len(log)
    BY <1>4 DEF Started
  <2>2. RowsInv(log, Len(log), reg) /\ LatestInv(log, Len(log), reg) /\ Distinct(log)
    BY <2>1 DEF FileInv, LogInv
  <2>3. SUFFICES ASSUME reg.devices[cn].cert = p.cert PROVE FALSE
    BY ZenonT(30), <2>1
  <2>4. PICK k \in EnrollmentsOf(log, Len(log), cn) : log[k].cert = p.cert
    BY SMT, <1>0, <2>2, <2>3, NoCertAssumption DEF RowsInv
  <2>5. k \in EnrollmentsIn(log, Len(log)) /\ log[k].common_name = cn
    BY <2>4 DEF EnrollmentsOf
  <2>6. i = k
    BY <1>1, <2>2, <2>4, <2>5 DEF Distinct
  <2>7. i \in EnrollmentsOf(log, Len(log), cn) /\ j \in EnrollmentsOf(log, Len(log), cn)
    BY <1>1, <2>5, <2>6 DEF EnrollmentsOf
  <2>8. j <= i
    BY <1>1, <2>2, <2>3, <2>7 DEF LatestInv
  <2>9. i \in Nat /\ j \in Nat
    BY SMT, <1>0 DEF EnrollmentsIn
  <2> QED
    BY SMT, <1>1, <2>8, <2>9
<1>5. CASE ReplayEvent
  BY <1>5 DEF ReplayEvent
<1>6. CASE Stopped
  BY <1>6 DEF Stopped
<1>7. CASE UNCHANGED <<mode, reg>>
  BY <1>7
<1> QED
  BY <1>2, <1>3, <1>4, <1>5, <1>6, <1>7 DEF Kind

-----------------------------------------------------------------------------
(***************************************************************************)
(* The invariant.                                                           *)
(***************************************************************************)

\* It holds at first.
LEMMA AdminInvInit == AdminInit => AdminInv
<1> SUFFICES ASSUME AdminInit PROVE AdminInv
  OBVIOUS
<1>1. /\ Init /\ picked = [list |-> "none", rows |-> {}] /\ req = NoRequest
      /\ wrong = {} /\ orphan = FALSE
  BY DEF AdminInit
<1>2. RegInv
  BY <1>1, RegInvInit
<1>3. RequestTypes
  BY <1>1 DEF RequestTypes, NoRequest
<1>4. log = << >> /\ Len(log) = 0 /\ pos = 0 /\ reg = EmptyRegistry /\ skipped = {}
  BY <1>1 DEF Init
<1>5. FileInv /\ IdsInv(log, pos, reg)
  <2>1. Distinct(log)
    BY SMT, <1>4 DEF Distinct, EnrollmentsIn
  <2> QED
    BY <1>4, <2>1, EmptyRelated DEF FileInv
<1>6. RequestInv
  BY <1>1 DEF RequestInv, NoRequest
<1>7. ListInv
  BY <1>1, <1>4, <1>5 DEF ListInv
<1> QED
  BY <1>2, <1>3, <1>5, <1>6, <1>7 DEF AdminInv

\* A request that leaves the registry alone keeps the invariant when what it
\* sets is typed, asks for nothing that is done, and takes from the lists.
LEMMA RequestStep ==
  ASSUME AdminInv, UNCHANGED vars, RequestTypes', RequestInv', ListInv'
  PROVE  AdminInv'
<1>1. RegInv'
  BY DEF AdminInv, vars, RegInv, LogInv, PromiseInv, MemoryIsLogView
<1>2. FileInv'
  BY DEF AdminInv, vars, FileInv
<1> QED
  BY <1>1, <1>2 DEF AdminInv

\* A step of the registry keeps the invariant.
LEMMA RegistryStep ==
  ASSUME AdminInv, [Next]_vars, picked' = picked, wrong' \in SUBSET Cert,
         orphan' = (orphan \/ Orphaned'),
         orphan \/ wrong' = {},
         req' \in [asked: SUBSET Cert, todo: SUBSET Cert],
         mode' = "starting" => req' = NoRequest,
         req'.asked \ req'.todo \subseteq reg'.revoked_certs
  PROVE  AdminInv'
<1>0. /\ RegInv /\ LogInv /\ RequestTypes /\ FileInv /\ RequestInv /\ ListInv
      /\ Len(log) \in Nat /\ picked.rows \subseteq CertRecord
  BY SMT DEF AdminInv, RegInv, LogInv, RequestTypes
<1>1. RegInv' /\ Kind
  BY <1>0, RegInvNext, StepKind
<1>2. Extends(log, log')
  BY <1>0, <1>1, LogGrows
<1>3. FileInv' /\ (IdsTrue => IdsTrue' \/ Orphaned')
  BY <1>0, <1>1, FileStep
<1>4. RequestTypes'
  <2>1. orphan' \in BOOLEAN
    BY <1>0 DEF RequestTypes
  <2>2. picked' \in [list: {"none", "all", "replaced"}, rows: SUBSET CertRecord]
    BY <1>0 DEF RequestTypes
  <2> QED
    BY <2>1, <2>2 DEF RequestTypes
<1>5. RequestInv'
  BY DEF RequestInv
<1>6. ASSUME ~orphan'
      PROVE  /\ \A i \in skipped' : log'[i].type # "Enrolled"
             /\ IdsInv(log', pos', reg')
             /\ \A p \in picked'.rows : Entry(log', Len(log'), p)
             /\ wrong' = {}
  <2>1. ~orphan /\ ~Orphaned'
    BY <1>6
  <2>2. IdsTrue /\ (\A p \in picked.rows : Entry(log, Len(log), p))
    BY <1>0, <2>1 DEF ListInv, IdsTrue
  <2>3. IdsTrue'
    BY <1>3, <2>1, <2>2
  <2>4. \A p \in picked.rows : Entry(log', Len(log'), p)
    BY <1>2, <2>2, EntryPrefix DEF Extends
  <2> QED
    BY <2>1, <2>3, <2>4 DEF IdsTrue
<1>7. ASSUME picked'.list = "replaced", NEW p \in picked'.rows
      PROVE  /\ Superseded(log', p)
             /\ mode' = "up" => \A cn \in Name : reg'.devices[cn].cert # p.cert
  <2>1. /\ Superseded(log, p) /\ p \in CertRecord
        /\ mode = "up" => \A cn \in Name : reg.devices[cn].cert # p.cert
    BY <1>0, <1>7 DEF ListInv
  <2>2. Superseded(log', p)
    BY <1>2, <2>1, SupersededPrefix DEF Extends
  <2>3. mode' = "up" => \A cn \in Name : reg'.devices[cn].cert # p.cert
    BY <1>0, <1>1, <2>1, ReplacedStays
  <2> QED
    BY <2>2, <2>3
<1>8. ListInv'
  BY <1>6, <1>7 DEF ListInv
<1> QED
  BY ZenonT(30), <1>1, <1>3, <1>4, <1>5, <1>8 DEF AdminInv

\* So does one that a handler makes besides its own request.
LEMMA BesidesStep ==
  ASSUME AdminInv, [Next]_vars, picked' = picked, wrong' \in SUBSET Cert,
         orphan \/ wrong' = {}, NEW r, Besides(r),
         r \in [asked: SUBSET Cert, todo: SUBSET Cert],
         mode' # "starting" => r.asked \ r.todo \subseteq reg'.revoked_certs
  PROVE  AdminInv'
<1>1. NoRequest \in [asked: SUBSET Cert, todo: SUBSET Cert] /\ NoRequest.asked = {}
  BY DEF NoRequest
<1>2. /\ req' = IF mode' = "starting" THEN NoRequest ELSE r
      /\ orphan' = (orphan \/ Orphaned')
  BY DEF Besides, Orphaned
<1>3. req' \in [asked: SUBSET Cert, todo: SUBSET Cert]
  BY <1>1, <1>2
<1>4. req'.asked \ req'.todo \subseteq reg'.revoked_certs
  BY <1>1, <1>2
<1> QED
  BY <1>2, <1>3, <1>4, RegistryStep

\* What the request in progress has passed stays revoked.
LEMMA PassedStays ==
  ASSUME AdminInv, [Next]_vars, mode' # "starting"
  PROVE  req.asked \ req.todo \subseteq reg'.revoked_certs
<1>1. LogInv /\ Kind /\ req.asked \ req.todo \subseteq reg.revoked_certs
  BY ZenonT(30), StepKind DEF AdminInv, RegInv, RequestInv
<1> QED
  BY <1>1, RevokedGrow

\* Every step of the requests is a step of the registry or none, and keeps
\* the invariant.
LEMMA AdminInvNext == AdminInv /\ [AdminNext]_adminVars => AdminInv' /\ [Next]_vars
<1> SUFFICES ASSUME AdminInv, [AdminNext]_adminVars PROVE AdminInv' /\ [Next]_vars
  OBVIOUS
<1>0. /\ LogInv /\ RequestTypes /\ FileInv /\ RequestInv /\ ListInv
      /\ reg \in RegistryState /\ reg.certificates \subseteq CertRecord
      /\ picked.rows \subseteq CertRecord /\ wrong \subseteq Cert
      /\ req \in [asked: SUBSET Cert, todo: SUBSET Cert] /\ req.todo \subseteq Cert
  BY DEF AdminInv, RegInv, LogInv, RequestTypes, RegistryState
<1>m. ASSUME NEW rows \in SUBSET reg.certificates
      PROVE  /\ CertsOf(rows) \subseteq Cert
             /\ wrong \cup Misses(rows) \subseteq Cert
             /\ orphan \/ wrong \cup Misses(rows) = {}
  <2>1. CertsOf(rows) \subseteq Cert /\ Misses(rows) \subseteq Cert
    BY SMT, <1>0 DEF CertsOf, Misses, CertRecord
  <2>2. CASE ~orphan
    <3>1. /\ IdsInv(log, pos, reg) /\ wrong = {}
          /\ \A p \in picked.rows : Entry(log, Len(log), p)
      BY <1>0, <2>2 DEF ListInv
    <3>2. Misses(rows) = {}
      BY <1>0, <3>1, NoMisses
    <3> QED
      BY <2>1, <3>1, <3>2
  <2> QED
    BY <1>0, <2>1, <2>2
<1>1. ASSUME NEW some, picked' = [list |-> "all", rows |-> some], some \subseteq reg.certificates,
             UNCHANGED <<vars, req, wrong, orphan>>
      PROVE  AdminInv'
  <2>0. UNCHANGED <<mode, reg, log, pos, skipped>>
    BY <1>1 DEF vars
  <2>1. RequestTypes'
    BY <1>0, <1>1 DEF RequestTypes
  <2>2. RequestInv'
    BY <1>0, <1>1, <2>0 DEF RequestInv
  <2>3. IdsInv(log, pos, reg) => \A p \in some : Entry(log, Len(log), p)
    <3>1. pos \in Nat /\ Len(log) \in Nat /\ pos <= Len(log) /\ \A i \in 1..pos : log[i] = log[i]
      BY SMT, <1>0 DEF LogInv
    <3> QED
      BY ZenonT(30), <1>1, <3>1, EntryPrefix DEF IdsInv
  <2>4. picked'.list = "all" /\ picked'.rows = some
    BY <1>1
  <2>5. ListInv'
    BY <1>0, <1>1, <2>0, <2>3, <2>4 DEF ListInv
  <2> QED
    BY <1>1, <2>1, <2>2, <2>5, RequestStep
<1>2. ASSUME NEW some, picked' = [list |-> "replaced", rows |-> some],
             some \subseteq ListReplacedCerts(reg),
             UNCHANGED <<vars, req, wrong, orphan>>
      PROVE  AdminInv'
  <2>0. UNCHANGED <<mode, reg, log, pos, skipped>> /\ some \subseteq reg.certificates
    BY <1>2 DEF vars, ListReplacedCerts, SortedCerts
  <2>1. RequestTypes'
    BY <1>0, <1>2, <2>0 DEF RequestTypes
  <2>2. RequestInv'
    BY ZenonT(30), <1>0, <1>2, <2>0 DEF RequestInv
  <2>3. IdsInv(log, pos, reg) => \A p \in some : Entry(log, Len(log), p)
    <3>1. pos \in Nat /\ Len(log) \in Nat /\ pos <= Len(log) /\ \A i \in 1..pos : log[i] = log[i]
      BY SMT, <1>0 DEF LogInv
    <3> QED
      BY SMTT(30), <2>0, <3>1, EntryPrefix DEF IdsInv
  <2>4. picked'.list = "replaced" /\ picked'.rows = some
    BY <1>2
  <2>5. \A p \in some : Superseded(log, p) /\ \A cn \in Name : reg.devices[cn].cert # p.cert
    BY <1>0, <1>2, ReplacedRows
  <2>6. ListInv'
    BY <1>0, <1>2, <2>0, <2>3, <2>4, <2>5 DEF ListInv
  <2> QED
    BY <1>2, <2>1, <2>2, <2>6, RequestStep
<1>3. ASSUME NEW asked \in SUBSET Cert, mode = "up", req' = [asked |-> asked, todo |-> asked],
             wrong' \in SUBSET Cert, orphan \/ wrong' = {}, UNCHANGED <<vars, picked, orphan>>
      PROVE  AdminInv'
  <2>0. UNCHANGED <<mode, reg, log, pos, skipped>>
    BY <1>3 DEF vars
  <2>1. RequestTypes'
    BY <1>0, <1>3 DEF RequestTypes
  <2>2. RequestInv'
    BY <1>3, <2>0 DEF RequestInv
  <2>3. ListInv'
    BY <1>0, <1>3, <2>0 DEF ListInv
  <2> QED
    BY <1>3, <2>1, <2>2, <2>3, RequestStep
<1>4. ASSUME req' = NoRequest, UNCHANGED <<vars, picked, wrong, orphan>>
      PROVE  AdminInv'
  <2>0. UNCHANGED <<mode, reg, log, pos, skipped>>
    BY <1>4 DEF vars
  <2>1. RequestTypes'
    BY <1>0, <1>4 DEF RequestTypes, NoRequest
  <2>2. RequestInv'
    BY <1>4 DEF RequestInv, NoRequest
  <2>3. ListInv'
    BY <1>0, <1>4, <2>0 DEF ListInv
  <2> QED
    BY <1>4, <2>1, <2>2, <2>3, RequestStep
<1>5. ASSUME Next, Besides(req), picked' = picked, wrong' \in SUBSET Cert, orphan \/ wrong' = {}
      PROVE  AdminInv'
  <2>1. mode' # "starting" => req.asked \ req.todo \subseteq reg'.revoked_certs
    BY <1>5, PassedStays
  <2> QED
    BY <1>0, <1>5, <2>1, BesidesStep
<1>w. wrong \in SUBSET Cert /\ (orphan \/ wrong = {})
  BY <1>0 DEF ListInv
<1>6. CASE ListCerts("all", SortedCerts(reg))
  BY <1>1, <1>6 DEF ListCerts, SortedCerts
<1>7. CASE ListCerts("replaced", ListReplacedCerts(reg))
  BY <1>2, <1>7 DEF ListCerts
<1>8. CASE RevokeCertsById
  <2> DEFINE rows == Named(PickedIds)
  <2>1. rows \in SUBSET reg.certificates
    BY DEF Named
  <2>2. /\ mode = "up" /\ req' = [asked |-> CertsOf(rows), todo |-> CertsOf(rows)]
        /\ wrong' = wrong \cup Misses(rows) /\ UNCHANGED <<vars, picked, orphan>>
    BY <1>8 DEF RevokeCertsById
  <2> HIDE DEF rows
  <2>3. /\ CertsOf(rows) \in SUBSET Cert /\ wrong' \in SUBSET Cert /\ (orphan \/ wrong' = {})
    BY <1>m, <2>1, <2>2
  <2>4. AdminInv'
    BY <1>3, <2>2, <2>3
  <2> QED
    BY <2>2, <2>4
<1>9. ASSUME NEW hash \in Cert, RevokeCertByHash(hash)
      PROVE  AdminInv' /\ UNCHANGED vars
  <2>1. {hash} \in SUBSET Cert
    OBVIOUS
  <2>2. /\ mode = "up" /\ req' = [asked |-> {hash}, todo |-> {hash}]
        /\ wrong' = wrong /\ UNCHANGED <<vars, picked, orphan>>
    BY <1>9 DEF RevokeCertByHash
  <2>3. AdminInv'
    BY <1>3, <1>w, <2>1, <2>2
  <2> QED
    BY <2>2, <2>3
<1>10. ASSUME NEW c \in req.todo, RevokeNext(c)
       PROVE  AdminInv' /\ Next
  <2> DEFINE left == [req EXCEPT !.todo = @ \ {c}]
             r == IF c \in reg'.revoked_certs THEN left ELSE NoRequest
  <2>1. c \in Cert /\ RevokeCert(c) /\ Besides(r) /\ UNCHANGED <<picked, wrong>>
    BY <1>0, <1>10 DEF RevokeNext
  <2>2. Next
    BY <2>1 DEF Next
  <2>3. /\ left \in [asked: SUBSET Cert, todo: SUBSET Cert]
        /\ left.asked = req.asked /\ left.todo = req.todo \ {c}
    BY <1>0
  <2>4. /\ NoRequest \in [asked: SUBSET Cert, todo: SUBSET Cert]
        /\ NoRequest.asked = {}
    BY DEF NoRequest
  <2> HIDE DEF left
  <2>5. r \in [asked: SUBSET Cert, todo: SUBSET Cert]
    BY <2>3, <2>4
  <2>6. ASSUME mode' # "starting" PROVE r.asked \ r.todo \subseteq reg'.revoked_certs
    <3>1. req.asked \ req.todo \subseteq reg'.revoked_certs
      BY <2>2, <2>6, PassedStays
    <3> QED
      BY <2>3, <2>4, <3>1
  <2> HIDE DEF r
  <2>7. AdminInv'
    BY <1>w, <2>1, <2>2, <2>5, <2>6, BesidesStep
  <2> QED
    BY <2>2, <2>7
<1>11. CASE Revoked200
  BY <1>4, <1>11 DEF Revoked200
<1>12. ASSUME NEW id \in 1..reg.next_cert_id, DeleteCerts(id)
       PROVE  AdminInv' /\ Next
  <2>1. DeleteCert(id) /\ Besides(req) /\ picked' = picked /\ wrong' = wrong \cup Misses(Named({id}))
    BY <1>12 DEF DeleteCerts
  <2>2. Next
    BY <2>1 DEF Next
  <2>3. Named({id}) \in SUBSET reg.certificates
    BY DEF Named
  <2>4. wrong' \in SUBSET Cert /\ (orphan \/ wrong' = {})
    BY <1>m, <2>1, <2>3
  <2> QED
    BY <1>5, <2>1, <2>2, <2>4
<1>13. ASSUME NEW cn \in Name, BlockDevice(cn) \/ UnblockDevice(cn)
       PROVE  AdminInv' /\ Next
  <2>1. (Revoke(cn) \/ Unblock(cn)) /\ Besides(req) /\ UNCHANGED <<picked, wrong>>
    BY <1>13 DEF BlockDevice, UnblockDevice
  <2>2. Next
    BY <2>1 DEF Next
  <2> QED
    BY <1>5, <1>w, <2>1, <2>2
<1>14. CASE Elsewhere
  <2>1. Next /\ Besides(req) /\ UNCHANGED <<picked, wrong>>
    BY <1>14 DEF Elsewhere, Next
  <2> QED
    BY <1>5, <1>w, <2>1
<1>15. CASE UNCHANGED adminVars
  <2>1. UNCHANGED vars /\ UNCHANGED <<picked, req, wrong, orphan>>
    BY <1>15 DEF adminVars, admin
  <2>2. UNCHANGED <<mode, reg, log, pos, skipped>>
    BY <2>1 DEF vars
  <2>3. RequestTypes' /\ RequestInv' /\ ListInv'
    BY <1>0, <2>1, <2>2 DEF RequestTypes, RequestInv, ListInv
  <2> QED
    BY <2>1, <2>3, RequestStep
<1>16. ListCerts("all", SortedCerts(reg)) \/ ListCerts("replaced", ListReplacedCerts(reg))
         \/ Revoked200 => UNCHANGED vars
  BY DEF ListCerts, Revoked200
<1>17. Elsewhere => Next
  BY DEF Elsewhere, Next
<1>18. RevokeCertsById \/ UNCHANGED adminVars => UNCHANGED vars
  BY DEF RevokeCertsById, adminVars
<1> QED
  BY SMTT(30), <1>6, <1>7, <1>8, <1>9, <1>10, <1>11, <1>12, <1>13, <1>14, <1>15, <1>16, <1>17, <1>18
  DEF AdminNext

\* The invariant holds in every reachable state.
LEMMA AdminInvAlways == AdminSpec => []AdminInv
  BY AdminInvInit, AdminInvNext, PTL DEF AdminSpec

\* The admin's requests only do what the registry's operations allow: what is
\* proved of the registry holds with them.
THEOREM AdminImplementsRegistry == AdminSpec => Spec
<1>1. AdminInit => Init
  BY DEF AdminInit
<1> QED
  BY <1>1, AdminInvInit, AdminInvNext, PTL DEF AdminSpec, Spec

\* What the admin took from a list stays true until the request that uses it
\* comes, for any number of devices, certificates, crashes and replays: ids
\* mean the certificates that were listed (until an enrollment is in the file
\* and not in memory), and no current certificate was listed as replaced.
THEOREM ListsStayTrueAlways == AdminSpec => []ListsStayTrue
<1>1. AdminInv => IdsMeanWhatWasListed
  BY DEF AdminInv, ListInv, IdsMeanWhatWasListed
<1>2. AdminInv => ReplacedNeverCurrent
  <2> SUFFICES ASSUME AdminInv, mode = "up", NEW cn \in Name
               PROVE  /\ \A c \in SortedCerts(reg) : c.cert = reg.devices[cn].cert
                            => c \in ListActiveCerts(reg) \ ListReplacedCerts(reg)
                      /\ picked.list = "replaced"
                            => reg.devices[cn].cert \notin CertsOf(picked.rows)
    BY DEF ReplacedNeverCurrent
  <2>0. LogInv /\ FileInv /\ ListInv
    BY DEF AdminInv, RegInv
  <2>1. ASSUME NEW c \in SortedCerts(reg), c.cert = reg.devices[cn].cert
        PROVE  c \in ListActiveCerts(reg) \ ListReplacedCerts(reg)
    <3>1. c \in reg.certificates
      BY DEF SortedCerts
    <3>2. c \in NewestPerClient(reg)
      BY <2>0, <2>1, <3>1, CurrentIsNewest
    <3> QED
      BY <3>1, <3>2 DEF ListActiveCerts, ListReplacedCerts, SortedCerts
  <2>2. picked.list = "replaced" => reg.devices[cn].cert \notin CertsOf(picked.rows)
    BY <2>0 DEF ListInv, CertsOf
  <2> QED
    BY <2>1, <2>2
<1>3. TypeOK /\ AdminInv => AdminTypeOK
  BY DEF AdminInv, RequestTypes, AdminTypeOK
<1>4. TypeOK /\ AdminInv => ListsStayTrue
  BY <1>1, <1>2, <1>3 DEF ListsStayTrue
<1> QED
  BY <1>4, AdminInvAlways, AdminImplementsRegistry, TypeOKAlways, PTL

\* A revocation in progress has revoked what it has passed, while rows are
\* deleted, devices enroll again, appends fail and the process restarts.
THEOREM RevokedSoFarAlways == AdminSpec => []RevokedSoFar
<1>1. AdminInv => RevokedSoFar
  BY DEF AdminInv, RequestInv, RevokedSoFar, CertsOf, ListRevokedCerts, SortedCerts
<1> QED
  BY <1>1, AdminInvAlways, PTL
=============================================================================
