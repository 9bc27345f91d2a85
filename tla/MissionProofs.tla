---------------------------- MODULE MissionProofs ----------------------------
(***************************************************************************)
(* Proofs about what a mission says of itself, its log, and what is         *)
(* announced of both, for any missions, entries, keywords and requests in   *)
(* progress, and any number of faults: RecordsSeen is an invariant.         *)
(***************************************************************************)
EXTENDS MissionRecords, TLAPS

\* Most steps are about sets and functions only: Zenon proves them.  The others say SMT.
USE Zenon

-----------------------------------------------------------------------------
(***************************************************************************)
(* What a request holds at each point, and the inductive invariant.         *)
(***************************************************************************)
Updated == {"fields", "password", "role", "groups"}
Wanted == [fields: Values.fields, password: Values.password, role: Values.role, groups: Values.groups]

Update  == [pc: Updated \cup {"compare"}, snap: Attributes, want: Wanted, wrote: SUBSET Updated, stale: BOOLEAN]
Single(a, V) == [pc: {"announce"}, attr: {a}, value: V, wrote: {{a}}, stale: BOOLEAN]
Removes == [pc: {"remove"}, value: SUBSET Keyword, wrote: {{}}]
Expires == [pc: {"expire"}, value: Values.fields, wrote: {{}}]
Logs(m) == [pc: {"log"}, mission: {m}, wrote: {{m}}]
Puts    == [pc: {"put"}, id: Entry, entry: LogEntry, late: BOOLEAN, wrote: {{}}]
Deletes == [pc: {"delete"}, id: Entry, mission: Mission, wrote: {{}}]

RequestOK(q) ==
  \/ q = Idle \/ q \in Update
  \/ q \in Single("password", {0, 1}) \/ q \in Single("keywords", SUBSET Keyword) \/ q \in Single("marks", SUBSET Keyword)
  \/ q \in Removes \/ q \in Expires \/ q \in Puts \/ q \in Deletes
  \/ \E m \in Mission : q \in Logs(m)

Store == [attr: Attributes, logs: [Entry -> LogEntry \cup {Absent}]]

Types ==
  /\ mode \in Modes /\ faults \in Nat /\ faults <= mode.maxFaults
  /\ mem \in Store /\ stored \in Store
  /\ DOMAIN req = Slot /\ \A r \in Slot : RequestOK(req[r])
  /\ seen.attr \in Attributes /\ seen.logs \in [Mission -> SUBSET [id: Entry, text: {0, 1}]]
  /\ DOMAIN seen = {"attr", "logs"}
  /\ quiet \subseteq Attr \cup Mission
  /\ revived \subseteq deleted /\ deleted \subseteq Entry

\* The request that stored the attribute a last is about to announce.
Owns(r, a) ==
  /\ a \in wrote(r)
  /\ req[r].pc # "announce" => mem.attr[a] = req[r].want[a] /\ req[r].want[a] # req[r].snap[a]

\* RecordsSeen says who has to announce what only once nobody has; while a
\* request is between its change and its announcement, this one is it.
AttrInv == \A a \in Attr \ quiet : seen.attr[a] # mem.attr[a] => \E r \in Slot : Owns(r, a)

\* What is announced with its value is what is stored, if nobody has stored since.
AnnounceInv == \A r \in Slot : req[r].pc = "announce" /\ ~req[r].stale => mem.attr[req[r].attr] = req[r].value

\* A PUT that would bring a deleted entry back is known to.
PutOK(q, del, rev) ==
  q.pc = "put" => /\ q.id \in del \ rev => q.late
                  /\ q.late => q.id \in del

PutInv == \A r \in Slot : PutOK(req[r], deleted, revived)

RecInv == Types /\ AttrInv /\ AnnounceInv /\ LogSeen /\ PutInv /\ DeletedLogsStay

-----------------------------------------------------------------------------
LEMMA AttrNames == Attr = {"fields", "password", "role", "groups", "keywords", "marks"}
BY DEF Attr, Values

LEMMA AttrSetFacts ==
  ASSUME NEW s \in Store, NEW a \in Attr, NEW v \in Values[a], NEW t, t = AttrSet(s, a, v)
  PROVE  /\ t \in Store /\ t.logs = s.logs
         /\ t.attr[a] = v /\ \A b \in Attr : b # a => t.attr[b] = s.attr[b]
<1> DEFINE y == [s.attr EXCEPT ![a] = v]
<1>1. t = [s EXCEPT !.attr = y]
  BY DEF AttrSet
<1>2. s.attr \in Attributes /\ DOMAIN s.attr = Attr
  BY AttrNames DEF Store, Attributes
<1>3. y[a] = v /\ \A b \in Attr : b # a => y[b] = s.attr[b]
  BY <1>2
<1>4. y \in Attributes
  BY AttrNames, <1>2 DEF Attributes, Values
<1> HIDE DEF y
<1>5. t \in Store /\ t.logs = s.logs /\ t.attr = y
  BY <1>1, <1>4 DEF Store
<1> QED BY <1>3, <1>5

LEMMA RecordAttr ==
  ASSUME Types, NEW a \in Attr, NEW v \in Values[a], Record(AttrSet(mem, a, v), AttrSet(stored, a, v))
  PROVE  /\ mem' \in Store /\ stored' \in Store /\ mem'.logs = mem.logs /\ stored'.logs = stored.logs
         /\ \/ /\ faults' = faults
               /\ mem'.attr[a] = v /\ \A b \in Attr : b # a => mem'.attr[b] = mem.attr[b]
            \/ faults' = faults + 1 /\ faults < mode.maxFaults /\ mem' = mem
<1>0. mem \in Store /\ stored \in Store
  BY DEF Types
<1> DEFINE t == AttrSet(mem, a, v)
           u == AttrSet(stored, a, v)
<1>1. \/ mem' = t /\ stored' = u /\ faults' = faults
      \/ faults' = faults + 1 /\ faults < mode.maxFaults /\ mem' = mem /\ stored' \in {stored, u}
  BY DEF Record, Fault
<1>2. /\ t \in Store /\ t.logs = mem.logs
      /\ t.attr[a] = v /\ \A b \in Attr : b # a => t.attr[b] = mem.attr[b]
  BY SMT, <1>0, AttrSetFacts
<1>3. u \in Store /\ u.logs = stored.logs
  BY SMT, <1>0, AttrSetFacts
<1> HIDE DEF t, u
<1> QED BY <1>0, <1>1, <1>2, <1>3

\* What a request is, by where it is.
LEMMA RequestFacts ==
  ASSUME NEW q, RequestOK(q)
  PROVE  /\ q.pc \in Updated \cup {"compare"} => q \in Update
         /\ q.pc = "announce" =>
              /\ q.attr \in {"password", "keywords", "marks"} /\ q.wrote = {q.attr}
              /\ q.value \in Values[q.attr] /\ q.stale \in BOOLEAN
         /\ q.pc = "remove" => q \in Removes
         /\ q.pc = "expire" => q \in Expires
         /\ q.pc = "log" => q.mission \in Mission /\ q.wrote = {q.mission}
         /\ q.pc = "put" => q \in Puts
         /\ q.pc = "delete" => q \in Deletes
         /\ q.pc = "idle" => q = Idle
         /\ q.pc \in Updated \cup {"compare", "announce", "remove", "expire", "log", "put", "delete", "idle"}
<1>1. CASE q = Idle
  BY <1>1 DEF Idle, Updated
<1>2. CASE q \in Update
  BY <1>2 DEF Update, Updated
<1>3. CASE q \in Single("password", {0, 1})
  BY SMT, <1>3 DEF Single, Updated, Values
<1>4. CASE q \in Single("keywords", SUBSET Keyword) \/ q \in Single("marks", SUBSET Keyword)
  BY SMT, <1>4 DEF Single, Updated, Values
<1>5. CASE q \in Removes
  BY <1>5 DEF Removes, Updated
<1>6. CASE q \in Expires
  BY <1>6 DEF Expires, Updated
<1>7. CASE q \in Puts
  BY <1>7 DEF Puts, Updated
<1>8. CASE q \in Deletes
  BY <1>8 DEF Deletes, Updated
<1>9. CASE \E m \in Mission : q \in Logs(m)
  BY <1>9 DEF Logs, Updated
<1> QED BY <1>1, <1>2, <1>3, <1>4, <1>5, <1>6, <1>7, <1>8, <1>9 DEF RequestOK

LEMMA WroteFacts ==
  ASSUME Types, NEW r \in Slot
  PROVE  /\ RequestOK(req[r])
         /\ wrote(r) \subseteq Attr \/ req[r].pc = "log"
         /\ req[r].pc \in {"idle", "remove", "expire", "put", "delete"} => wrote(r) = {}
         /\ req[r].pc \in Updated \cup {"compare"} => wrote(r) = req[r].wrote /\ wrote(r) \subseteq Updated
         /\ req[r].pc = "announce" => wrote(r) = {req[r].attr}
         /\ req[r].pc = "log" => req[r].mission \in Mission /\ wrote(r) = {req[r].mission}
<1>1. RequestOK(req[r])
  BY DEF Types
<1>2. req[r].pc \in {"idle", "remove", "expire", "put", "delete"} => wrote(r) = {}
  BY <1>1, RequestFacts DEF wrote, Removes, Expires, Puts, Deletes
<1>3. req[r].pc \in Updated \cup {"compare"} => wrote(r) = req[r].wrote /\ wrote(r) \subseteq Updated
  BY <1>1, RequestFacts DEF wrote, Update, Updated
<1>4. req[r].pc = "announce" => wrote(r) = {req[r].attr} /\ req[r].attr \in Attr
  BY <1>1, RequestFacts, AttrNames DEF wrote
<1>5. req[r].pc = "log" => req[r].mission \in Mission /\ wrote(r) = {req[r].mission}
  BY <1>1, RequestFacts DEF wrote
<1>6. Updated \subseteq Attr
  BY AttrNames DEF Updated
<1>7. req[r].pc \in Updated \cup {"compare", "announce", "remove", "expire", "log", "put", "delete", "idle"}
  BY <1>1, RequestFacts
<1> QED BY <1>1, <1>2, <1>3, <1>4, <1>5, <1>6, <1>7

LEMMA StaleFacts ==
  ASSUME NEW q, RequestOK(q), q.pc \in Updated \cup {"compare", "announce"},
         NEW t, t = [q EXCEPT !.stale = TRUE]
  PROVE  /\ RequestOK(t) /\ t.pc = q.pc /\ t.wrote = q.wrote /\ t.stale
         /\ q.pc # "announce" => t.want = q.want /\ t.snap = q.snap
         /\ q.pc = "announce" => t.attr = q.attr /\ t.value = q.value
<1>1. CASE q \in Update
  BY <1>1 DEF Update, RequestOK, Updated
<1>2. ASSUME NEW a, NEW V, q \in Single(a, V)
      PROVE  /\ t \in Single(a, V) /\ t.pc = q.pc /\ t.wrote = q.wrote /\ t.stale
             /\ q.pc = "announce" /\ t.attr = q.attr /\ t.value = q.value
  BY <1>2 DEF Single
<1>3. \/ q \in Update \/ q \in Single("password", {0, 1})
      \/ q \in Single("keywords", SUBSET Keyword) \/ q \in Single("marks", SUBSET Keyword)
  BY SMT DEF RequestOK, Idle, Removes, Expires, Logs, Puts, Deletes, Updated
<1> QED BY <1>1, <1>2, <1>3 DEF RequestOK

-----------------------------------------------------------------------------
(***************************************************************************)
(* What keeps each part of the invariant.                                   *)
(***************************************************************************)
LEMMA LogKept ==
  ASSUME Types, LogSeen, mem'.logs = mem.logs, seen'.logs = seen.logs,
         \A m \in Mission : m \in quiet => m \in quiet',
         \A s \in Slot : req[s].pc = "log" => req'[s] = req[s]
  PROVE  LogSeen'
<1>1. \A m \in Mission : LogOf(mem, m)' = LogOf(mem, m)
  BY DEF LogOf
<1>2. ASSUME NEW m \in Mission, Pending(m)
      PROVE  Pending(m)'
  <2>1. PICK s \in Slot : m \in wrote(s)
    BY <1>2 DEF Pending
  <2>2. m \notin Attr
    BY AttrNames, RecordsAssumption
  <2>3. req[s].pc = "log"
    BY <2>1, <2>2, WroteFacts
  <2>4. m \in wrote(s)'
    BY <2>1, <2>3 DEF wrote
  <2> QED BY <2>4 DEF Pending
<1> QED BY <1>1, <1>2 DEF LogSeen

LEMMA PutsKept ==
  ASSUME PutInv, DeletedLogsStay, mem'.logs = mem.logs, stored'.logs = stored.logs,
         deleted' = deleted, revived' = revived,
         \A s \in Slot : req'[s] = req[s] \/ PutOK(req'[s], deleted, revived)
  PROVE  PutInv' /\ DeletedLogsStay'
<1>1. PutInv'
  BY DEF PutInv, PutOK
<1>2. DeletedLogsStay'
  BY DEF DeletedLogsStay
<1> QED BY <1>1, <1>2

LEMMA AttrKept ==
  ASSUME AttrInv, AnnounceInv, mem'.attr = mem.attr, seen'.attr = seen.attr,
         \A a \in Attr : a \in quiet => a \in quiet',
         \A s \in Slot : \/ req'[s] = req[s]
                         \/ /\ req'[s].pc # "announce"
                            /\ \A a \in Attr : Owns(s, a) => Owns(s, a)' \/ a \in quiet'
  PROVE  AttrInv' /\ AnnounceInv'
<1>1. ASSUME NEW a \in Attr, a \notin quiet', NEW s \in Slot, Owns(s, a)
      PROVE  Owns(s, a)'
  <2>1. CASE req'[s] = req[s]
    BY <1>1, <2>1 DEF Owns, wrote
  <2> QED BY <1>1, <2>1
<1>2. AttrInv'
  BY <1>1 DEF AttrInv
<1>3. AnnounceInv'
  BY DEF AnnounceInv
<1> QED BY <1>2, <1>3

LEMMA TypesKept ==
  ASSUME Types, mode' = mode, mem' \in Store, stored' \in Store, seen' = seen,
         faults' = faults \/ (faults' = faults + 1 /\ faults < mode.maxFaults),
         DOMAIN req' = Slot, \A s \in Slot : RequestOK(req'[s]),
         quiet' \subseteq Attr \cup Mission, deleted' = deleted, revived' = revived
  PROVE  Types'
<1>1. mode.maxFaults \in Nat
  BY RecordsAssumption DEF Types
<1>2. faults' \in Nat /\ faults' <= mode'.maxFaults
  BY SMT, <1>1 DEF Types
<1> QED BY <1>2 DEF Types

-----------------------------------------------------------------------------
(***************************************************************************)
(* A request begins, goes on or ends, and nothing is stored.                *)
(***************************************************************************)
Moves(r, q) ==
  /\ req' = [req EXCEPT ![r] = q]
  /\ UNCHANGED <<mode, mem, stored, seen, faults, deleted, revived>>

LEMMA MovesOne ==
  ASSUME Types, NEW r \in Slot, NEW q, Moves(r, q)
  PROVE  req'[r] = q /\ DOMAIN req' = Slot /\ \A s \in Slot : s # r => req'[s] = req[s]
BY DEF Types, Moves

LEMMA MovesKept ==
  ASSUME RecInv, NEW r \in Slot, NEW q, RequestOK(q), Moves(r, q),
         req[r].pc # "log", q.pc # "announce",
         quiet \subseteq quiet', quiet' \subseteq Attr \cup Mission,
         PutOK(q, deleted, revived),
         \A a \in Attr : Owns(r, a) =>
           a \in quiet' \/ (q.pc # "idle" /\ a \in q.wrote /\ q.want = req[r].want /\ q.snap = req[r].snap
                            /\ req[r].pc # "announce")
  PROVE  RecInv'
<1>1. req'[r] = q /\ DOMAIN req' = Slot /\ \A s \in Slot : s # r => req'[s] = req[s]
  BY MovesOne DEF RecInv
<1>2. /\ mode' = mode /\ mem' = mem /\ stored' = stored /\ seen' = seen /\ faults' = faults
      /\ deleted' = deleted /\ revived' = revived
  BY DEF Moves
<1>3. Types'
  <2>1. mem' \in Store /\ stored' \in Store /\ \A s \in Slot : RequestOK(req'[s])
    BY <1>1, <1>2 DEF RecInv, Types
  <2> QED BY <1>1, <1>2, <2>1, TypesKept DEF RecInv
<1>4. AttrInv' /\ AnnounceInv'
  <2>1. \A a \in Attr : Owns(r, a) => Owns(r, a)' \/ a \in quiet'
    BY <1>1, <1>2 DEF Owns, wrote
  <2> QED BY <1>1, <1>2, <2>1, AttrKept DEF RecInv
<1>5. LogSeen'
  BY <1>1, <1>2, LogKept DEF RecInv
<1>6. PutInv' /\ DeletedLogsStay'
  BY <1>1, <1>2, PutsKept DEF RecInv
<1> QED BY <1>3, <1>4, <1>5, <1>6 DEF RecInv

LEMMA BeginKept ==
  ASSUME RecInv, NEW r \in Slot, NEW q, RequestOK(q), Begin(r, q), q.pc # "announce",
         PutOK(q, deleted, revived)
  PROVE  RecInv'
<1>1. Moves(r, q) /\ req[r] = Idle /\ quiet' = quiet
  BY DEF Begin, Moves
<1>2. req[r].pc = "idle" /\ \A a \in Attr : ~Owns(r, a)
  BY SMT, <1>1 DEF Idle, Owns, wrote
<1>3. quiet' \subseteq Attr \cup Mission /\ quiet \subseteq quiet'
  BY <1>1 DEF RecInv, Types
<1> QED BY <1>1, <1>2, <1>3, MovesKept

LEMMA UpdateExistingStep ==
  ASSUME RecInv, NEW r \in Slot, UpdateExisting(r)
  PROVE  RecInv'
<1> DEFINE Choice(a) == IF a \in mode.attrs THEN Values[a] ELSE {mem.attr[a]}
<1>1. PICK want \in [fields: Choice("fields"), password: Choice("password"),
                     role: Choice("role"), groups: Choice("groups")] :
        Begin(r, [pc |-> "fields", snap |-> mem.attr, want |-> want, wrote |-> {}, stale |-> FALSE])
  BY DEF UpdateExisting
<1> DEFINE q == [pc |-> "fields", snap |-> mem.attr, want |-> want, wrote |-> {}, stale |-> FALSE]
<1>2. mem.attr \in Attributes
  BY DEF RecInv, Types, Store
<1>3. want \in Wanted
  BY <1>2 DEF Wanted, Attributes, Values
<1>4. q \in Update /\ q.pc = "fields"
  BY <1>2, <1>3 DEF Update, Updated
<1> HIDE DEF q
<1>5. RequestOK(q) /\ q.pc # "announce" /\ PutOK(q, deleted, revived)
  BY <1>4 DEF RequestOK, PutOK
<1>6. Begin(r, q)
  BY <1>1 DEF q
<1> QED BY <1>5, <1>6, BeginKept

LEMMA BeginSteps ==
  ASSUME RecInv, NEW r \in Slot, RemoveKeyword(r) \/ SetExpiration(r)
  PROVE  RecInv'
<1>0. mem.attr["keywords"] \in SUBSET Keyword /\ mem.attr["fields"] \in [desc: {0, 1}, expiration: {Never, 1}]
  BY DEF RecInv, Types, Store, Attributes, Values
<1>1. CASE RemoveKeyword(r)
  <2>1. PICK k : Begin(r, [pc |-> "remove", value |-> mem.attr["keywords"] \ {k}, wrote |-> {}])
    BY <1>1 DEF RemoveKeyword
  <2> DEFINE q == [pc |-> "remove", value |-> mem.attr["keywords"] \ {k}, wrote |-> {}]
  <2>2. q \in Removes /\ q.pc = "remove"
    BY <1>0 DEF Removes
  <2> HIDE DEF q
  <2>3. RequestOK(q) /\ q.pc # "announce" /\ PutOK(q, deleted, revived)
    BY <2>2 DEF RequestOK, PutOK
  <2>4. Begin(r, q)
    BY <2>1 DEF q
  <2> QED BY <2>3, <2>4, BeginKept
<1>2. CASE SetExpiration(r)
  <2>1. PICK e \in {Never, 1} :
          Begin(r, [pc |-> "expire", value |-> [mem.attr["fields"] EXCEPT !.expiration = e], wrote |-> {}])
    BY <1>2 DEF SetExpiration
  <2> DEFINE v == [mem.attr["fields"] EXCEPT !.expiration = e]
             q == [pc |-> "expire", value |-> v, wrote |-> {}]
  <2>2. v \in Values.fields
    BY <1>0 DEF Values
  <2>3. Begin(r, q)
    BY <2>1
  <2> HIDE DEF v
  <2>4. q \in Expires /\ q.pc = "expire"
    BY <2>2 DEF Expires
  <2> HIDE DEF q
  <2>5. RequestOK(q) /\ q.pc # "announce" /\ PutOK(q, deleted, revived)
    BY <2>4 DEF RequestOK, PutOK
  <2> QED BY <2>3, <2>5, BeginKept
<1> QED BY <1>1, <1>2

LEMMA BeginLogSteps ==
  ASSUME RecInv, NEW r \in Slot, NEW id \in Entry,
         DeleteLogEntry(r, id) \/ \E e \in LogEntry : PutLogEntry(r, id, e)
  PROVE  RecInv'
<1>0. mem.logs[id] # Absent
  BY DEF DeleteLogEntry, PutLogEntry
<1>1. mem.logs[id] \in LogEntry
  BY <1>0 DEF RecInv, Types, Store
<1>2. CASE DeleteLogEntry(r, id)
  <2> DEFINE q == [pc |-> "delete", id |-> id, mission |-> mem.logs[id].mission, wrote |-> {}]
  <2>1. Begin(r, q)
    BY <1>2 DEF DeleteLogEntry
  <2>2. q \in Deletes /\ q.pc = "delete"
    BY <1>1 DEF Deletes, LogEntry
  <2> HIDE DEF q
  <2>3. RequestOK(q) /\ q.pc # "announce" /\ PutOK(q, deleted, revived)
    BY <2>2 DEF RequestOK, PutOK
  <2> QED BY <2>1, <2>3, BeginKept
<1>3. ASSUME NEW e \in LogEntry, PutLogEntry(r, id, e)
      PROVE  RecInv'
  <2> DEFINE q == [pc |-> "put", id |-> id, entry |-> e, late |-> FALSE, wrote |-> {}]
  <2>1. Begin(r, q)
    BY <1>3 DEF PutLogEntry
  <2>2. q \in Puts /\ q.pc = "put" /\ q.id = id /\ ~q.late
    BY DEF Puts
  <2> HIDE DEF q
  <2>3. RequestOK(q) /\ q.pc # "announce" /\ PutOK(q, deleted, revived)
    BY <1>0, <2>2 DEF RequestOK, PutOK, RecInv, DeletedLogsStay
  <2> QED BY <2>1, <2>3, BeginKept
<1> QED BY <1>2, <1>3

\* A request ends: what it has stored and not announced is quiet from then on.
LEMMA IdleOK == RequestOK(Idle) /\ Idle.pc = "idle" /\ PutOK(Idle, deleted, revived) /\ PutOK(Idle, deleted', revived')
BY DEF RequestOK, PutOK, Idle

LEMMA StopsKept ==
  ASSUME RecInv, NEW r \in Slot, Moves(r, Idle), req[r].pc # "log",
         quiet' = quiet \/ quiet' = quiet \cup wrote(r),
         \A a \in Attr : Owns(r, a) => a \in quiet'
  PROVE  RecInv'
<1>1. wrote(r) \subseteq Attr
  BY WroteFacts DEF RecInv
<1>2. quiet' \subseteq Attr \cup Mission /\ quiet \subseteq quiet'
  BY <1>1 DEF RecInv, Types
<1> QED BY <1>2, IdleOK, MovesKept

-----------------------------------------------------------------------------
(***************************************************************************)
(* A request stores an attribute.                                           *)
(***************************************************************************)
Working == Updated \cup {"compare", "announce"}

\* The request as it goes on: it is to announce what it has stored.
GoesOn(r, a, v, q) ==
  /\ RequestOK(q) /\ q.pc \in Working /\ a \in q.wrote /\ req[r].pc # "log"
  /\ q.pc = "announce" => q.attr = a /\ q.value = v /\ wrote(r) = {}
  /\ q.pc # "announce" =>
       /\ q.want[a] = v /\ v # q.snap[a] /\ wrote(r) \subseteq q.wrote
       /\ q.want = req[r].want /\ q.snap = req[r].snap /\ req[r].pc # "announce"

\* What the others keep; only that it is stale may be new.
Alike(s) ==
  /\ RequestOK(req'[s]) /\ req'[s].pc = req[s].pc /\ wrote(s)' = wrote(s)
  /\ req[s].pc \in Working \ {"announce"} => req'[s].want = req[s].want /\ req'[s].snap = req[s].snap
  /\ req[s].pc = "announce" => req'[s].attr = req[s].attr /\ req'[s].value = req[s].value
  /\ req[s].pc \notin Working => req'[s] = req[s]

LEMMA OthersAlike ==
  ASSUME Types, NEW r \in Slot, NEW a \in Attr, NEW v, NEW q, Set(r, a, v, q), NEW s \in Slot, s # r
  PROVE  /\ Alike(s)
         /\ faults' = faults /\ a \in wrote(s) => req'[s].stale
         /\ faults' # faults \/ a \notin wrote(s) => req'[s] = req[s]
<1>1. req'[s] = IF faults' = faults /\ a \in wrote(s) THEN [req[s] EXCEPT !.stale = TRUE] ELSE req[s]
  BY DEF Set, Ok
<1>2. RequestOK(req[s])
  BY WroteFacts
<1>3. CASE faults' = faults /\ a \in wrote(s)
  <2>1. a \notin Mission
    BY AttrNames, RecordsAssumption
  <2>2. req[s].pc \in Working
    <3>1. req[s].pc \in Updated \cup {"compare", "announce", "remove", "expire", "log", "put", "delete", "idle"}
      BY <1>2, RequestFacts
    <3> QED BY SMT, <1>3, <2>1, <3>1, WroteFacts DEF Working
  <2>3. /\ RequestOK(req'[s]) /\ req'[s].pc = req[s].pc /\ req'[s].wrote = req[s].wrote /\ req'[s].stale
        /\ req[s].pc # "announce" => req'[s].want = req[s].want /\ req'[s].snap = req[s].snap
        /\ req[s].pc = "announce" => req'[s].attr = req[s].attr /\ req'[s].value = req[s].value
    <3>1. req'[s] = [req[s] EXCEPT !.stale = TRUE]
      BY <1>1, <1>3
    <3> QED BY SMT, <1>2, <2>2, <3>1, StaleFacts DEF Working
  <2> QED BY <1>3, <2>2, <2>3 DEF Alike, wrote
<1>4. CASE ~(faults' = faults /\ a \in wrote(s))
  BY <1>1, <1>2, <1>4 DEF Alike, wrote
<1> QED BY <1>3, <1>4

LEMMA SetKept ==
  ASSUME RecInv, NEW r \in Slot, NEW a \in Attr, NEW v \in Values[a], NEW q,
         Set(r, a, v, q), GoesOn(r, a, v, q)
  PROVE  RecInv'
<1>0. Types
  BY DEF RecInv
<1>1. /\ mem' \in Store /\ stored' \in Store /\ mem'.logs = mem.logs /\ stored'.logs = stored.logs
      /\ \/ /\ faults' = faults
            /\ mem'.attr[a] = v /\ \A b \in Attr : b # a => mem'.attr[b] = mem.attr[b]
         \/ faults' = faults + 1 /\ faults < mode.maxFaults /\ mem' = mem
  <2>1. Record(AttrSet(mem, a, v), AttrSet(stored, a, v))
    BY DEF Set
  <2> QED BY <1>0, <2>1, RecordAttr
<1>2. /\ DOMAIN req' = Slot /\ req'[r] = IF faults' = faults THEN q ELSE Idle
      /\ quiet' = IF faults' = faults THEN quiet ELSE quiet \cup wrote(r)
      /\ mode' = mode /\ seen' = seen /\ deleted' = deleted /\ revived' = revived
  BY DEF Set, Ok
<1>3. \A s \in Slot : s # r =>
        /\ Alike(s)
        /\ faults' = faults /\ a \in wrote(s) => req'[s].stale
        /\ faults' # faults \/ a \notin wrote(s) => req'[s] = req[s]
  BY <1>0, OthersAlike
<1>4. RequestOK(req'[r])
  BY <1>2, IdleOK DEF GoesOn
<1>5. quiet \subseteq quiet' /\ quiet' \subseteq Attr \cup Mission
  <2>1. wrote(r) \subseteq Attr
    BY <1>0, WroteFacts DEF GoesOn
  <2> QED BY <1>0, <1>2, <2>1 DEF Types
<1>6. Types'
  <2>1. \A s \in Slot : RequestOK(req'[s])
    BY <1>3, <1>4 DEF Alike
  <2> QED BY <1>0, <1>1, <1>2, <1>5, <2>1, TypesKept
<1>7. LogSeen'
  <2>1. \A s \in Slot : req[s].pc = "log" => req'[s] = req[s]
    BY <1>3 DEF Alike, GoesOn, Working, Updated
  <2> QED BY <1>0, <1>1, <1>2, <1>5, <2>1, LogKept DEF RecInv
<1>8. PutInv' /\ DeletedLogsStay'
  <2>1. PutOK(req'[r], deleted, revived)
    BY <1>2, IdleOK DEF GoesOn, PutOK, Working, Updated
  <2>2. \A s \in Slot : req'[s] = req[s] \/ PutOK(req'[s], deleted, revived)
    BY <1>3, <2>1 DEF Alike, PutOK, Working, Updated
  <2> QED BY <1>1, <1>2, <2>2, PutsKept DEF RecInv
<1>9. CASE faults' = faults
  <2>0. /\ mem'.attr[a] = v /\ \A b \in Attr : b # a => mem'.attr[b] = mem.attr[b]
        /\ req'[r] = q /\ quiet' = quiet
    BY SMT, <1>0, <1>1, <1>2, <1>9 DEF Types
  <2>1. Owns(r, a)'
    BY <2>0 DEF Owns, wrote, GoesOn, Working, Updated
  <2>2. ASSUME NEW b \in Attr, b # a, NEW s \in Slot, Owns(s, b)
        PROVE  Owns(s, b)'
    <3>1. mem'.attr[b] = mem.attr[b]
      BY <2>0, <2>2
    <3>2. CASE s = r
      <4>1. /\ b \in wrote(r) /\ q.pc # "announce" /\ q.pc # "idle" /\ wrote(r) \subseteq q.wrote
            /\ q.want = req[r].want /\ q.snap = req[r].snap /\ req[r].pc # "announce"
        BY <2>2, <3>2 DEF Owns, GoesOn, Working, Updated
      <4> QED BY <2>0, <2>2, <3>1, <3>2, <4>1 DEF Owns, wrote
    <3>3. CASE s # r
      <4>1. Alike(s) /\ req[s].pc \in Working
        <5>1. b \in wrote(s) /\ b \notin Mission
          BY <2>2, AttrNames, RecordsAssumption DEF Owns
        <5>2. req[s].pc \in Updated \cup {"compare", "announce", "remove", "expire", "log", "put", "delete", "idle"}
          BY <1>0, RequestFacts, WroteFacts
        <5> QED BY SMT, <1>0, <1>3, <3>3, <5>1, <5>2, WroteFacts DEF Working
      <4> QED BY <2>2, <3>1, <4>1 DEF Owns, Alike
    <3> QED BY <3>2, <3>3
  <2>3. AttrInv'
    BY <1>2, <2>0, <2>1, <2>2 DEF AttrInv, RecInv
  <2>4. ASSUME NEW s \in Slot, req'[s].pc = "announce", ~req'[s].stale
        PROVE  mem'.attr[req'[s].attr] = req'[s].value
    <3>1. CASE s = r
      BY <2>0, <2>4, <3>1 DEF GoesOn
    <3>2. CASE s # r
      <4>1. a \notin wrote(s) /\ req'[s] = req[s]
        BY <1>3, <1>9, <2>4, <3>2
      <4>2. wrote(s) = {req[s].attr} /\ req[s].attr \in Attr
        BY <1>0, <2>4, <4>1, WroteFacts DEF Working
      <4> QED BY SMT, <2>0, <2>4, <4>1, <4>2 DEF RecInv, AnnounceInv
    <3> QED BY <3>1, <3>2
  <2> QED BY <1>6, <1>7, <1>8, <2>3, <2>4 DEF RecInv, AnnounceInv
<1>10. CASE faults' # faults
  <2>0. mem' = mem /\ req'[r] = Idle /\ quiet' = quiet \cup wrote(r) /\ \A s \in Slot : s # r => req'[s] = req[s]
    BY <1>1, <1>2, <1>3, <1>10
  <2>1. \A b \in Attr : Owns(r, b) => b \in quiet'
    BY <2>0 DEF Owns
  <2>2. AttrInv' /\ AnnounceInv'
    BY <1>2, <1>5, <2>0, <2>1, IdleOK, AttrKept DEF RecInv
  <2> QED BY <1>6, <1>7, <1>8, <2>2 DEF RecInv
<1> QED BY <1>9, <1>10

LEMMA UpdateStepKept ==
  ASSUME RecInv, NEW r \in Slot, NEW a \in Updated, UpdateStep(r, a)
  PROVE  RecInv'
<1> DEFINE q == req[r]
           next == [q EXCEPT !.pc = After(a)]
           done == [next EXCEPT !.wrote = @ \cup {a}]
<1>0. Types /\ q.pc = a /\ RequestOK(q) /\ a \in Attr
  BY WroteFacts, AttrNames DEF RecInv, UpdateStep, Updated
<1>1. q \in Update /\ wrote(r) = q.wrote
  BY <1>0, WroteFacts, RequestFacts DEF Updated
<1>2. After(a) \in (Updated \ {"fields"}) \cup {"compare"}
  BY DEF After, Updated
<1>3. /\ next \in Update /\ next.pc = After(a) /\ next.wrote = q.wrote /\ next.want = q.want
      /\ next.snap = q.snap
  BY <1>1, <1>2 DEF Update
<1>4. \/ req' = [req EXCEPT ![r] = next] /\ UNCHANGED <<mode, mem, stored, seen, faults, quiet, deleted, revived>>
      \/ q.want[a] # q.snap[a] /\ Set(r, a, q.want[a], done)
      \/ /\ req' = [req EXCEPT ![r] = Idle] /\ quiet' = quiet \cup wrote(r)
         /\ UNCHANGED <<mode, mem, stored, seen, faults, deleted, revived>>
  BY DEF UpdateStep
<1> HIDE DEF next
<1>5. /\ done \in Update /\ done.pc = After(a) /\ done.wrote = q.wrote \cup {a} /\ done.want = q.want
      /\ done.snap = q.snap
  BY <1>3 DEF Update
<1> HIDE DEF done
<1>6. q.want[a] \in Values[a]
  BY <1>1 DEF Update, Wanted, Updated
<1>7. q.pc # "log" /\ q.pc # "announce"
  BY <1>0 DEF Updated
<1>8. CASE req' = [req EXCEPT ![r] = next] /\ UNCHANGED <<mode, mem, stored, seen, faults, quiet, deleted, revived>>
  <2>1. Moves(r, next) /\ quiet' = quiet /\ RequestOK(next)
    BY <1>3, <1>8 DEF Moves, RequestOK
  <2>2. next.pc # "announce" /\ PutOK(next, deleted, revived) /\ next.pc # "idle"
    BY <1>2, <1>3 DEF PutOK, Updated
  <2>3. quiet \subseteq quiet' /\ quiet' \subseteq Attr \cup Mission
    BY <1>0, <2>1 DEF Types
  <2>4. \A b \in Attr : Owns(r, b) => b \in next.wrote
    BY <1>1, <1>3 DEF Owns
  <2> QED BY <1>3, <1>7, <2>1, <2>2, <2>3, <2>4, MovesKept
<1>9. CASE q.want[a] # q.snap[a] /\ Set(r, a, q.want[a], done)
  <2>1. RequestOK(done) /\ done.pc \in Working /\ done.pc # "announce"
    BY <1>2, <1>5 DEF RequestOK, Working, Updated
  <2>2. GoesOn(r, a, q.want[a], done)
    BY <1>1, <1>5, <1>7, <1>9, <2>1 DEF GoesOn
  <2> QED BY <1>0, <1>6, <1>9, <2>2, SetKept
<1>10. CASE /\ req' = [req EXCEPT ![r] = Idle] /\ quiet' = quiet \cup wrote(r)
            /\ UNCHANGED <<mode, mem, stored, seen, faults, deleted, revived>>
  <2>1. Moves(r, Idle) /\ \A b \in Attr : Owns(r, b) => b \in quiet'
    BY <1>10 DEF Moves, Owns
  <2> QED BY <1>7, <1>10, <2>1, StopsKept
<1> QED BY <1>4, <1>8, <1>9, <1>10

\* Announcements of a new value.
LEMMA AnnouncesKept ==
  ASSUME RecInv, NEW r \in Slot, NEW a \in {"password", "keywords", "marks"}, NEW v \in Values[a],
         req[r].pc \in {"idle", "remove"}, Set(r, a, v, Announces(r, a, v))
  PROVE  RecInv'
<1> DEFINE q == Announces(r, a, v)
<1>1. wrote(r) = {} /\ a \in Attr
  BY WroteFacts, AttrNames DEF RecInv
<1>2. /\ q.pc = "announce" /\ q.attr = a /\ q.value = v /\ q.wrote = {a}
      /\ \/ a = "password" /\ q \in Single("password", {0, 1})
         \/ a = "keywords" /\ q \in Single("keywords", SUBSET Keyword)
         \/ a = "marks" /\ q \in Single("marks", SUBSET Keyword)
  BY SMT DEF Announces, Single, Values
<1> HIDE DEF q
<1>3. RequestOK(q)
  BY <1>2 DEF RequestOK
<1>4. GoesOn(r, a, v, q)
  BY <1>1, <1>2, <1>3 DEF GoesOn, Working
<1>5. Set(r, a, v, q)
  BY DEF q
<1> QED BY <1>1, <1>4, <1>5, SetKept

LEMMA SetSteps ==
  ASSUME RecInv, NEW r \in Slot,
         SetPassword(r) \/ SetKeywords(r) \/ SetContentKeywords(r) \/ StoreRemoved(r)
  PROVE  RecInv'
<1>1. CASE StoreRemoved(r)
  <2>1. req[r].pc = "remove" /\ Set(r, "keywords", req[r].value, Announces(r, "keywords", req[r].value))
    BY <1>1 DEF StoreRemoved
  <2>2. req[r].value \in SUBSET Keyword
    BY <2>1, WroteFacts, RequestFacts DEF RecInv, Removes
  <2>3. req[r].value \in Values["keywords"]
    BY <2>2 DEF Values
  <2> QED BY <2>1, <2>3, AnnouncesKept
<1>2. CASE SetPassword(r) \/ SetKeywords(r) \/ SetContentKeywords(r)
  <2>1. PICK a \in {"password", "keywords", "marks"} :
          req[r] = Idle /\ \E v \in Values[a] : Set(r, a, v, Announces(r, a, v))
    BY <1>2 DEF SetPassword, SetKeywords, SetContentKeywords
  <2>2. req[r].pc = "idle"
    BY <2>1, IdleOK
  <2> QED BY <2>1, <2>2, AnnouncesKept
<1> QED BY <1>1, <1>2

-----------------------------------------------------------------------------
(***************************************************************************)
(* The announcements.                                                       *)
(***************************************************************************)
SeenTypes(x) ==
  /\ x.attr \in Attributes /\ x.logs \in [Mission -> SUBSET [id: Entry, text: {0, 1}]]
  /\ DOMAIN x = {"attr", "logs"}

LEMMA SeenAttr ==
  ASSUME Types, NEW v \in Attributes
  PROVE  /\ SeenTypes([seen EXCEPT !.attr = v])
         /\ [seen EXCEPT !.attr = v].attr = v /\ [seen EXCEPT !.attr = v].logs = seen.logs
BY DEF Types, SeenTypes

\* A request ends with an announcement to the mission's subscribers.
LEMMA TellsKept ==
  ASSUME RecInv, NEW r \in Slot, req' = [req EXCEPT ![r] = Idle], req[r].pc # "log",
         NEW v \in Attributes, seen' = [seen EXCEPT !.attr = v],
         quiet' \subseteq Attr \cup Mission, \A m \in Mission : m \in quiet => m \in quiet',
         \A a \in Attr \ quiet' : \/ v[a] = mem.attr[a]
                                  \/ a \notin quiet /\ v[a] = seen.attr[a] /\ ~Owns(r, a),
         UNCHANGED <<mode, mem, stored, faults, deleted, revived>>
  PROVE  RecInv'
<1>0. Types
  BY DEF RecInv
<1>1. req'[r] = Idle /\ DOMAIN req' = Slot /\ \A s \in Slot : s # r => req'[s] = req[s]
  BY <1>0 DEF Types
<1>2. SeenTypes(seen') /\ seen'.attr = v /\ seen'.logs = seen.logs
  BY <1>0, SeenAttr
<1>3. Types'
  <2>1. \A s \in Slot : RequestOK(req'[s])
    BY <1>0, <1>1, IdleOK DEF Types
  <2> QED BY <1>0, <1>1, <1>2, <2>1 DEF Types, SeenTypes
<1>4. AttrInv'
  <2> SUFFICES ASSUME NEW a \in Attr, a \notin quiet', v[a] # mem.attr[a]
               PROVE  \E s \in Slot : Owns(s, a)'
    BY <1>2 DEF AttrInv
  <2>1. a \notin quiet /\ v[a] = seen.attr[a] /\ ~Owns(r, a)
    OBVIOUS
  <2>2. PICK s \in Slot : Owns(s, a)
    BY <2>1 DEF RecInv, AttrInv
  <2>3. Owns(s, a)'
    BY <1>1, <2>1, <2>2 DEF Owns, wrote
  <2> QED BY <2>3
<1>5. AnnounceInv'
  BY <1>1, IdleOK DEF RecInv, AnnounceInv
<1>6. LogSeen'
  BY <1>0, <1>1, <1>2, LogKept DEF RecInv
<1>7. PutInv' /\ DeletedLogsStay'
  BY <1>1, IdleOK, PutsKept DEF RecInv
<1> QED BY <1>3, <1>4, <1>5, <1>6, <1>7 DEF RecInv

LEMMA BroadcastKept ==
  ASSUME RecInv, NEW r \in Slot, Broadcast(r), req[r].pc # "log"
  PROVE  RecInv'
<1>1. mem.attr \in Attributes /\ quiet \subseteq Attr \cup Mission
  BY DEF RecInv, Types, Store
<1>2. /\ seen' = [seen EXCEPT !.attr = mem.attr] /\ quiet' = quiet \ Attr
      /\ req' = [req EXCEPT ![r] = Idle] /\ UNCHANGED <<mode, mem, stored, faults, deleted, revived>>
  BY DEF Broadcast
<1>3. quiet' \subseteq Attr \cup Mission /\ \A m \in Mission : m \in quiet => m \in quiet'
  BY <1>1, <1>2, AttrNames, RecordsAssumption
<1> QED BY <1>1, <1>2, <1>3, TellsKept

LEMMA UpdateEndsKept ==
  ASSUME RecInv, NEW r \in Slot, UpdateEnds(r)
  PROVE  RecInv'
<1>1. req[r].pc = "compare" /\ wrote(r) \subseteq Updated
  BY WroteFacts DEF RecInv, UpdateEnds
<1>2. \/ Broadcast(r)
      \/ Moves(r, Idle) /\ quiet' = quiet /\ \A a \in Updated : mem.attr[a] = req[r].snap[a]
  BY DEF UpdateEnds, Moves, Updated
<1>3. CASE Broadcast(r)
  BY <1>1, <1>3, BroadcastKept
<1>4. CASE Moves(r, Idle) /\ quiet' = quiet /\ \A a \in Updated : mem.attr[a] = req[r].snap[a]
  <2>1. \A a \in Attr : ~Owns(r, a)
    BY <1>1, <1>4 DEF Owns
  <2> QED BY <1>1, <1>4, <2>1, StopsKept
<1> QED BY <1>2, <1>3, <1>4

LEMMA AnnounceKept ==
  ASSUME RecInv, NEW r \in Slot, Announce(r)
  PROVE  RecInv'
<1>0. Types /\ req[r].pc = "announce"
  BY DEF RecInv, Announce
<1>1. CASE req[r].attr # "marks"
  BY <1>0, <1>1, BroadcastKept DEF Announce
<1>2. CASE req[r].attr = "marks"
  <2> DEFINE v == [seen.attr EXCEPT !["marks"] = req[r].value]
  <2>1. req[r].value \in SUBSET Keyword /\ wrote(r) = {"marks"}
    BY SMT, <1>0, <1>2, WroteFacts, RequestFacts DEF Values
  <2>2. /\ seen' = [seen EXCEPT !.attr = v]
        /\ quiet' = IF req[r].stale THEN quiet \cup {"marks"} ELSE quiet \ {"marks"}
        /\ req' = [req EXCEPT ![r] = Idle] /\ UNCHANGED <<mode, mem, stored, faults, deleted, revived>>
    BY <1>2 DEF Announce
  <2>3. seen.attr \in Attributes
    BY <1>0 DEF Types
  <2>4. /\ v \in Attributes /\ v["marks"] = req[r].value
        /\ \A a \in Attr : a # "marks" => v[a] = seen.attr[a]
    BY <2>1, <2>3, AttrNames DEF Attributes, Values
  <2> HIDE DEF v
  <2>5. "marks" \in Attr /\ "marks" \notin Mission /\ quiet \subseteq Attr \cup Mission
    BY <1>0, AttrNames, RecordsAssumption DEF Types
  <2>6. quiet' \subseteq Attr \cup Mission /\ \A m \in Mission : m \in quiet => m \in quiet'
    BY <2>2, <2>5
  <2>7. ASSUME NEW a \in Attr \ quiet'
        PROVE  \/ v[a] = mem.attr[a]
               \/ a \notin quiet /\ v[a] = seen.attr[a] /\ ~Owns(r, a)
    <3>1. CASE a = "marks"
      BY <1>0, <1>2, <2>2, <2>4, <2>7, <3>1 DEF RecInv, AnnounceInv
    <3>2. CASE a # "marks"
      BY <2>1, <2>2, <2>4, <2>7, <3>2 DEF Owns
    <3> QED BY <3>1, <3>2
  <2>8. \A a \in Attr \ quiet' : \/ v[a] = mem.attr[a]
                                 \/ a \notin quiet /\ v[a] = seen.attr[a] /\ ~Owns(r, a)
    BY <2>7
  <2>9. v \in Attributes /\ req[r].pc # "log"
    BY <1>0, <2>4
  <2> QED BY <2>2, <2>6, <2>8, <2>9, TellsKept
<1> QED BY <1>1, <1>2

LEMMA StoreExpirationKept ==
  ASSUME RecInv, NEW r \in Slot, StoreExpiration(r)
  PROVE  RecInv'
<1>0. Types /\ req[r].pc = "expire"
  BY DEF RecInv, StoreExpiration
<1>1. req[r].value \in Values["fields"] /\ wrote(r) = {} /\ "fields" \in Attr
  BY <1>0, WroteFacts, RequestFacts, AttrNames DEF Expires
<1>2. /\ mem' \in Store /\ stored' \in Store /\ mem'.logs = mem.logs /\ stored'.logs = stored.logs
      /\ faults' = faults \/ (faults' = faults + 1 /\ faults < mode.maxFaults)
      /\ mem' = mem \/ \A b \in Attr : b # "fields" => mem'.attr[b] = mem.attr[b]
  <2>1. Record(AttrSet(mem, "fields", req[r].value), AttrSet(stored, "fields", req[r].value))
    BY DEF StoreExpiration
  <2> QED BY <1>0, <1>1, <2>1, RecordAttr
<1>3. /\ quiet' = IF mem' # mem THEN quiet \cup {"fields"} ELSE quiet
      /\ req'[r] = Idle /\ DOMAIN req' = Slot /\ \A s \in Slot : s # r => req'[s] = req[s]
      /\ mode' = mode /\ seen' = seen /\ deleted' = deleted /\ revived' = revived
  BY <1>0 DEF StoreExpiration, Types
<1>4. quiet \subseteq quiet' /\ quiet' \subseteq Attr \cup Mission
  BY <1>0, <1>1, <1>3 DEF Types
<1>5. Types'
  <2>1. \A s \in Slot : RequestOK(req'[s])
    BY <1>0, <1>3, IdleOK DEF Types
  <2> QED BY <1>0, <1>2, <1>3, <1>4, <2>1, TypesKept
<1>6. LogSeen'
  BY <1>0, <1>2, <1>3, <1>4, LogKept DEF RecInv
<1>7. PutInv' /\ DeletedLogsStay'
  BY <1>2, <1>3, IdleOK, PutsKept DEF RecInv
<1>8. AttrInv'
  <2> SUFFICES ASSUME NEW a \in Attr, a \notin quiet', seen.attr[a] # mem'.attr[a]
               PROVE  \E s \in Slot : Owns(s, a)'
    BY <1>3 DEF AttrInv
  <2>1. mem'.attr[a] = mem.attr[a] /\ a \notin quiet
    BY <1>2, <1>3, <1>4
  <2>2. PICK s \in Slot : Owns(s, a)
    BY <2>1 DEF RecInv, AttrInv
  <2>3. req'[s] = req[s]
    BY <1>1, <1>3, <2>2 DEF Owns
  <2> QED BY <2>1, <2>2, <2>3 DEF Owns, wrote
<1>9. ASSUME NEW s \in Slot, req'[s].pc = "announce", ~req'[s].stale
      PROVE  mem'.attr[req'[s].attr] = req'[s].value
  <2>1. req'[s] = req[s]
    BY <1>3, <1>9, IdleOK
  <2>2. req[s].attr \in {"password", "keywords", "marks"}
    BY <1>0, <1>9, <2>1, WroteFacts, RequestFacts
  <2>3. mem'.attr[req[s].attr] = mem.attr[req[s].attr]
    BY <1>2, <2>2, AttrNames
  <2> QED BY <1>9, <2>1, <2>3 DEF RecInv, AnnounceInv
<1> QED BY <1>5, <1>6, <1>7, <1>8, <1>9 DEF RecInv, AnnounceInv


-----------------------------------------------------------------------------
(***************************************************************************)
(* The log entries.                                                         *)
(***************************************************************************)
LEMMA LogOfTypes ==
  ASSUME NEW s \in Store, NEW m
  PROVE  LogOf(s, m) \in SUBSET [id: Entry, text: {0, 1}]
BY SMT DEF LogOf, Store, LogEntry, Absent

LEMMA AnnounceLogKept ==
  ASSUME RecInv, NEW r \in Slot, AnnounceLog(r)
  PROVE  RecInv'
<1> DEFINE m == req[r].mission
<1>0. Types /\ req[r].pc = "log"
  BY DEF RecInv, AnnounceLog
<1>1. m \in Mission /\ wrote(r) = {m} /\ m \notin Attr
  BY <1>0, WroteFacts, AttrNames, RecordsAssumption
<1>2. /\ seen' = [seen EXCEPT !.logs[m] = LogOf(mem, m)] /\ quiet' = quiet \ {m}
      /\ mode' = mode /\ mem' = mem /\ stored' = stored /\ faults' = faults
      /\ deleted' = deleted /\ revived' = revived
  BY DEF AnnounceLog
<1>3. req'[r] = Idle /\ DOMAIN req' = Slot /\ \A s \in Slot : s # r => req'[s] = req[s]
  BY <1>0 DEF AnnounceLog, Types
<1>4. LogOf(mem, m) \in SUBSET [id: Entry, text: {0, 1}]
  BY <1>0, LogOfTypes DEF Types
<1> HIDE DEF m
<1>5. /\ SeenTypes(seen') /\ seen'.attr = seen.attr /\ seen'.logs[m] = LogOf(mem, m)
      /\ \A x \in Mission : x # m => seen'.logs[x] = seen.logs[x]
  BY <1>0, <1>1, <1>2, <1>4 DEF Types, SeenTypes
<1>6. Types'
  <2>1. \A s \in Slot : RequestOK(req'[s])
    BY <1>0, <1>3, IdleOK DEF Types
  <2> QED BY <1>0, <1>2, <1>3, <1>5, <2>1 DEF Types, SeenTypes
<1>7. AttrInv' /\ AnnounceInv'
  <2>1. \A a \in Attr : ~Owns(r, a)
    BY <1>1 DEF Owns
  <2>2. \A a \in Attr : a \in quiet => a \in quiet'
    BY <1>1, <1>2
  <2> QED BY <1>2, <1>3, <1>5, <2>1, <2>2, IdleOK, AttrKept DEF RecInv
<1>8. LogSeen'
  <2>1. \A x \in Mission : x # m /\ Pending(x) => Pending(x)'
    BY <1>1, <1>3 DEF Pending, wrote
  <2>2. \A x \in Mission : LogOf(mem, x)' = LogOf(mem, x)
    BY <1>2 DEF LogOf
  <2>3. \A x \in Mission \ quiet' : x # m => x \notin quiet
    BY <1>2
  <2> QED BY <1>5, <2>1, <2>2, <2>3 DEF RecInv, LogSeen
<1>9. PutInv' /\ DeletedLogsStay'
  BY <1>2, <1>3, IdleOK, PutsKept DEF RecInv
<1> QED BY <1>6, <1>7, <1>8, <1>9 DEF RecInv

\* An entry gets a value, or fails to, in memory and in the file.
Entered(id, e) ==
  /\ mem' \in Store /\ stored' \in Store /\ mem'.attr = mem.attr
  /\ \/ faults' = faults /\ mem'.logs[id] = e /\ stored'.logs[id] = e
     \/ /\ faults' = faults + 1 /\ faults < mode.maxFaults
        /\ mem' = mem /\ stored'.logs[id] \in {stored.logs[id], e}
  /\ \A x \in Entry : x # id => mem'.logs[x] = mem.logs[x] /\ stored'.logs[x] = stored.logs[x]

LEMMA RecordEntry ==
  ASSUME Types, NEW id \in Entry, NEW e \in LogEntry \cup {Absent},
         \/ Record(LogEntrySaved(mem, id, e), LogEntrySaved(stored, id, e))
         \/ e = Absent /\ Record(LogEntryDeleted(mem, id), LogEntryDeleted(stored, id))
  PROVE  Entered(id, e)
<1>0. mem \in Store /\ stored \in Store
  BY DEF Types
<1> DEFINE t == [mem EXCEPT !.logs[id] = e]
           u == [stored EXCEPT !.logs[id] = e]
<1>1. \/ mem' = t /\ stored' = u /\ faults' = faults
      \/ faults' = faults + 1 /\ faults < mode.maxFaults /\ mem' = mem /\ stored' \in {stored, u}
  BY DEF Record, Fault, LogEntrySaved, LogEntryDeleted
<1>2. /\ t \in Store /\ t.attr = mem.attr
      /\ t.logs[id] = e /\ \A x \in Entry : x # id => t.logs[x] = mem.logs[x]
  BY <1>0 DEF Store
<1>3. /\ u \in Store
      /\ u.logs[id] = e /\ \A x \in Entry : x # id => u.logs[x] = stored.logs[x]
  BY <1>0 DEF Store
<1> HIDE DEF t, u
<1> QED BY <1>0, <1>1, <1>2, <1>3 DEF Entered

\* The request goes on to announce to the mission m, and the mission that the
\* entry named before, if it is another, is quiet from then on.
LEMMA EnteredLogs ==
  ASSUME RecInv, NEW r \in Slot, NEW id \in Entry, NEW e \in LogEntry \cup {Absent}, NEW m \in Mission,
         Entered(id, e), e # Absent => m = e.mission, seen' = seen, wrote(r) = {},
         \A s \in Slot : s # r => wrote(s)' = wrote(s),
         IF faults' = faults
         THEN /\ req'[r] = [pc |-> "log", mission |-> m, wrote |-> {m}]
              /\ quiet' = quiet \cup ({mem.logs[id].mission} \ {m, {}})
         ELSE req'[r] = Idle /\ quiet' = quiet
  PROVE  LogSeen' /\ quiet \subseteq quiet' /\ quiet' \subseteq Attr \cup Mission
<1>0. faults \in Nat /\ mem.logs[id] \in LogEntry \cup {Absent} /\ quiet \subseteq Attr \cup Mission
  BY DEF RecInv, Types, Store
<1>1. \A x \in Mission : Pending(x) => Pending(x)'
  BY DEF Pending
<1>2. CASE faults' = faults
  <2>1. /\ req'[r] = [pc |-> "log", mission |-> m, wrote |-> {m}]
        /\ quiet' = quiet \cup ({mem.logs[id].mission} \ {m, {}})
    BY <1>2
  <2>2. Pending(m)'
    BY SMT, <2>1 DEF Pending, wrote
  <2>3. ASSUME NEW x \in Mission, x \notin quiet', ~Pending(x)'
        PROVE  seen'.logs[x] = LogOf(mem, x)'
    <3>1. x # m /\ x # {} /\ x # mem.logs[id].mission /\ x \notin quiet
      BY <2>1, <2>2, <2>3, RecordsAssumption
    <3>2. e.mission # x
      BY SMT, <3>1 DEF Absent
    <3>3. mem'.logs[id] = e /\ \A y \in Entry : y # id => mem'.logs[y] = mem.logs[y]
      BY SMT, <1>0, <1>2 DEF Entered
    <3>4. {y \in Entry : mem'.logs[y].mission = x} = {y \in Entry : mem.logs[y].mission = x}
      BY <3>1, <3>2, <3>3
    <3>5. \A y \in {z \in Entry : mem.logs[z].mission = x} : mem'.logs[y] = mem.logs[y]
      BY <3>1, <3>3
    <3>6. LogOf(mem, x)' = LogOf(mem, x)
      BY <3>4, <3>5 DEF LogOf
    <3> QED BY <1>1, <2>3, <3>1, <3>6 DEF RecInv, LogSeen
  <2>4. quiet \subseteq quiet' /\ quiet' \subseteq Attr \cup Mission
    BY SMT, <1>0, <2>1 DEF LogEntry, Absent
  <2> QED BY <2>3, <2>4 DEF LogSeen
<1>3. CASE faults' # faults
  <2>1. mem' = mem /\ quiet' = quiet
    BY <1>3 DEF Entered
  <2>2. \A x \in Mission : LogOf(mem, x)' = LogOf(mem, x)
    BY <2>1 DEF LogOf
  <2> QED BY <1>0, <1>1, <2>1, <2>2 DEF RecInv, LogSeen
<1> QED BY <1>2, <1>3


LEMMA DeletedStay ==
  ASSUME RecInv, NEW id \in Entry, NEW e \in LogEntry \cup {Absent}, Entered(id, e),
         deleted' \subseteq Entry,
         \A x \in deleted' \ revived' : x # id => x \in deleted \ revived,
         id \in deleted' \ revived' => e = Absent /\ (id \in deleted \ revived \/ faults' = faults)
  PROVE  DeletedLogsStay'
<1>0. faults \in Nat
  BY DEF RecInv, Types
<1>1. ASSUME NEW x \in deleted' \ revived'
      PROVE  mem'.logs[x] = Absent /\ stored'.logs[x] = Absent
  <2>1. CASE x # id
    BY <1>1, <2>1 DEF RecInv, DeletedLogsStay, Entered
  <2>2. CASE x = id /\ faults' = faults
    BY SMT, <1>0, <1>1, <2>2 DEF Entered
  <2>3. CASE x = id /\ faults' # faults
    <3>1. mem.logs[id] = Absent /\ stored.logs[id] = Absent /\ e = Absent
      BY <1>1, <2>3 DEF RecInv, DeletedLogsStay
    <3> QED BY <2>3, <3>1 DEF Entered
  <2> QED BY <2>1, <2>2, <2>3
<1> QED BY <1>1 DEF DeletedLogsStay

LEMMA LogRequestOK ==
  ASSUME NEW m \in Mission, NEW q, q = [pc |-> "log", mission |-> m, wrote |-> {m}]
  PROVE  RequestOK(q) /\ q.pc = "log" /\ PutOK(q, deleted', revived')
<1>1. q \in Logs(m) /\ q.pc = "log"
  BY DEF Logs
<1> QED BY <1>1 DEF RequestOK, PutOK

LEMMA SaveKept ==
  ASSUME RecInv, NEW r \in Slot, NEW id \in Entry, NEW e \in LogEntry, SaveLogEntry(r, id, e),
         req[r].pc \in {"idle", "put"}, deleted' = deleted, revived \subseteq revived',
         revived' \subseteq deleted, id \notin deleted \ revived'
  PROVE  RecInv'
<1> DEFINE q == [pc |-> "log", mission |-> e.mission, wrote |-> {e.mission}]
<1>0. Types /\ wrote(r) = {} /\ e.mission \in Mission
  BY WroteFacts DEF RecInv, LogEntry
<1>1. Entered(id, e)
  BY <1>0, RecordEntry DEF SaveLogEntry
<1>2. /\ req'[r] = IF faults' = faults THEN q ELSE Idle
      /\ DOMAIN req' = Slot /\ \A s \in Slot : s # r => req'[s] = req[s]
      /\ quiet' = IF faults' = faults THEN quiet \cup ({mem.logs[id].mission} \ {e.mission, {}}) ELSE quiet
      /\ mode' = mode /\ seen' = seen
  BY <1>0 DEF SaveLogEntry, Ok, Types
<1>3. \A s \in Slot : s # r => wrote(s)' = wrote(s)
  BY <1>2 DEF wrote
<1>4. LogSeen' /\ quiet \subseteq quiet' /\ quiet' \subseteq Attr \cup Mission
  BY <1>0, <1>1, <1>2, <1>3, EnteredLogs
<1>5. RequestOK(q) /\ q.pc = "log" /\ PutOK(q, deleted', revived')
  BY <1>0, LogRequestOK
<1> HIDE DEF q
<1>6. /\ RequestOK(req'[r]) /\ req'[r].pc \in {"log", "idle"} /\ PutOK(req'[r], deleted', revived')
  BY <1>2, <1>5, IdleOK
<1>7. Types'
  <2>1. \A s \in Slot : RequestOK(req'[s])
    BY <1>0, <1>2, <1>6 DEF Types
  <2>2. faults' \in Nat /\ faults' <= mode.maxFaults
    BY SMT, <1>0, <1>1, RecordsAssumption DEF Types, Entered
  <2> QED BY <1>0, <1>1, <1>2, <1>4, <2>1, <2>2 DEF Types, Entered
<1>8. AttrInv' /\ AnnounceInv'
  <2>1. \A a \in Attr : ~Owns(r, a)
    BY <1>0 DEF Owns
  <2> QED BY <1>1, <1>2, <1>4, <1>6, <2>1, AttrKept DEF RecInv, Entered
<1>9. PutInv'
  <2>1. ASSUME NEW s \in Slot, s # r
        PROVE  PutOK(req'[s], deleted', revived')
    BY <1>2, <2>1 DEF RecInv, PutInv, PutOK
  <2> QED BY <1>6, <2>1 DEF PutInv
<1>10. DeletedLogsStay'
  BY <1>0, <1>1, DeletedStay DEF Types
<1> QED BY <1>4, <1>7, <1>8, <1>9, <1>10 DEF RecInv

LEMMA SaveSteps ==
  ASSUME RecInv, NEW r \in Slot, StorePut(r) \/ \E id \in Entry, e \in LogEntry : PostLogEntry(r, id, e)
  PROVE  RecInv'
<1>0. revived \subseteq deleted /\ Types
  BY DEF RecInv, Types
<1>1. CASE StorePut(r)
  <2>1. /\ req[r].pc = "put" /\ SaveLogEntry(r, req[r].id, req[r].entry)
        /\ revived' = IF req[r].late THEN revived \cup {req[r].id} ELSE revived
        /\ deleted' = deleted
    BY <1>1 DEF StorePut
  <2>2. req[r].id \in Entry /\ req[r].entry \in LogEntry
    BY <1>0, <2>1, WroteFacts, RequestFacts DEF Puts
  <2>3. PutOK(req[r], deleted, revived)
    BY DEF RecInv, PutInv
  <2>4. revived \subseteq revived' /\ revived' \subseteq deleted /\ req[r].id \notin deleted \ revived'
    BY <1>0, <2>1, <2>3 DEF PutOK
  <2> QED BY <2>1, <2>2, <2>4, SaveKept
<1>2. ASSUME NEW id \in Entry, NEW e \in LogEntry, PostLogEntry(r, id, e)
      PROVE  RecInv'
  <2>1. /\ req[r].pc = "idle" /\ id \notin deleted /\ SaveLogEntry(r, id, e)
        /\ deleted' = deleted /\ revived' = revived
    BY <1>2, IdleOK DEF PostLogEntry
  <2> QED BY <1>0, <2>1, SaveKept
<1> QED BY <1>1, <1>2

LEMMA StoreDeleteKept ==
  ASSUME RecInv, NEW r \in Slot, StoreDelete(r)
  PROVE  RecInv'
<1> DEFINE id == req[r].id
           m == req[r].mission
           q == [pc |-> "log", mission |-> m, wrote |-> {m}]
<1>0. Types /\ req[r].pc = "delete"
  BY DEF RecInv, StoreDelete
<1>1. wrote(r) = {} /\ m \in Mission /\ id \in Entry
  BY SMT, <1>0, WroteFacts, RequestFacts DEF Deletes
<1>2. Entered(id, Absent)
  <2>1. Record(LogEntryDeleted(mem, id), LogEntryDeleted(stored, id))
    BY DEF StoreDelete
  <2> QED BY <1>0, <1>1, <2>1, RecordEntry
<1>3. /\ req'[r] = IF faults' = faults THEN q ELSE Idle
      /\ DOMAIN req' = Slot
      /\ quiet' = IF faults' = faults THEN quiet \cup ({mem.logs[id].mission} \ {m, {}}) ELSE quiet
      /\ deleted' = IF faults' = faults THEN deleted \cup {id} ELSE deleted
      /\ revived' = IF faults' = faults THEN revived \ {id} ELSE revived
      /\ mode' = mode /\ seen' = seen
  BY DEF StoreDelete, Ok
<1>4. ASSUME NEW s \in Slot, s # r
      PROVE  IF req[s].pc = "put"
             THEN req'[s] = [req[s] EXCEPT !.late = @ \/ (faults' = faults /\ req[s].id = id)]
             ELSE req'[s] = req[s]
  BY <1>4 DEF StoreDelete, Ok
<1>5. RequestOK(q) /\ q.pc = "log" /\ PutOK(q, deleted', revived')
  BY <1>1, LogRequestOK
<1> HIDE DEF q, id, m
<1>6. RequestOK(req'[r]) /\ req'[r].pc \in {"log", "idle"} /\ PutOK(req'[r], deleted', revived')
  BY <1>3, <1>5, IdleOK
<1>7. ASSUME NEW s \in Slot, s # r, req[s].pc = "put"
      PROVE  /\ RequestOK(req'[s]) /\ req'[s].pc = "put" /\ req'[s].id = req[s].id
             /\ req'[s].late = (req[s].late \/ (faults' = faults /\ req[s].id = id))
             /\ wrote(s) = {} /\ wrote(s)' = {}
  <2>1. RequestOK(req[s]) /\ wrote(s) = {}
    BY <1>0, <1>7, WroteFacts
  <2>2. req[s] \in Puts
    BY <1>7, <2>1, RequestFacts
  <2> DEFINE b == req[s].late \/ (faults' = faults /\ req[s].id = id)
  <2>3. b \in BOOLEAN
    BY <2>2 DEF Puts
  <2>4. req'[s] = [req[s] EXCEPT !.late = b]
    BY <1>4, <1>7
  <2> HIDE DEF b
  <2>5. RequestOK(req'[s]) /\ req'[s].pc = "put" /\ req'[s].id = req[s].id /\ req'[s].late = b /\ req'[s].wrote = {}
    BY <2>2, <2>3, <2>4 DEF Puts, RequestOK
  <2> QED BY <2>1, <2>5 DEF b, wrote
<1>8. \A s \in Slot : s # r => wrote(s)' = wrote(s)
  BY <1>4, <1>7 DEF wrote
<1>9. LogSeen' /\ quiet \subseteq quiet' /\ quiet' \subseteq Attr \cup Mission
  BY <1>1, <1>2, <1>3, <1>8, EnteredLogs DEF q
<1>10. Types'
  <2>1. \A s \in Slot : RequestOK(req'[s])
    BY <1>0, <1>4, <1>6, <1>7 DEF Types
  <2>2. faults' \in Nat /\ faults' <= mode.maxFaults
    BY SMT, <1>0, <1>2, RecordsAssumption DEF Types, Entered
  <2>3. revived' \subseteq deleted' /\ deleted' \subseteq Entry
    BY <1>0, <1>1, <1>3 DEF Types
  <2> QED BY <1>0, <1>2, <1>3, <1>9, <2>1, <2>2, <2>3 DEF Types, Entered
<1>11. AttrInv' /\ AnnounceInv'
  <2>1. \A s \in Slot : s = r \/ req[s].pc = "put" => \A a \in Attr : ~Owns(s, a)
    BY <1>1, <1>7 DEF Owns
  <2>2. \A s \in Slot : req'[s] = req[s] \/ (req'[s].pc # "announce" /\ \A a \in Attr : ~Owns(s, a))
    BY <1>4, <1>6, <1>7, <2>1
  <2> QED BY <1>2, <1>3, <1>9, <2>2, AttrKept DEF RecInv, Entered
<1>12. PutInv'
  <2>1. ASSUME NEW s \in Slot, s # r
        PROVE  PutOK(req'[s], deleted', revived')
    <3>0. PutOK(req[s], deleted, revived)
      BY DEF RecInv, PutInv
    <3>1. CASE req[s].pc = "put"
      BY <1>3, <1>7, <2>1, <3>0, <3>1 DEF PutOK
    <3>2. CASE req[s].pc # "put"
      BY <1>4, <2>1, <3>2 DEF PutOK
    <3> QED BY <3>1, <3>2
  <2> QED BY <1>6, <2>1 DEF PutInv
<1>13. DeletedLogsStay'
  <2>1. deleted' \subseteq Entry
    BY <1>10 DEF Types
  <2> QED BY <1>1, <1>2, <1>3, <2>1, DeletedStay
<1> QED BY <1>9, <1>10, <1>11, <1>12, <1>13 DEF RecInv


-----------------------------------------------------------------------------
LEMMA ReplayedKept ==
  ASSUME RecInv, RecordsReplayed
  PROVE  RecInv'
<1>0. Types /\ stored \in Store
  BY DEF RecInv, Types
<1>1. /\ mem' = stored /\ stored' = stored /\ mode' = mode /\ quiet' = {} /\ deleted' = deleted /\ revived' = revived
      /\ seen' = [attr |-> stored.attr, logs |-> [m \in Mission |-> LogOf(stored, m)]]
      /\ DOMAIN req' = Slot /\ \A r \in Slot : req'[r] = Idle
  BY DEF RecordsReplayed
<1>2. \A m \in Mission : LogOf(stored, m) \in SUBSET [id: Entry, text: {0, 1}]
  BY <1>0, LogOfTypes
<1>3. /\ SeenTypes(seen') /\ seen'.attr = mem'.attr
      /\ \A m \in Mission : seen'.logs[m] = LogOf(stored, m)
  <2>1. [m \in Mission |-> LogOf(stored, m)] \in [Mission -> SUBSET [id: Entry, text: {0, 1}]]
    BY <1>2
  <2> QED BY <1>0, <1>1, <2>1 DEF SeenTypes, Store
<1>4. Types'
  <2>1. faults' \in Nat /\ faults' <= mode.maxFaults
    BY SMT, <1>0, RecordsAssumption DEF Types, RecordsReplayed, Fault
  <2>2. \A r \in Slot : RequestOK(req'[r])
    BY <1>1, IdleOK
  <2> QED BY <1>0, <1>1, <1>3, <2>1, <2>2 DEF Types, SeenTypes
<1>5. AttrInv'
  BY <1>3 DEF AttrInv
<1>6. AnnounceInv'
  BY <1>1, IdleOK DEF AnnounceInv
<1>7. LogSeen'
  <2>1. \A m \in Mission : LogOf(mem, m)' = LogOf(stored, m)
    BY <1>1 DEF LogOf
  <2> QED BY <1>3, <2>1 DEF LogSeen
<1>8. PutInv'
  BY <1>1, IdleOK DEF PutInv
<1>9. DeletedLogsStay'
  BY <1>1 DEF RecInv, DeletedLogsStay
<1> QED BY <1>4, <1>5, <1>6, <1>7, <1>8, <1>9 DEF RecInv

LEMMA RecInvInit == RecordsInit => RecInv
<1> SUFFICES ASSUME RecordsInit PROVE RecInv
  OBVIOUS
<1>1. /\ mem = [attr |-> NewMission, logs |-> [id \in Entry |-> Absent]] /\ stored = mem
      /\ seen = [attr |-> NewMission, logs |-> [m \in Mission |-> {}]]
      /\ mode \in Modes /\ faults = 0 /\ quiet = {} /\ deleted = {} /\ revived = {}
      /\ DOMAIN req = Slot /\ \A r \in Slot : req[r] = Idle
  BY DEF RecordsInit
<1>2. NewMission \in Attributes
  BY DEF NewMission, Attributes, Values
<1>3. mem \in Store /\ mem.attr = seen.attr /\ \A id \in Entry : mem.logs[id] = Absent
  BY <1>1, <1>2 DEF Store
<1>4. SeenTypes(seen) /\ \A m \in Mission : seen.logs[m] = {}
  <2>1. [m \in Mission |-> {}] \in [Mission -> SUBSET [id: Entry, text: {0, 1}]]
    OBVIOUS
  <2> QED BY <1>1, <1>2, <2>1 DEF SeenTypes
<1>5. Types
  <2>1. faults \in Nat /\ faults <= mode.maxFaults
    BY SMT, <1>1, RecordsAssumption
  <2>2. \A r \in Slot : RequestOK(req[r])
    BY <1>1, IdleOK
  <2> QED BY <1>1, <1>3, <1>4, <2>1, <2>2 DEF Types, SeenTypes
<1>6. AttrInv
  BY <1>3 DEF AttrInv
<1>7. AnnounceInv
  BY <1>1, IdleOK DEF AnnounceInv
<1>8. LogSeen
  <2>1. ASSUME NEW m \in Mission
        PROVE  LogOf(mem, m) = {}
    <3>0. Absent.mission # m
      BY RecordsAssumption DEF Absent
    <3>1. \A x \in Entry : mem.logs[x].mission # m
      BY <1>3, <3>0
    <3> QED BY <3>1 DEF LogOf
  <2> QED BY <1>4, <2>1 DEF LogSeen
<1>9. PutInv /\ DeletedLogsStay
  BY <1>1, IdleOK DEF PutInv, DeletedLogsStay
<1> QED BY <1>5, <1>6, <1>7, <1>8, <1>9 DEF RecInv

LEMMA RecInvNext == RecInv /\ [RecordsNext]_recordVars => RecInv'
<1> SUFFICES ASSUME RecInv, [RecordsNext]_recordVars PROVE RecInv'
  OBVIOUS
<1>1. ASSUME NEW r \in Slot, Step(r)
      PROVE  RecInv'
  <2>1. CASE \E a \in {"fields", "password", "role", "groups"} : UpdateStep(r, a)
    BY <2>1, UpdateStepKept DEF Updated
  <2> QED BY <1>1, <2>1, UpdateEndsKept, SetSteps, AnnounceKept, StoreExpirationKept, SaveSteps,
             StoreDeleteKept, AnnounceLogKept DEF Step
<1>2. ASSUME NEW r \in Slot, Request(r)
      PROVE  RecInv'
  <2>1. \/ UpdateExisting(r) \/ SetPassword(r) \/ SetKeywords(r) \/ SetContentKeywords(r)
        \/ RemoveKeyword(r) \/ SetExpiration(r)
        \/ \E id \in Entry : DeleteLogEntry(r, id) \/ \E e \in LogEntry : PutLogEntry(r, id, e)
        \/ \E id \in Entry, e \in LogEntry : PostLogEntry(r, id, e)
    BY <1>2 DEF Request
  <2> QED BY <2>1, UpdateExistingStep, SetSteps, BeginSteps, BeginLogSteps, SaveSteps
<1>3. CASE UNCHANGED recordVars
  <2>1. /\ mode' = mode /\ mem' = mem /\ stored' = stored /\ req' = req /\ seen' = seen /\ faults' = faults
        /\ quiet' = quiet /\ deleted' = deleted /\ revived' = revived
    BY <1>3 DEF recordVars
  <2>2. Types'
    BY <2>1 DEF RecInv, Types
  <2>3. AttrInv' /\ AnnounceInv'
    BY <2>1, AttrKept DEF RecInv
  <2>4. LogSeen'
    BY <2>1, LogKept DEF RecInv
  <2>5. PutInv' /\ DeletedLogsStay'
    BY <2>1, PutsKept DEF RecInv
  <2> QED BY <2>2, <2>3, <2>4, <2>5 DEF RecInv
<1> QED BY <1>1, <1>2, <1>3, ReplayedKept DEF RecordsNext

LEMMA RecInvSeen == RecInv => RecordsSeen
<1> SUFFICES ASSUME RecInv PROVE RecordsSeen
  OBVIOUS
<1>1. mem \in Store /\ stored \in Store /\ seen.attr \in Attributes
  BY DEF RecInv, Types
<1>2. faults \in 0 .. mode.maxFaults
  BY SMT, RecordsAssumption DEF RecInv, Types
<1>3. \A id \in Entry : {mem.logs[id], stored.logs[id]} \subseteq LogEntry \cup {Absent}
  BY <1>1 DEF Store
<1>4. RecordsTypes
  BY <1>1, <1>2, <1>3 DEF RecInv, Types, RecordsTypes, Store
<1>5. MissionSeen
  BY DEF RecInv, AttrInv, MissionSeen, Pending, Owns
<1> QED BY <1>4, <1>5 DEF RecInv, RecordsSeen

(***************************************************************************)
(* RecordsSeen for any missions, entries, keywords, requests and modes.     *)
(***************************************************************************)
THEOREM RecordsSeenAlways == RecordsSpec => []RecordsSeen
<1>1. RecInv /\ [RecordsNext]_recordVars => RecInv'
  BY RecInvNext
<1> QED BY <1>1, RecInvInit, RecInvSeen, PTL DEF RecordsSpec
=============================================================================
