--------------------------- MODULE MissionRecords ---------------------------
(***************************************************************************)
(* What a mission says of itself (its fields, password, default role,       *)
(* groups, keywords and those of its contents) and its log entries, in the  *)
(* store (src/missions.rs), the requests that change them                   *)
(* (src/marti/missions.rs), and what the subscribers learn.                 *)
(*                                                                          *)
(* A request looks the mission or the log entry up, then takes the store's  *)
(* lock for each change, then announces: one step each.  A subscriber       *)
(* fetches the mission, or its log, when it gets an announcement; only the  *)
(* keywords of contents (`marks`) come with theirs.  Attributes have a few  *)
(* values each, numbered; `fields` is the description and the expiration,   *)
(* that are stored together.  Permissions matter only where they end a      *)
(* request half-way: there it may be refused.                               *)
(***************************************************************************)
EXTENDS Integers

CONSTANTS
    Mission, Entry,  \* missions that log entries are of, and the entries' ids
    Keyword,         \* of the mission and of its contents
    Slot,            \* requests in progress
    Modes            \* bounds: what each behaviour is about, see mode

\* The names in `quiet` and in what a request has written: attributes and missions.
ASSUME RecordsAssumption ==
    /\ Mission \cap {"fields", "password", "role", "groups", "keywords", "marks"} = {}
    /\ {} \notin Mission
    /\ \A m \in Modes : m.maxFaults \in Nat

VARIABLES
    mode,    \* constant: what may be changed, and how many faults there may be
    mem,     \* MissionStore.state, one mission's attributes and all log entries
    stored,  \* what a replay of the event log would give
    req,     \* the requests in progress
    seen,    \* what a subscriber of each mission has fetched last
    faults,  \* how many faults there were
    quiet,   \* history: what has changed without an announcement
    deleted, \* history: log entries that were deleted
    revived  \* history: those that a request saved again that had looked before

recordVars == <<mode, mem, stored, req, seen, faults, quiet, deleted, revived>>

Never == -1   \* no expiration
Values == [
    fields   |-> [desc: {0, 1}, expiration: {Never, 1}],
    password |-> {0, 1},
    role     |-> {0, 1},
    groups   |-> {0, 1},
    keywords |-> SUBSET Keyword,
    marks    |-> SUBSET Keyword]
Attr == DOMAIN Values

Attributes == [fields: Values.fields, password: Values.password, role: Values.role,
               groups: Values.groups, keywords: Values.keywords, marks: Values.marks]

LogEntry == [text: {0, 1}, mission: Mission]
Absent == [text |-> 0, mission |-> {}]

Fault == faults < mode.maxFaults /\ faults' = faults + 1

\* record, for an event that makes s of memory and t of what is stored: the
\* line is in the file and in memory, or the append fails, with or without the
\* line in the file.
Record(s, t) ==
    \/ mem' = s /\ stored' = t /\ UNCHANGED faults
    \/ Fault /\ UNCHANGED mem /\ stored' \in {stored, t}

Ok == faults' = faults

\* apply, FieldsSet to ContentKeywordsSet: an attribute gets its value.
AttrSet(s, a, v) == [s EXCEPT !.attr[a] = v]

\* apply, LogEntrySaved and LogEntryDeleted.
LogEntrySaved(s, id, e) == [s EXCEPT !.logs[id] = e]
LogEntryDeleted(s, id) == [s EXCEPT !.logs[id] = Absent]

LogOf(s, m) == {[id |-> id, text |-> s.logs[id].text] : id \in {x \in Entry : s.logs[x].mission = m}}

-----------------------------------------------------------------------------
(***************************************************************************)
(* Requests.  `wrote` holds what the request has stored and not announced,  *)
(* `stale` is set if another request has stored the same marks since.       *)
(***************************************************************************)
Idle == [pc |-> "idle"]
wrote(r) == IF req[r].pc = "idle" THEN {} ELSE req[r].wrote

Begin(r, q) ==
    /\ req[r] = Idle
    /\ req' = [req EXCEPT ![r] = q]
    /\ UNCHANGED <<mode, mem, stored, seen, faults, quiet, deleted, revived>>

\* A change of the attribute a by request r, which goes on as q, or ends if the
\* append fails; what it has stored before is then not announced.
Set(r, a, v, q) ==
    /\ Record(AttrSet(mem, a, v), AttrSet(stored, a, v))
    /\ req' = [s \in Slot |->
          IF s = r THEN IF Ok THEN q ELSE Idle
          ELSE IF Ok /\ a \in wrote(s) THEN [req[s] EXCEPT !.stale = TRUE] ELSE req[s]]
    /\ quiet' = IF Ok THEN quiet ELSE quiet \cup wrote(r)
    /\ UNCHANGED <<mode, seen, deleted, revived>>

\* broadcast: subscribers fetch the mission.
Broadcast(r) ==
    /\ seen' = [seen EXCEPT !.attr = mem.attr]
    /\ quiet' = quiet \ Attr
    /\ req' = [req EXCEPT ![r] = Idle]
    /\ UNCHANGED <<mode, mem, stored, faults, deleted, revived>>

\* parse_create, and update_existing up to its first change: what the request
\* wants, of what it may change here.  Without an expiration it is Never.
\* Groups that the caller may not set end the request before it does anything.
UpdateExisting(r) ==
    LET Choice(a) == IF a \in mode.attrs THEN Values[a] ELSE {mem.attr[a]}
    IN  /\ mode.attrs \cap {"fields", "password", "role", "groups"} # {}
        /\ \E want \in [fields: Choice("fields"), password: Choice("password"),
                        role: Choice("role"), groups: Choice("groups")] :
              Begin(r, [pc |-> "fields", snap |-> mem.attr, want |-> want, wrote |-> {}, stale |-> FALSE])

\* The order in which update_existing makes its changes.
After(a) == CASE a = "fields" -> "password" [] a = "password" -> "role"
              [] a = "role" -> "groups" [] a = "groups" -> "compare"

\* One of its changes: made if the value is not the one it had looked up (a
\* password, if one is given).  A password or a role may be refused, which ends
\* the request with what it has changed so far; groups are left as they are
\* for a role that may not update them.
UpdateStep(r, a) ==
    LET q    == req[r]
        next == [q EXCEPT !.pc = After(a)]
    IN  /\ q.pc = a
        /\ \/ /\ q.want[a] = q.snap[a] \/ a = "groups"
              /\ req' = [req EXCEPT ![r] = next]
              /\ UNCHANGED <<mode, mem, stored, seen, faults, quiet, deleted, revived>>
           \/ /\ q.want[a] # q.snap[a]
              /\ Set(r, a, q.want[a], [next EXCEPT !.wrote = @ \cup {a}])
           \/ /\ q.want[a] # q.snap[a] /\ a \in {"password", "role"}
              /\ req' = [req EXCEPT ![r] = Idle]
              /\ quiet' = quiet \cup wrote(r)
              /\ UNCHANGED <<mode, mem, stored, seen, faults, deleted, revived>>

\* mutant: only the fields are compared
UpdateEnds_Fields(r) ==
    /\ req[r].pc = "compare"
    /\ \/ mem.attr["fields"] # req[r].snap["fields"] /\ Broadcast(r)
       \/ /\ mem.attr["fields"] = req[r].snap["fields"]
          /\ req' = [req EXCEPT ![r] = Idle]
          /\ UNCHANGED <<mode, mem, stored, seen, faults, quiet, deleted, revived>>

\* Whether these are as they were looked up decides on the announcement.
UpdateEnds(r) ==
    LET same == \A a \in {"fields", "password", "role", "groups"} : mem.attr[a] = req[r].snap[a]
    IN  /\ req[r].pc = "compare"
        /\ \/ ~same /\ Broadcast(r)
           \/ /\ same
              /\ req' = [req EXCEPT ![r] = Idle]
              /\ UNCHANGED <<mode, mem, stored, seen, faults, quiet, deleted, revived>>

Announces(r, a, v) == [pc |-> "announce", attr |-> a, value |-> v, wrote |-> {a}, stale |-> FALSE]

\* set_password_impl, with a password or without.
SetPassword(r) ==
    /\ "password" \in mode.attrs /\ req[r] = Idle
    /\ \E v \in Values["password"] : Set(r, "password", v, Announces(r, "password", v))

\* set_keywords and clear_keywords
SetKeywords(r) ==
    /\ "keywords" \in mode.attrs /\ req[r] = Idle
    /\ \E v \in Values["keywords"] : Set(r, "keywords", v, Announces(r, "keywords", v))

\* remove_keyword: the keywords are those that the mission had when it was
\* looked up.
RemoveKeyword(r) ==
    /\ "keywords" \in mode.attrs
    /\ \E k \in mem.attr["keywords"] :
          Begin(r, [pc |-> "remove", value |-> mem.attr["keywords"] \ {k}, wrote |-> {}])

StoreRemoved(r) ==
    /\ req[r].pc = "remove"
    /\ Set(r, "keywords", req[r].value, Announces(r, "keywords", req[r].value))

\* set_content_keywords_impl and clear_content_keywords_impl
SetContentKeywords(r) ==
    /\ "marks" \in mode.attrs /\ req[r] = Idle
    /\ \E v \in Values["marks"] : Set(r, "marks", v, Announces(r, "marks", v))

\* The announcement of one attribute; that of marks has the new ones in it.
Announce(r) ==
    /\ req[r].pc = "announce"
    /\ \/ req[r].attr # "marks" /\ Broadcast(r)
       \/ /\ req[r].attr = "marks"
          /\ seen' = [seen EXCEPT !.attr["marks"] = req[r].value]
          /\ quiet' = IF req[r].stale THEN quiet \cup {"marks"} ELSE quiet \ {"marks"}
          /\ req' = [req EXCEPT ![r] = Idle]
          /\ UNCHANGED <<mode, mem, stored, faults, deleted, revived>>

\* set_expiration_impl: the fields as they were looked up, with another
\* expiration, and no announcement.
SetExpiration(r) ==
    /\ "fields" \in mode.attrs
    /\ \E e \in {Never, 1} :
          Begin(r, [pc |-> "expire", value |-> [mem.attr["fields"] EXCEPT !.expiration = e], wrote |-> {}])

StoreExpiration(r) ==
    /\ req[r].pc = "expire"
    /\ Record(AttrSet(mem, "fields", req[r].value), AttrSet(stored, "fields", req[r].value))
    /\ quiet' = IF mem' # mem THEN quiet \cup {"fields"} ELSE quiet
    /\ req' = [req EXCEPT ![r] = Idle]
    /\ UNCHANGED <<mode, seen, deleted, revived>>

-----------------------------------------------------------------------------
(***************************************************************************)
(* Log entries.                                                             *)
(***************************************************************************)
\* announce_log, to the subscribers of the mission m: they fetch its log.
AnnounceLog(r) ==
    /\ req[r].pc = "log"
    /\ seen' = [seen EXCEPT !.logs[req[r].mission] = LogOf(mem, req[r].mission)]
    /\ quiet' = quiet \ {req[r].mission}
    /\ req' = [req EXCEPT ![r] = Idle]
    /\ UNCHANGED <<mode, mem, stored, faults, deleted, revived>>

\* save_log_entry, for the request in slot r, that then announces it to the
\* mission that the entry names now.
SaveLogEntry(r, id, e) ==
    /\ Record(LogEntrySaved(mem, id, e), LogEntrySaved(stored, id, e))
    /\ req' = [req EXCEPT ![r] = IF Ok THEN [pc |-> "log", mission |-> e.mission, wrote |-> {e.mission}] ELSE Idle]
    /\ quiet' = IF Ok THEN quiet \cup ({mem.logs[id].mission} \ {e.mission, {}}) ELSE quiet
    /\ UNCHANGED <<mode, seen>>

\* post_log_entry: with an id that is new.
PostLogEntry(r, id, e) ==
    /\ "logs" \in mode.attrs /\ req[r] = Idle
    /\ id \notin deleted /\ mem.logs[id] = Absent /\ stored.logs[id] = Absent
    /\ SaveLogEntry(r, id, e)
    /\ UNCHANGED <<deleted, revived>>

\* put_log_entry, up to the point where the entry is found ...
PutLogEntry(r, id, e) ==
    /\ "logs" \in mode.attrs /\ mem.logs[id] # Absent
    /\ Begin(r, [pc |-> "put", id |-> id, entry |-> e, late |-> FALSE, wrote |-> {}])

\* ... and saved.
StorePut(r) ==
    /\ req[r].pc = "put"
    /\ SaveLogEntry(r, req[r].id, req[r].entry)
    /\ revived' = IF req[r].late THEN revived \cup {req[r].id} ELSE revived
    /\ UNCHANGED deleted

\* delete_log_entry looks the entry up ...
DeleteLogEntry(r, id) ==
    /\ "logs" \in mode.attrs /\ mem.logs[id] # Absent
    /\ Begin(r, [pc |-> "delete", id |-> id, mission |-> mem.logs[id].mission, wrote |-> {}])

\* ... deletes whatever has its id by then, and announces what it had found.
StoreDelete(r) ==
    LET id == req[r].id
        m  == req[r].mission
    IN  /\ req[r].pc = "delete"
        /\ Record(LogEntryDeleted(mem, id), LogEntryDeleted(stored, id))
        /\ req' = [s \in Slot |->
              IF s = r THEN IF Ok THEN [pc |-> "log", mission |-> m, wrote |-> {m}] ELSE Idle
              ELSE IF req[s].pc = "put" THEN [req[s] EXCEPT !.late = @ \/ (Ok /\ req[s].id = id)]
              ELSE req[s]]
        /\ quiet' = IF Ok THEN quiet \cup ({mem.logs[id].mission} \ {m, {}}) ELSE quiet
        /\ deleted' = IF Ok THEN deleted \cup {id} ELSE deleted
        /\ revived' = IF Ok THEN revived \ {id} ELSE revived
        /\ UNCHANGED <<mode, seen>>

-----------------------------------------------------------------------------
\* A crash, and the replay at the next start; subscribers come back and fetch.
RecordsReplayed ==
    /\ Fault
    /\ mem' = stored /\ seen' = [attr |-> stored.attr, logs |-> [m \in Mission |-> LogOf(stored, m)]]
    /\ req' = [r \in Slot |-> Idle] /\ quiet' = {}
    /\ UNCHANGED <<mode, stored, deleted, revived>>

NewMission == [fields |-> [desc |-> 0, expiration |-> Never], password |-> 0, role |-> 0,
               groups |-> 0, keywords |-> {}, marks |-> {}]

RecordsInit ==
    /\ mode \in Modes
    /\ mem = [attr |-> NewMission, logs |-> [id \in Entry |-> Absent]]
    /\ stored = mem
    /\ seen = [attr |-> NewMission, logs |-> [m \in Mission |-> {}]]
    /\ req = [r \in Slot |-> Idle]
    /\ faults = 0 /\ quiet = {} /\ deleted = {} /\ revived = {}

Step(r) ==
    \/ \E a \in {"fields", "password", "role", "groups"} : UpdateStep(r, a)
    \/ UpdateEnds(r) \/ StoreRemoved(r) \/ Announce(r) \/ StoreExpiration(r)
    \/ StorePut(r) \/ StoreDelete(r) \/ AnnounceLog(r)

Request(r) ==
    \/ UpdateExisting(r) \/ SetPassword(r) \/ SetExpiration(r)
    \/ SetKeywords(r) \/ RemoveKeyword(r) \/ SetContentKeywords(r)
    \/ \E id \in Entry :
          \/ DeleteLogEntry(r, id)
          \/ \E e \in LogEntry : PostLogEntry(r, id, e) \/ PutLogEntry(r, id, e)

RecordsNext == (\E r \in Slot : Step(r) \/ Request(r)) \/ RecordsReplayed

RecordsSpec == RecordsInit /\ [][RecordsNext]_recordVars

-----------------------------------------------------------------------------
RecordsTypes ==
    /\ mem.attr \in Attributes /\ stored.attr \in Attributes /\ seen.attr \in Attributes
    /\ \A id \in Entry : {mem.logs[id], stored.logs[id]} \subseteq LogEntry \cup {Absent}
    /\ quiet \subseteq Attr \cup Mission
    /\ revived \subseteq deleted /\ deleted \subseteq Entry
    /\ faults \in 0 .. mode.maxFaults

Pending(x) == \E r \in Slot : x \in wrote(r)

\* Once no request has something to announce, a subscriber that fetches the
\* mission whenever it is told to has it as it is.  Excepted is what was
\* changed with no announcement: by set_expiration, also if that put back an
\* older description, by an update that was refused or failed half-way; and
\* keywords of contents announced in another order than they were stored in.
MissionSeen == \A a \in Attr \ quiet : ~Pending(a) => seen.attr[a] = mem.attr[a]

\* The same for a mission's log.  Excepted is the mission that a changed entry
\* no longer names, and the one that it names since its deletion has begun.
LogSeen == \A m \in Mission \ quiet : ~Pending(m) => seen.logs[m] = LogOf(mem, m)

\* A deleted log entry does not come back, not after a restart either, except
\* by a PUT that had found it before it was deleted.
DeletedLogsStay ==
    \A id \in deleted \ revived : mem.logs[id] = Absent /\ stored.logs[id] = Absent

(***************************************************************************)
(* Subscribers that fetch the mission, or its log, when they are told to    *)
(* have it as it is, and a deleted log entry does not come back; with the   *)
(* exceptions above.                                                        *)
(***************************************************************************)
RecordsSeen == RecordsTypes /\ MissionSeen /\ LogSeen /\ DeletedLogsStay
=============================================================================
