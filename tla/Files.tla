------------------------------- MODULE Files -------------------------------
(***************************************************************************)
(* Enterprise Sync: the bytes of uploaded files, by hash, in a directory   *)
(* (src/content_store.rs), the records that describe them in an event log  *)
(* (src/sync.rs), and the requests that keep the two in step               *)
(* (src/marti/content.rs, put_metadata of src/marti/file_manager.rs).      *)
(*                                                                         *)
(* No lock covers both: a request is a sequence of steps, each a system    *)
(* call on the directory or one critical section of the store, and other   *)
(* requests run in between.  An append may fail, with or without leaving   *)
(* its line in the file; the server may crash; a client may hang up while  *)
(* its upload is stored.                                                   *)
(*                                                                         *)
(* A record's descriptive fields (keywords, expiration, submitter, tool,   *)
(* type) are one mark, "was edited".  A caller is the set of groups that   *)
(* it sees; the admin sees them all.  Left out: temporary files (nothing   *)
(* reads them), uploads that are empty, too large or refused, which store  *)
(* no record, and power losses that undo a rename.                         *)
(***************************************************************************)
EXTENDS Naturals, Sequences, FiniteSets, SequencesExt

CONSTANTS
    Hash,          \* contents, named by their hash
    Caller,        \* who makes requests: the groups that each one sees
    Request,       \* requests that may be in progress at once
    MaxInserts,    \* a bound: Inserted events in the file
    MaxFaults      \* a bound: failed appends, crashes and hang-ups

VARIABLES
    disk,          \* the hashes that have a file in the content directory
    stored,        \* the state that a replay of the event log would give
    mem,           \* ResourceStore.state
    req,           \* the requests in progress
    inserted,      \* how many Inserted events the file has
    twins,         \* history: keys of inserts that failed but left a line
    raced,         \* history: contents that a delete took from an upload
    leaked,        \* history: contents of requests that ended early
    wrong,         \* history: records changed by a key that was not theirs
    faults         \* how many faults there were

store == <<stored, mem, inserted, twins>>
vars == <<disk, store, req, raced, leaked, wrong, faults>>

None == "none"

(***************************************************************************)
(* Events and the reducer.  `serial` tells records apart and `failed` marks *)
(* one whose append failed; the code has neither.                          *)
(***************************************************************************)
Serial == 1 .. MaxInserts

ResourceRecord ==
    [primary_key: Serial, hash: Hash, visible_in: Caller, edited: BOOLEAN,
     serial: Serial, failed: BOOLEAN]

\* HashSet: KeywordsSet, ExpirationSet.  KeysSet: SubmitterSet,
\* ExpirationSetKeys, FieldSetKeys.
Inserted(record) == [kind |-> "Inserted", record |-> record]
Deleted(key) == [kind |-> "Deleted", primary_key |-> key]
HashSet(h) == [kind |-> "HashSet", hash |-> h]
KeysSet(keys) == [kind |-> "KeysSet", keys |-> keys]

SyncState == [resources |-> <<>>, next_key |-> 0]

\* The resources in rs are edited.
Edit(m, rs) ==
    [m EXCEPT !.resources = [i \in DOMAIN @ |->
        [m.resources[i] EXCEPT !.edited = @ \/ m.resources[i] \in rs]]]

Greater(a, b) == IF a > b THEN a ELSE b

ApplyInserted(m, e) ==
    [resources |-> Append(m.resources, e.record),
     next_key |-> Greater(m.next_key, e.record.primary_key)]

ApplyDeleted(m, e) ==
    [m EXCEPT !.resources =
        SelectSeq(@, LAMBDA r : r.primary_key # e.primary_key)]

Apply(m, e) ==
    CASE e.kind = "Inserted" -> ApplyInserted(m, e)
      [] e.kind = "Deleted" -> ApplyDeleted(m, e)
      [] e.kind = "HashSet" -> Edit(m, {r \in ToSet(m.resources) : r.hash = e.hash})
      [] OTHER -> Edit(m, {r \in ToSet(m.resources) : r.primary_key \in e.keys})

Records == ToSet(mem.resources)
Visible(groups) == SelectSeq(mem.resources, LAMBDA r : r.visible_in \cap groups # {})
VisibleSet(groups) == ToSet(Visible(groups))

(***************************************************************************)
(* Requests as the steps they take.                                        *)
(***************************************************************************)
Step(do, h) == [do |-> do, hash |-> h]

\* The stream is written, synced and hashed before the first of these.
PutStream(h) == <<Step("Exists", h), Step("Rename", h)>>

Upload(h) == PutStream(h) \o <<Step("Size", h), Step("Insert", h)>>

\* Here the size that is read is only stored.
MissionUpload(h) == PutStream(h) \o <<Step("Insert", h)>>

RemoveUnused(h) == <<Step("InUse", h), Step("Remove", h)>>

DeleteStore == <<Step("List", None), Step("Delete", None)>>

DeleteHash_ChecksFirst(h) == <<Step("LookHash", h)>> \o RemoveUnused(h) \o DeleteStore

\* delete_servlet with a hash, and file_manager_delete.
DeleteHash(h) == <<Step("LookHash", h)>> \o DeleteStore \o RemoveUnused(h)

\* delete_servlet with primary keys; LookKeys adds the contents to remove.
DeleteKeys == <<Step("LookKeys", None)>> \o DeleteStore

\* set_keywords, set_expiration.
EditByHash(h) == <<Step("FindHash", h), Step("EditHash", h)>>

SetMetadata(h) == <<Step("FindHash", h), Step("EditKeys", h)>>

\* The submitter and the expiration, if they are given, and the keywords.
PutMetadata(h, n) ==
    <<Step("LookHash", h)>> \o [i \in 1 .. n |-> Step("EditKeys", h)]
        \o <<Step("EditHash", h)>>

(***************************************************************************)
(* The steps of a request q in slot r.                                     *)
(***************************************************************************)
Idle == [todo |-> <<>>, groups |-> {}, keys |-> {}, seen |-> {}]
Busy(r) == req[r].todo # <<>>
Doing(q) == Head(q.todo)
Done(q) == IF Len(q.todo) = 1 THEN Idle ELSE [q EXCEPT !.todo = Tail(@)]
Skip(q) == IF Len(q.todo) = 2 THEN Idle ELSE [q EXCEPT !.todo = Tail(Tail(@))]
Touched(q) == {s.hash : s \in ToSet(q.todo)} \ {None}

\* What q leaves behind if it ends here: a content without its record.
LeavesBehind(q) ==
    IF q.todo # <<>> /\ Doing(q).do \in {"Size", "Insert", "InUse", "Remove"}
    THEN Touched(q) ELSE {}

\* The client holds a listing; its request has not been sent.
Listing(q) == q.todo = DeleteKeys

Goto(r, q) == req' = [req EXCEPT ![r] = q]
Fault == faults < MaxFaults /\ faults' = faults + 1

Exists(r, q) ==
    /\ Doing(q).do = "Exists"
    /\ Goto(r, IF Doing(q).hash \in disk THEN Skip(q) ELSE Done(q))
    /\ UNCHANGED <<disk, store, raced, leaked, wrong, faults>>

Rename(r, q) ==
    /\ Doing(q).do = "Rename"
    /\ disk' = disk \cup {Doing(q).hash}
    /\ Goto(r, Done(q))
    /\ UNCHANGED <<store, raced, leaked, wrong, faults>>

\* open_file: a size of 0 ends the upload.
Size(r, q) ==
    /\ Doing(q).do = "Size"
    /\ Goto(r, IF Doing(q).hash \in disk THEN Done(q) ELSE Idle)
    /\ UNCHANGED <<disk, store, raced, leaked, wrong, faults>>

\* A file operation fails, or the client hangs up while the handler awaits
\* its result.
HangUp(r, q) ==
    /\ Doing(q).do \in {"Exists", "Rename", "Size", "Insert"}
    /\ Fault
    /\ leaked' = leaked \cup LeavesBehind(q)
    /\ Goto(r, Idle)
    /\ UNCHANGED <<disk, store, raced, wrong>>

\* EventLog.append and apply: the line is in the file, and in memory.
Record(es) ==
    /\ mem' = FoldLeft(Apply, mem, es)
    /\ stored' = FoldLeft(Apply, stored, es)

\* The first append succeeds for `es` and fails for e, which may be in the
\* file all the same.
RecordFails(es, e) ==
    /\ Fault
    /\ mem' = FoldLeft(Apply, mem, es)
    /\ stored' \in {FoldLeft(Apply, stored, es), FoldLeft(Apply, stored, Append(es, e))}

AboutToRemove(h) == \E r \in Request : Busy(r) /\ Doing(req[r]) = Step("Remove", h)
AboutToInsert(h) ==
    \E r \in Request : Busy(r) /\ Doing(req[r]) \in {Step("Size", h), Step("Insert", h)}

Insert(r, q) ==
    LET h == Doing(q).hash
        record == [primary_key |-> mem.next_key + 1, hash |-> h,
                   visible_in |-> q.groups, edited |-> FALSE,
                   serial |-> inserted + 1, failed |-> FALSE]
        key == {record.primary_key}
    IN  /\ Doing(q).do = "Insert" /\ inserted < MaxInserts
        /\ inserted' = inserted + 1
        /\ \/ /\ Record(<<Inserted(record)>>)
              /\ raced' = IF AboutToRemove(h) THEN raced \cup {h} ELSE raced
              /\ leaked' = IF key \subseteq twins THEN leaked \cup {h} ELSE leaked
              /\ Goto(r, Done(q))
              /\ UNCHANGED <<twins, faults>>
           \/ /\ RecordFails(<<>>, Inserted([record EXCEPT !.failed = TRUE]))
              /\ twins' = IF stored' = stored THEN twins ELSE twins \cup key
              /\ leaked' = leaked \cup {h}
              /\ Goto(r, Idle)
              /\ UNCHANGED raced
        /\ UNCHANGED <<disk, wrong>>

Keys(records) == {x.primary_key : x \in records}
Serials(records) == {x.serial : x \in records}

Look(q, found) == [q EXCEPT !.keys = Keys(found), !.seen = Serials(found)]

\* by_hash; set_keywords, set_expiration and set_metadata answer 404 if
\* there is nothing to see.
LookHash(r, q) ==
    LET found == {x \in VisibleSet(q.groups) : x.hash = Doing(q).hash}
    IN  /\ Doing(q).do \in {"LookHash", "FindHash"}
        /\ Goto(r, IF Doing(q).do = "FindHash" /\ found = {} THEN Idle
                   ELSE Done(Look(q, found)))
        /\ UNCHANGED <<disk, store, raced, leaked, wrong, faults>>

LookKeys(r, q) ==
    LET found == SelectSeq(Visible(q.groups), LAMBDA x : x.primary_key \in q.keys)
        removals == [i \in DOMAIN found |-> RemoveUnused(found[i].hash)]
    IN  /\ Doing(q).do = "LookKeys"
        /\ Goto(r, [q EXCEPT !.todo = Tail(@) \o FlattenSeq(removals)])
        /\ UNCHANGED <<disk, store, raced, leaked, wrong, faults>>

\* delete_keys first lists what is visible, then takes the write lock.
List(r, q) ==
    /\ Doing(q).do = "List"
    /\ Goto(r, Done([q EXCEPT !.keys = @ \cap Keys(VisibleSet(q.groups))]))
    /\ UNCHANGED <<disk, store, raced, leaked, wrong, faults>>

\* The records that a key reaches and that its request has not looked up.
Unseen(q, keys) ==
    {x \in Records : x.primary_key \in keys /\ x.serial \notin q.seen}

\* One event for each key; the first append that fails ends the request.
Delete(r, q) ==
    /\ Doing(q).do = "Delete"
    /\ \E keys \in {SetToSeq(q.keys)} :
        \E es \in {[i \in DOMAIN keys |-> Deleted(keys[i])]} :
            \/ /\ Record(es)
               /\ wrong' = wrong \cup Unseen(q, q.keys)
               /\ Goto(r, Done(q))
               /\ UNCHANGED <<leaked, faults>>
            \/ /\ \E n \in DOMAIN es :
                    /\ RecordFails(SubSeq(es, 1, n - 1), es[n])
                    /\ wrong' = wrong \cup Unseen(q, ToSet(SubSeq(keys, 1, n - 1)))
               /\ leaked' = leaked \cup Touched(q)
               /\ Goto(r, Idle)
    /\ UNCHANGED <<disk, inserted, twins, raced>>

\* hash_in_use: "the content bytes may only be removed when none does".
InUse(r, q) ==
    /\ Doing(q).do = "InUse"
    /\ Goto(r, IF \E x \in Records : x.hash = Doing(q).hash
               THEN Skip(q) ELSE Done(q))
    /\ UNCHANGED <<disk, store, raced, leaked, wrong, faults>>

RemoveContent(r, q) ==
    LET h == Doing(q).hash
    IN  /\ Doing(q).do = "Remove"
        /\ disk' = disk \ {h}
        /\ raced' = IF AboutToInsert(h) THEN raced \cup {h} ELSE raced
        /\ Goto(r, Done(q))
        /\ UNCHANGED <<store, leaked, wrong, faults>>

\* put_metadata goes on after an append that failed; for the other requests
\* the edit is the last step.
EditStep(r, q) ==
    LET byKeys == Doing(q).do = "EditKeys"
        e == IF byKeys THEN KeysSet(q.keys) ELSE HashSet(Doing(q).hash)
    IN  /\ Doing(q).do \in {"EditKeys", "EditHash"}
        /\ \/ /\ Record(<<e>>)
              /\ wrong' = IF byKeys THEN wrong \cup Unseen(q, q.keys) ELSE wrong
              /\ UNCHANGED faults
           \/ RecordFails(<<>>, e) /\ UNCHANGED wrong
        /\ Goto(r, Done(q))
        /\ UNCHANGED <<disk, inserted, twins, raced, leaked>>

Advance(r, q) ==
    \/ Exists(r, q) \/ Rename(r, q) \/ Size(r, q) \/ HangUp(r, q) \/ Insert(r, q)
    \/ LookHash(r, q) \/ LookKeys(r, q) \/ List(r, q) \/ Delete(r, q)
    \/ InUse(r, q) \/ RemoveContent(r, q) \/ EditStep(r, q)

\* A request arrives and takes its first step.
Begin(r, groups, todo) ==
    \E q \in {[Idle EXCEPT !.todo = todo, !.groups = groups]} : Advance(r, q)

\* A client lists what it sees and picks records to delete, now or later.
ListAndPick(r, groups) ==
    \E picked \in SUBSET VisibleSet(groups) :
        /\ picked # {}
        /\ Goto(r, [Look([Idle EXCEPT !.groups = groups], picked)
                        EXCEPT !.todo = DeleteKeys])
        /\ UNCHANGED <<disk, store, raced, leaked, wrong, faults>>

Arrive(r, groups) ==
    \/ \E h \in Hash :
        \/ Begin(r, groups, Upload(h)) \/ Begin(r, groups, MissionUpload(h))
        \/ Begin(r, groups, DeleteHash(h))
        \/ Begin(r, groups, EditByHash(h)) \/ Begin(r, groups, SetMetadata(h))
        \/ \E n \in 0 .. 2 : Begin(r, groups, PutMetadata(h, n))
    \/ ListAndPick(r, groups)

\* The slots are alike: a new request takes one of those that are free.
FreeSlot ==
    LET free == {r \in Request : ~Busy(r)}
    IN  IF free = {} THEN {} ELSE {CHOOSE r \in free : TRUE}

\* A crash and the next start: load_or_create replays the file.  What a
\* client has listed is still on its screen.
Restart ==
    /\ mem' = stored
    /\ req' = [r \in Request |-> IF Listing(req[r]) THEN req[r] ELSE Idle]
    /\ leaked' = leaked \cup UNION {LeavesBehind(req[r]) : r \in Request}
    /\ UNCHANGED <<disk, stored, inserted, twins, raced, wrong, faults>>

Init ==
    /\ disk = {} /\ stored = SyncState /\ mem = SyncState
    /\ req = [r \in Request |-> Idle]
    /\ inserted = 0 /\ twins = {}
    /\ raced = {} /\ leaked = {} /\ wrong = {} /\ faults = 0

Next ==
    \/ \E r \in Request : Busy(r) /\ Advance(r, req[r])
    \/ \E r \in FreeSlot, groups \in Caller : Arrive(r, groups)
    \/ Restart

Spec == Init /\ [][Next]_vars

(***************************************************************************)
(* Properties.                                                             *)
(***************************************************************************)
\* Types; keys are given out one by one.
TypeOK ==
    /\ disk \subseteq Hash
    /\ \A m \in {stored, mem} :
            /\ m.resources \in Seq(ResourceRecord)
            /\ m.next_key \in 0 .. inserted
    /\ inserted \in 0 .. MaxInserts /\ twins \subseteq Serial
    /\ raced \subseteq Hash /\ leaked \subseteq Hash
    /\ wrong \subseteq ResourceRecord
    /\ faults \in 0 .. MaxFaults

\* What is listed can be downloaded: a record's content is there, through
\* crashes, hang-ups and failed appends, unless a delete of the same content
\* overlapped its upload, or the append of the record failed and left its
\* line in the file.
RecordsHaveContent ==
    \A x \in Records : x.hash \in disk \cup raced \/ x.failed

\* "Remove the bytes once nothing references them any more": when no request
\* is in progress, every content in the directory has a record, unless a
\* request about it ended early or its record shared its key with another.
NoContentLeftBehind ==
    (\A r \in Request : Busy(r) => Listing(req[r])) =>
        \A h \in disk : h \in leaked \/ \E x \in Records : x.hash = h

\* A key means one record for good: a request never deletes or edits, by a
\* key that its client or an earlier step looked up, any other record than
\* the one looked up, however late it comes and whatever restarts came
\* between.  Only an insert that failed and left its line in the file makes
\* an exception: the key was given out again.
KeysMeanOneRecord == \A x \in wrong : x.primary_key \in twins

\* The directory and the record store stay in step, and keys keep their
\* meaning.
FilesKept == TypeOK /\ RecordsHaveContent /\ NoContentLeftBehind /\ KeysMeanOneRecord
============================================================================
