------------------------------ MODULE Profiles ------------------------------
(***************************************************************************)
(* Device profiles: the store with its own content directory                *)
(* (src/profiles.rs, src/content_store.rs), the requests that change it and *)
(* a device that asks, each time it connects, for what changed since it     *)
(* asked last (src/marti/profiles.rs).                                      *)
(*                                                                          *)
(* A request takes the time when it arrives and records its event later,    *)
(* when it has the store's lock: the time in the event is `now` or earlier. *)
(* An upload also puts the bytes in the content directory before it asks    *)
(* for the lock.  A package is built in several steps: the profiles that     *)
(* apply, then the files of each, then the bytes of each, with changes in   *)
(* between.  updated_ms is all that tells a device that a profile changed.  *)
(*                                                                          *)
(* Left out: names (a request finds its profile by name and goes on with    *)
(* its id: any profile), what a profile applies to other than this device   *)
(* when it connects, and the paths of directories, which change nothing but *)
(* updated_ms here.                                                         *)
(***************************************************************************)
EXTENDS Naturals, Sequences, SequencesExt

CONSTANTS
    Slot,        \* uploads in progress at a time
    Hash,        \* contents
    NoHash,
    MaxProfile,  \* a bound: profiles ever created
    MaxFile,     \* a bound: files ever added
    MaxNow,      \* a bound: the last time
    MaxFaults    \* a bound: failed appends and crashes

VARIABLES
    mem,         \* ProfileStore.state
    stored,      \* what a replay of the event log would give
    content,     \* the content directory
    now,         \* the clock
    req,         \* the uploads in progress
    dev,         \* the device and the request for its package
    faults,      \* how many faults there were
    past         \* history, see TypeOK

vars == <<mem, stored, content, now, req, dev, faults, past>>

Time      == 1 .. MaxNow
ProfileId == 1 .. MaxProfile
FileId    == 1 .. MaxFile

\* `applies`: active, without a tool, on connect, and for the device's groups.
Profile     == [id: ProfileId, applies: BOOLEAN, updated: Time]
ProfileFile == [id: FileId, profile: ProfileId, hash: Hash]

EmptyState == [profiles |-> <<>>, files |-> <<>>, nextProfile |-> 0, nextFile |-> 0]
Idle       == [pc |-> "idle", id |-> 0, hash |-> NoHash, at |-> 0]

Ids(s)    == {p.id : p \in ToSet(s.profiles)}
Hashes(s) == {f.hash : f \in ToSet(s.files)}
Larger(a, b) == IF a > b THEN a ELSE b

\* The first one with this id, and 0 if there is none.
Position(xs, id) == SelectInSeq(xs, LAMBDA x : x.id = id)

-----------------------------------------------------------------------------
(***************************************************************************)
(* apply.                                                                   *)
(***************************************************************************)
Touch(s, id, at) ==
    LET i == Position(s.profiles, id)
    IN  IF i = 0 THEN s ELSE [s EXCEPT !.profiles[i].updated = at]

Created(s, id, at) ==
    [s EXCEPT !.profiles = Append(@, [id |-> id, applies |-> FALSE, updated |-> at]),
              !.nextProfile = Larger(@, id)]

Updated(s, id, applies, at) ==
    LET i == Position(s.profiles, id)
    IN  IF i = 0 THEN s
        ELSE [s EXCEPT !.profiles[i].applies = applies, !.profiles[i].updated = at]

Deleted(s, id) ==
    [s EXCEPT !.profiles = SelectSeq(@, LAMBDA p : p.id # id),
              !.files = SelectSeq(@, LAMBDA f : f.profile # id)]

FileAdded(s, f, at) ==
    Touch([s EXCEPT !.files = Append(@, f), !.nextFile = Larger(@, f.id)], f.profile, at)

DirectoryAdded(s, id, at) == Touch(s, id, at)

FileDeleted_Untouched(s, id, at) ==   \* mutant: the profile is not marked updated
    LET i == Position(s.files, id)
    IN  IF i = 0 THEN s ELSE [s EXCEPT !.files = RemoveAt(@, i)]

FileDeleted(s, id, at) ==
    LET i == Position(s.files, id)
    IN  IF i = 0 THEN s
        ELSE Touch([s EXCEPT !.files = RemoveAt(@, i)], s.files[i].profile, at)

-----------------------------------------------------------------------------
(***************************************************************************)
(* Steps of requests.                                                       *)
(***************************************************************************)
Fault == faults < MaxFaults /\ faults' = faults + 1

\* The device's time, against which a change may come too late.
Asked == Larger(dev.last, dev.at)

\* What the device has of the profiles in ids is out of date, from `at` on.
Outdated(ids, at) ==
    [past EXCEPT !.due = @ \cup ids, !.late = IF at < Asked THEN @ \cup ids ELSE @]

Note(ids, at) ==
    /\ dev' = [dev EXCEPT !.fresh = @ \ ids]
    /\ past' = Outdated(ids, at)

\* record, in a request that ends with it, for an event that makes s of memory
\* and t of what is stored.
Record(s, t, ids, at) ==
    \/ /\ mem' = s /\ stored' = t
       /\ Note(ids, at)
       /\ UNCHANGED faults
    \/ /\ Fault
       /\ stored' \in {stored, t}
       /\ UNCHANGED <<mem, dev, past>>

\* When a request that now has the lock may have taken the time.
Taken == {at \in Time : at <= now}

Create(at) ==
    LET id == mem.nextProfile + 1 IN
    /\ id \in ProfileId
    /\ Record(Created(mem, id, at), Created(stored, id, at), {id}, at)
    /\ UNCHANGED <<content, now, req>>

\* The body of an update may ask for a profile that applies or one that
\* does not.
Posted == BOOLEAN

Update(id, applies, at) ==
    /\ id \in Ids(mem)
    /\ Record(Updated(mem, id, applies, at), Updated(stored, id, applies, at), {id}, at)
    /\ UNCHANGED <<content, now, req>>

\* An event for each directory, all with one time, under one lock.
AddDirectories(id, at) ==
    /\ id \in Ids(mem)
    /\ Record(DirectoryAdded(mem, id, at), DirectoryAdded(stored, id, at), {id}, at)
    /\ UNCHANGED <<content, now, req>>

(***************************************************************************)
(* add_file: the bytes first.  ContentStore::put does nothing if it finds   *)
(* them; else it writes a temporary file and renames it.                    *)
(***************************************************************************)
Goto(r, pc) == req' = [req EXCEPT ![r].pc = pc]

Upload(r, id, h) ==
    /\ req[r] = Idle /\ id \in Ids(mem)
    /\ req' = [req EXCEPT ![r] = [pc |-> "put", id |-> id, hash |-> h, at |-> now]]
    /\ UNCHANGED <<mem, stored, content, now, dev, faults, past>>

PutLooks(r) ==
    /\ req[r].pc = "put"
    /\ Goto(r, IF req[r].hash \in content THEN "add" ELSE "rename")
    /\ UNCHANGED <<mem, stored, content, now, dev, faults, past>>

PutRenames(r) ==
    /\ req[r].pc = "rename"
    /\ content' = content \cup {req[r].hash}
    /\ past' = [past EXCEPT !.lost = @ \ {req[r].hash}]
    /\ Goto(r, "add")
    /\ UNCHANGED <<mem, stored, now, dev, faults>>

\* Then the record.  If the profile is gone, or the append fails, the bytes
\* stay.
AddFile(r) ==
    LET q == req[r]
        f == [id |-> mem.nextFile + 1, profile |-> q.id, hash |-> q.hash]
        leak == [past EXCEPT !.leaked = @ \cup {q.hash}]
    IN  /\ q.pc = "add" /\ f.id \in FileId
        /\ req' = [req EXCEPT ![r] = Idle]
        /\ \/ /\ q.id \in Ids(mem)
              /\ mem' = FileAdded(mem, f, q.at) /\ stored' = FileAdded(stored, f, q.at)
              /\ Note({q.id}, q.at) /\ UNCHANGED faults
           \/ /\ q.id \in Ids(mem) /\ Fault
              /\ stored' \in {stored, FileAdded(stored, f, q.at)}
              /\ past' = leak /\ UNCHANGED <<mem, dev>>
           \/ /\ q.id \notin Ids(mem)
              /\ past' = leak /\ UNCHANGED <<mem, stored, dev, faults>>
        /\ UNCHANGED <<content, now>>

(***************************************************************************)
(* delete_file and delete: the record and forget, under one lock.           *)
(***************************************************************************)
\* forget: of these contents, those that no file refers to any more.
Forgotten(s, hashes) == hashes \ Hashes(s)

\* The deletion of the files with these hashes, as in Record.  History: a content that an
\* upload has found or put, or that the log refers to, may be needed again.
Forget(s, t, hashes, ids, at) ==
    LET gone   == Forgotten(s, hashes)
        needed == Hashes(t) \cup {req[r].hash : r \in {x \in Slot : req[x].pc = "add"}}
    IN  \/ /\ mem' = s /\ stored' = t
           /\ content' = content \ gone
           /\ dev' = [dev EXCEPT !.fresh = @ \ ids]
           /\ past' = [Outdated(ids, at) EXCEPT !.lost = @ \cup (gone \cap needed),
                                                !.leaked = @ \ gone]
           /\ UNCHANGED faults
        \/ /\ Fault
           /\ stored' \in {stored, t}
           /\ UNCHANGED <<mem, content, dev, past>>

DeleteFile(f, at) ==
    /\ Forget(FileDeleted(mem, f.id, at), FileDeleted(stored, f.id, at), {f.hash}, {f.profile}, at)
    /\ UNCHANGED <<now, req>>

Delete(id) ==
    /\ id \in Ids(mem)
    /\ Forget(Deleted(mem, id), Deleted(stored, id),
              {f.hash : f \in {x \in ToSet(mem.files) : x.profile = id}}, {}, now)
    /\ UNCHANGED <<now, req>>
-----------------------------------------------------------------------------
(***************************************************************************)
(* The device asks for its package (connection): with syncSecago = -1 the   *)
(* first time, later for the time since it asked last, rounded up.          *)
(***************************************************************************)
Since == IF dev.last = 0 THEN 0 ELSE dev.last - 1

\* matching: profiles that apply and, with syncSecago, changed since.
Matching(p) == p.applies /\ p.updated > Since

Poll ==
    LET ids == {p.id : p \in {x \in ToSet(mem.profiles) : Matching(x)}}
    IN  /\ dev.pc = "idle"
        /\ dev' = [dev EXCEPT !.pc = "poll", !.at = now, !.todo = ids, !.fresh = ids]
        /\ UNCHANGED <<mem, stored, content, now, req, faults, past>>

\* The files of one of these profiles.
PollFiles(id) ==
    /\ id \in dev.todo
    /\ dev' = [dev EXCEPT !.todo = @ \ {id},
                          !.got = @ \cup {f \in ToSet(mem.files) : f.profile = id}]
    /\ UNCHANGED <<mem, stored, content, now, req, faults, past>>

\* package: the bytes of one of the files.  If they are not there, because
\* the file was deleted meanwhile, the device gets an empty file instead.
PollContents(f) ==
    LET empty == IF f.hash \in content \cup past.lost THEN {} ELSE {f.profile} IN
    /\ dev.todo = {} /\ f \in dev.got
    /\ dev' = [dev EXCEPT !.got = @ \ {f}, !.fresh = @ \ empty]
    /\ past' = [past EXCEPT !.due = @ \cup empty]
    /\ UNCHANGED <<mem, stored, content, now, req, faults>>

\* The device has the package.
PollEnds ==
    /\ dev.pc = "poll" /\ dev.todo = {} /\ dev.got = {}
    /\ dev' = [dev EXCEPT !.pc = "idle", !.last = dev.at, !.fresh = {}]
    /\ past' = [past EXCEPT !.due = @ \ dev.fresh, !.late = @ \ dev.fresh]
    /\ UNCHANGED <<mem, stored, content, now, req, faults>>

Tick ==
    /\ now < MaxNow
    /\ now' = now + 1
    /\ UNCHANGED <<mem, stored, content, req, dev, faults, past>>

-----------------------------------------------------------------------------
\* A crash.  History: where the replay gives something other than what was
\* in memory, every profile may have changed, at no time that is new.
Restart ==
    LET other == IF mem = stored THEN {} ELSE Ids(mem) \cup Ids(stored)
    IN  /\ Fault
        /\ mem' = stored
        /\ req' = [r \in Slot |-> Idle]
        /\ dev' = [dev EXCEPT !.pc = "idle", !.at = 0, !.todo = {}, !.got = {}, !.fresh = {}]
        /\ past' = [past EXCEPT !.due = @ \cup other, !.late = @ \cup other,
                                !.leaked = @ \cup (content \ Hashes(stored))]
        /\ UNCHANGED <<stored, content, now>>

Init ==
    /\ mem = EmptyState /\ stored = EmptyState /\ content = {}
    /\ now = 1
    /\ req = [r \in Slot |-> Idle]
    /\ dev = [pc |-> "idle", last |-> 0, at |-> 0, todo |-> {}, got |-> {}, fresh |-> {}]
    /\ faults = 0
    /\ past = [due |-> {}, late |-> {}, lost |-> {}, leaked |-> {}]

Next ==
    \/ \E at \in Taken :
        \/ Create(at)
        \/ \E id \in Ids(mem) :
            AddDirectories(id, at) \/ \E applies \in Posted : Update(id, applies, at)
        \/ \E i \in DOMAIN mem.files :
            Position(mem.files, mem.files[i].id) = i /\ DeleteFile(mem.files[i], at)
    \/ \E id \in Ids(mem) : Delete(id) \/ \E r \in Slot, h \in Hash : Upload(r, id, h)
    \/ \E r \in Slot : PutLooks(r) \/ PutRenames(r) \/ AddFile(r)
    \/ Poll \/ PollEnds
    \/ \E id \in dev.todo : PollFiles(id)
    \/ \E f \in dev.got : PollContents(f)
    \/ Tick
    \/ Restart

Spec == Init /\ [][Next]_vars

-----------------------------------------------------------------------------
(***************************************************************************)
(* past: profiles of which the device has not the current files (due), or a *)
(* change of which was recorded with a time before the device's (late);     *)
(* contents that were removed while they were needed (lost) or left behind  *)
(* (leaked).                                                                *)
(***************************************************************************)
StateOK(s) ==
    /\ ToSet(s.profiles) \subseteq Profile /\ ToSet(s.files) \subseteq ProfileFile
    /\ s.nextProfile \in 0 .. MaxProfile /\ s.nextFile \in 0 .. MaxFile

TypeOK ==
    /\ StateOK(mem) /\ StateOK(stored)
    /\ content \subseteq Hash
    /\ now \in Time
    /\ \A r \in Slot : req[r].at \in 0 .. now /\ req[r].hash \in Hash \cup {NoHash}
    /\ dev.last \in 0 .. now /\ dev.todo \subseteq ProfileId /\ dev.got \subseteq ProfileFile
    /\ faults \in 0 .. MaxFaults
    /\ past.due \cup past.late \subseteq ProfileId
    /\ past.lost \cup past.leaked \subseteq Hash

\* The device asks again for whatever it lacks: a profile that applies to it
\* and changed since it got it, also while its package was built, is in what
\* its next request matches.  Except a profile with a change that was
\* recorded after the device had asked, with a
\* time from before (the request took the time and then waited, for the
\* bytes or the lock), or that came back with a restart.
NothingMissed ==
    dev.pc = "idle" =>
        \A p \in ToSet(mem.profiles) : p.applies /\ p.id \in past.due =>
            Matching(p) \/ p.id \in past.late

\* Every file of a profile has its bytes.  Except after a content was
\* removed with its last file while an upload of the same bytes, which found
\* it there, or a line of a failed append, was to refer to it again.
FilesHaveContent == Hashes(mem) \subseteq content \cup past.lost

\* "Remove contents no file refers to any more": no content stays without a
\* file.  Except while it is being added, and after an upload whose profile
\* was deleted meanwhile, a failed append or a crash.
NoContentLeftBehind ==
    content \subseteq Hashes(mem) \cup past.leaked
                    \cup {req[r].hash : r \in {x \in Slot : req[x].pc = "add"}}
=============================================================================
