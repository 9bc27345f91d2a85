-------------------------- MODULE MissionPackages --------------------------
(***************************************************************************)
(* Missions as packages: the archive of a mission, which a client downloads *)
(* or has sent to contacts, and the import of a package into a mission,    *)
(* with or without a list of changes made offline                          *)
(* (src/marti/missions.rs, src/marti/mission_package.rs).                  *)
(*                                                                         *)
(* Such a request reads and writes four stores - the missions, the latest  *)
(* events, the file records and the file contents - item by item, with no  *)
(* lock over them; other requests come between any two steps, and a failed *)
(* append ends it where it is.                                             *)
(*                                                                         *)
(* Archives are of the mission "source", imports go to "target".  A name   *)
(* is what an import makes of it, and how many archives prefixed it.  Left *)
(* out: the manifest's text, permissions, announcements (see MissionFeed)  *)
(* and the events forwarded to subscribers.                                *)
(***************************************************************************)
EXTENDS Naturals, Sequences, FiniteSets, SequencesExt

CONSTANTS
    Uid,           \* of CoT events
    Hash, ZipHash,     \* contents of files; the archive is one, too
    None,
    EventIn,       \* the uid of the event that a content is, or None
    Entry,         \* ids of log entries
    Contact,       \* clients that a mission can be sent to
    GroupsOf,      \* their groups
    Senders,       \* who sends missions: groups, and whether the admin
    Changes,       \* offline changes that a client may send
    MaxTime,       \* a bound: the changes that other requests make
    MaxFaults      \* a bound: failed appends, events and files that go

VARIABLES
    clock,         \* the time; each change that another request makes takes one
    missions,      \* contents and changes of the two missions
    cot,           \* LatestCot: the uid in the event that is kept for a uid
    resources,     \* the file records, oldest first
    disk,          \* the contents that are stored
    logs,          \* when each log entry was created
    job,           \* the request in progress
    archive,       \* the archive that a client holds
    package,       \* the changes that a client made offline, or None
    result,        \* how the import ended
    told,          \* contacts that were sent the archive's URL
    hist,          \* history: see Hist
    faults

stores == <<missions, cot, resources, disk, logs>>
outcome == <<archive, package, result, told>>
vars == <<clock, stores, job, outcome, hist, faults>>

Guid == {"source", "target"}
Content == Uid \cup Hash
NoTime == MaxTime + 1
Created == 1   \* when the missions were created

Name == [kind: {"file", "cot", "manifest"}, prefixes: 0 .. 2]
Named(kind) == [kind |-> kind, prefixes |-> 0]
Prefixed(n) == [n EXCEPT !.prefixes = @ + 1]

\* A committed change; ndx is its place in a package of offline changes (0:
\* it was made online).
Change(add, c, time, ndx) == [add |-> add, content |-> c, time |-> time, ndx |-> ndx]

\* seen, seen_logs: what the conflict check of the offline changes saw.  dropped: contents that were
\* deleted.  logged: the log entries that offline changes saved.
Hist == [seen |-> << >>, seen_logs |-> << >>, dropped |-> {}, logged |-> {}]

ByHash(h) == SelectSeq(resources, LAMBDA r : r.hash = h)

Changed(g, c) ==
    LET contents == missions[g].contents
    IN  missions' = [missions EXCEPT ![g] =
            [contents |-> IF c.add THEN contents \cup {c.content} ELSE contents \ {c.content},
             changes |-> Append(@.changes, c)]]

Fault == faults < MaxFaults /\ faults' = faults + 1
Idle == [do |-> "none"]

-----------------------------------------------------------------------------
(***************************************************************************)
(* mission_archive: the mission is looked up, then each of its items.      *)
(***************************************************************************)
\* A request for the archive, or to send it to contacts; `sender` is the
\* caller's groups and whether it is the admin.
Archive(send, sender) ==
    /\ job = Idle /\ archive = None /\ package = None
    /\ job' = [do |-> "archive", uids |-> missions["source"].contents \cap Uid,
               hashes |-> missions["source"].contents \cap Hash, files |-> << >>,
               lacks |-> {}, of |-> missions["source"].contents,
               send |-> send, sender |-> sender]
    /\ UNCHANGED <<clock, stores, outcome, hist, faults>>

\* "Unknown uids are skipped".
ArchiveUid(u) ==
    /\ job.do = "archive" /\ u \in job.uids
    /\ job' = [job EXCEPT !.uids = @ \ {u},
                 !.lacks = IF cot[u] = None THEN @ \cup {u} ELSE @,
                 !.files = IF cot[u] = None THEN @
                           ELSE Append(@, [name |-> Named("cot"), event |-> cot[u], hash |-> None, uid |-> u])]
    /\ UNCHANGED <<clock, stores, outcome, hist, faults>>

ArchiveHash(h) ==
    LET found == ByHash(h) # << >> /\ h \in disk
    IN  /\ job.do = "archive" /\ job.uids = {} /\ h \in job.hashes
        /\ job' = [job EXCEPT !.hashes = @ \ {h},
                     !.lacks = IF found THEN @ ELSE @ \cup {h},
                     !.files = IF found
                               THEN Append(@, [name |-> Prefixed(ByHash(h)[1].name),
                                               event |-> EventIn[h], hash |-> h, uid |-> None])
                               ELSE @]
        /\ UNCHANGED <<clock, stores, outcome, hist, faults>>

Other(kind) == [name |-> Named(kind), event |-> None, hash |-> None, uid |-> None]

\* build_archive: directories, the files, and the manifest last.
BuildArchive(files) ==
    <<Other("directory"), Other("directory")>> \o files \o <<Other("directory"), Other("manifest")>>

ArchiveDone ==
    /\ job.do = "archive" /\ job.uids = {} /\ job.hashes = {}
    /\ archive' = [of |-> job.of, lacks |-> job.lacks, sent |-> job.send, sender |-> job.sender,
                   files |-> BuildArchive(job.files)]
    /\ job' = IF job.send THEN [do |-> "put"] ELSE Idle
    /\ UNCHANGED <<clock, stores, package, result, told, hist, faults>>

(***************************************************************************)
(* send_impl, with the archive: its content, its record, then the contacts. *)
(***************************************************************************)
SendPut ==
    /\ job.do = "put"
    /\ disk' = disk \cup {ZipHash}
    /\ job' = [do |-> "record"]
    /\ UNCHANGED <<clock, missions, cot, resources, logs, outcome, hist, faults>>

SendInsert ==
    /\ job.do = "record"
    /\ \/ /\ resources' = Append(resources, [hash |-> ZipHash, name |-> Named("file")])
          /\ job' = [do |-> "tell"] /\ UNCHANGED faults
       \/ Fault /\ job' = Idle /\ UNCHANGED resources
    /\ UNCHANGED <<clock, missions, cot, disk, logs, outcome, hist>>

\* reachable: the contacts within the caller's groups; all for the admin.
Reachable(sender) == {u \in Contact : sender.admin \/ GroupsOf[u] \cap sender.groups # {}}

SendTell ==
    /\ job.do = "tell"
    /\ told' = Reachable(archive.sender)
    /\ job' = Idle
    /\ UNCHANGED <<clock, stores, archive, package, result, hist, faults>>

-----------------------------------------------------------------------------
(***************************************************************************)
(* add_mission_package without changes.json: file by file.                 *)
(***************************************************************************)
\* extract: what is not a directory.
Extract(zip) == SelectSeq(zip, LAMBDA f : f.name.kind # "directory")

\* (An archive that was sent is imported in the same way.)
Import ==
    /\ job = Idle /\ archive # None /\ ~archive.sent /\ result = "none"
    /\ job' = [do |-> "import", files |-> Extract(archive.files)]
    /\ UNCHANGED <<clock, stores, outcome, hist, faults>>

Adding(c, left) == [do |-> "add", content |-> c, files |-> left]

\* The manifest is passed over, and whatever is named like it; a .cot file
\* is its event, if it holds one; any other file is stored.
ImportFile ==
    /\ job.do = "import" /\ job.files # << >>
    /\ \E f \in {Head(job.files)}, left \in {Tail(job.files)} :
        \/ /\ f.name.kind = "manifest" \/ (f.name.kind = "cot" /\ f.event = None)
           /\ job' = [job EXCEPT !.files = left]
           /\ UNCHANGED <<cot, disk>>
        \/ /\ f.name.kind = "cot" /\ f.event # None
           /\ cot' = [cot EXCEPT ![f.event] = f.event]
           /\ job' = Adding(f.event, left)
           /\ UNCHANGED disk
        \/ /\ f.name.kind = "file"
           /\ disk' = disk \cup {f.hash}
           /\ job' = [do |-> "insert", hash |-> f.hash, name |-> f.name, files |-> left]
           /\ UNCHANGED cot
    /\ UNCHANGED <<clock, missions, resources, logs, outcome, hist, faults>>

ImportInsert ==
    /\ job.do = "insert"
    /\ \/ /\ resources' = Append(resources, [hash |-> job.hash, name |-> job.name])
          /\ job' = Adding(job.hash, job.files)
          /\ UNCHANGED <<result, faults>>
       \/ Fault /\ job' = Idle /\ result' = "failed" /\ UNCHANGED resources
    /\ UNCHANGED <<clock, missions, cot, disk, logs, archive, package, told, hist>>

ImportAdd ==
    /\ job.do = "add"
    /\ \/ /\ Changed("target", Change(TRUE, job.content, clock, 0))
          /\ job' = [do |-> "import", files |-> job.files]
          /\ UNCHANGED <<result, faults>>
       \/ Fault /\ job' = Idle /\ result' = "failed" /\ UNCHANGED missions
    /\ UNCHANGED <<clock, cot, resources, disk, logs, archive, package, told, hist>>

ImportDone ==
    /\ job.do = "import" /\ job.files = << >>
    /\ job' = Idle /\ result' = "ok"
    /\ UNCHANGED <<clock, stores, archive, package, told, hist, faults>>

-----------------------------------------------------------------------------
(***************************************************************************)
(* apply_offline_changes.  A pending change is of an event (uid), a file   *)
(* (hash and name) or a log entry; `file` is what the package has for it.  *)
(***************************************************************************)
Relevant(c) == c.type \in {"add", "remove"}
IsAdd(c) == c.type = "add"
Committed == missions["target"].changes
CommittedName(k) == ByHash(k.content)[1].name

\* A missing time, one before the mission was, or a committed file that is gone.
Fails(c) ==
    /\ Relevant(c)
    /\ \/ c.time = NoTime \/ c.time < Created
       \/ /\ c.of = "file"
          /\ \E k \in ToSet(Committed) : k.content \in Hash /\ ByHash(k.content) = << >>

Conflict_Adds(c) ==   \* mutant: only content that was added conflicts
    /\ Relevant(c)
    /\ \E k \in ToSet(Committed) :
         k.add /\ c.time < k.time /\ c.of = "uid" /\ k.content = c.uid

\* hasConflicts: something later was committed for the same uid, name or id.
Conflict(c) ==
    /\ Relevant(c)
    /\ \/ /\ c.of = "uid"
          /\ \E k \in ToSet(Committed) : k.content = c.uid /\ c.time < k.time
       \/ /\ c.of = "file"
          /\ \E k \in ToSet(Committed) :
                k.content \in Hash /\ CommittedName(k) = c.name /\ c.time < k.time
       \/ c.of = "log" /\ logs[c.entry] # None /\ c.time < logs[c.entry]

\* The check; the changes are applied later.
SendChanges ==
    /\ package # None /\ result = "none"
    /\ hist' = [hist EXCEPT !.seen_logs = logs,
         !.seen = [j \in DOMAIN Committed |->
            IF Committed[j].content \in Uid \/ ByHash(Committed[j].content) = << >> THEN None
            ELSE CommittedName(Committed[j])]]
    /\ \E bad \in {\E c \in ToSet(package) : Fails(c)} :
        \/ bad /\ result' = "refused" /\ UNCHANGED job
        \/ /\ ~bad /\ \E c \in ToSet(package) : Conflict(c)
           /\ result' = "conflict" /\ UNCHANGED job
        \/ /\ ~bad /\ \A c \in ToSet(package) : ~Conflict(c)
           /\ job' = [do |-> "change", ndx |-> 1] /\ result' = "running"
    /\ UNCHANGED <<clock, stores, archive, package, told, faults>>

\* The changes and their times are read from the same place.
TimeOf(ndx) == package[ndx].time

Pending == package[job.ndx]
NextChange(n) == [do |-> "change", ndx |-> n + 1]
Commit(c) == [do |-> "commit", ndx |-> job.ndx, content |-> c]

\* Passed over: other kinds of changes, an event that is not in the package,
\* a file that is neither in the package nor known.
SkipChange ==
    /\ job.do = "change" /\ job.ndx <= Len(package)
    /\ \/ ~Relevant(Pending)
       \/ /\ IsAdd(Pending) /\ Pending.file = None
          /\ Pending.of = "uid" \/ (Pending.of = "file" /\ ByHash(Pending.hash) = << >>)
    /\ job' = NextChange(job.ndx)
    /\ UNCHANGED <<clock, stores, outcome, hist, faults>>

\* What comes before the change itself: the event, or the file's content.
PrepareChange ==
    /\ job.do = "change" /\ job.ndx <= Len(package) /\ Relevant(Pending)
    /\ \/ /\ Pending.of = "uid" /\ (IsAdd(Pending) => Pending.file # None)
          /\ cot' = IF IsAdd(Pending) THEN [cot EXCEPT ![Pending.uid] = Pending.file] ELSE cot
          /\ job' = Commit(Pending.uid)
          /\ UNCHANGED disk
       \/ /\ Pending.of = "file" /\ IsAdd(Pending) /\ Pending.file # None
          /\ disk' = disk \cup {Pending.file}
          /\ job' = [do |-> "file", ndx |-> job.ndx]
          /\ UNCHANGED cot
       \/ /\ Pending.of = "file"
          /\ IsAdd(Pending) => Pending.file = None /\ ByHash(Pending.hash) # << >>
          /\ job' = Commit(Pending.hash)
          /\ UNCHANGED <<cot, disk>>
    /\ UNCHANGED <<clock, missions, resources, logs, outcome, hist, faults>>

FileChange ==
    /\ job.do = "file"
    /\ \/ /\ resources' = Append(resources, [hash |-> Pending.file, name |-> Pending.name])
          /\ job' = [do |-> "known", ndx |-> job.ndx]
          /\ UNCHANGED <<result, faults>>
       \/ Fault /\ job' = Idle /\ result' = "failed" /\ UNCHANGED resources
    /\ UNCHANGED <<clock, missions, cot, disk, logs, archive, package, told, hist>>

\* "an unknown hash isn't added"
KnownChange ==
    /\ job.do = "known"
    /\ job' = IF ByHash(Pending.file) = << >> THEN NextChange(job.ndx) ELSE Commit(Pending.file)
    /\ UNCHANGED <<clock, stores, outcome, hist, faults>>

CommitChange ==
    /\ job.do = "commit"
    /\ \/ /\ Changed("target", Change(IsAdd(Pending), job.content, TimeOf(job.ndx), job.ndx))
          /\ job' = NextChange(job.ndx)
          /\ UNCHANGED <<result, faults>>
       \/ Fault /\ job' = Idle /\ result' = "failed" /\ UNCHANGED missions
    /\ UNCHANGED <<clock, cot, resources, disk, logs, archive, package, told, hist>>

\* A log entry is saved with the change's time, or deleted.
LogChange ==
    /\ job.do = "change" /\ job.ndx <= Len(package)
    /\ Relevant(Pending) /\ Pending.of = "log"
    /\ \/ /\ logs' = [logs EXCEPT ![Pending.entry] =
                        IF IsAdd(Pending) THEN TimeOf(job.ndx) ELSE None]
          /\ hist' = [hist EXCEPT !.logged = @ \cup {Pending}]
          /\ job' = NextChange(job.ndx)
          /\ UNCHANGED <<result, faults>>
       \/ Fault /\ job' = Idle /\ result' = "failed" /\ UNCHANGED <<logs, hist>>
    /\ UNCHANGED <<clock, missions, cot, resources, disk, archive, package, told>>

ChangesDone ==
    /\ job.do = "change" /\ job.ndx > Len(package)
    /\ job' = Idle /\ result' = "ok"
    /\ UNCHANGED <<clock, stores, archive, package, told, hist, faults>>

-----------------------------------------------------------------------------
(***************************************************************************)
(* Other requests, at any time.                                            *)
(***************************************************************************)
Tick == clock < MaxTime /\ clock' = clock + 1

OtherChange(g, c, add) ==
    /\ Tick
    /\ add /\ c \in Hash => ByHash(c) # << >>
    /\ Changed(g, Change(add, c, clock', 0))
    /\ UNCHANGED <<cot, resources, disk, logs, job, outcome, hist, faults>>

OtherLog(e) ==
    /\ Tick
    /\ logs' = [logs EXCEPT ![e] = clock']
    /\ UNCHANGED <<missions, cot, resources, disk, job, outcome, hist, faults>>

\* A file is deleted, its records first; an event is evicted.
DropRecords(h) ==
    /\ Fault /\ ByHash(h) # << >>
    /\ resources' = SelectSeq(resources, LAMBDA r : r.hash # h)
    /\ hist' = [hist EXCEPT !.dropped = @ \cup {h}]
    /\ UNCHANGED <<clock, missions, cot, disk, logs, job, outcome>>

DropContent(h) ==
    /\ h \in disk \cap hist.dropped /\ ByHash(h) = << >>
    /\ disk' = disk \ {h}
    /\ UNCHANGED <<clock, missions, cot, resources, logs, job, outcome, hist, faults>>

Evict(u) ==
    /\ Fault /\ cot[u] # None
    /\ cot' = [cot EXCEPT ![u] = None]
    /\ UNCHANGED <<clock, missions, resources, disk, logs, job, outcome, hist>>

\* A mission with all contents, of which an event may be of another uid or
\* missing and a file may have a name that an import takes for something
\* else; or one to send offline changes to.
Init ==
    /\ disk = Hash /\ logs = [e \in Entry |-> None]
    /\ missions = [g \in Guid |->
         [contents |-> IF g = "source" THEN Content ELSE {}, changes |-> << >>]]
    /\ \/ /\ package = None /\ clock = MaxTime - 1
          /\ \E u \in Uid, v \in Uid \cup {None} : cot = [[w \in Uid |-> w] EXCEPT ![u] = v]
          /\ \E h \in Hash, kind \in {"file", "cot", "manifest"} :
               resources = SetToSeq({[hash |-> x, name |-> Named(IF x = h THEN kind ELSE "file")] :
                                        x \in Hash})
       \/ /\ package \in SeqOf(Changes, 2) \ {<< >>} /\ clock = Created
          /\ cot = [u \in Uid |-> u]
          /\ resources = SetToSeq({[hash |-> h, name |-> Named("file")] : h \in Hash})
    /\ job = Idle /\ archive = None /\ result = "none" /\ told = {}
    /\ hist = Hist /\ faults = 0

\* Only where they can matter: an event that is evicted before an archive is
\* one that was never there, and after it nothing reads the source again; and
\* offline changes meet changes to the same event, files or log entry.
Others ==
    \/ package = None /\ archive = None /\ \E c \in Content : OtherChange("source", c, FALSE)
    \/ /\ package # None /\ result \in {"none", "running"}
       /\ \E c \in ToSet(package) :
          \/ c.of = "uid" /\ \E add \in BOOLEAN : OtherChange("target", c.uid, add)
          \/ c.of = "file" /\ \E h \in Hash, add \in BOOLEAN : OtherChange("target", h, add)
          \/ c.of = "log" /\ OtherLog(c.entry)
    \/ package # None /\ result \in {"none", "running"} /\ \E h \in Hash : DropRecords(h)
    \/ /\ job.do = "archive"
       /\ (\E h \in Hash : DropRecords(h) \/ DropContent(h)) \/ (\E u \in Uid : Evict(u))
    \/ DropRecords(ZipHash) \/ DropContent(ZipHash)

\* The order of the items does not matter: some order.
First(S) == IF S = {} THEN {} ELSE {CHOOSE x \in S : TRUE}

Next ==
    \/ \E sender \in Senders : Archive(TRUE, sender)
    \/ Archive(FALSE, [groups |-> {}, admin |-> FALSE])
    \/ job.do = "archive" /\ \E u \in First(job.uids) : ArchiveUid(u)
    \/ job.do = "archive" /\ \E h \in First(job.hashes) : ArchiveHash(h)
    \/ ArchiveDone
    \/ SendPut \/ SendInsert \/ SendTell
    \/ Import \/ ImportFile \/ ImportInsert \/ ImportAdd \/ ImportDone
    \/ SendChanges \/ SkipChange \/ PrepareChange \/ FileChange \/ KnownChange \/ CommitChange
    \/ LogChange \/ ChangesDone
    \/ Others

Spec == Init /\ [][Next]_vars

-----------------------------------------------------------------------------
TypeOK ==
    /\ clock \in Created .. MaxTime /\ faults \in 0 .. MaxFaults
    /\ \A g \in Guid :
         /\ missions[g].contents \subseteq Content
         /\ \A k \in ToSet(missions[g].changes) : k.content \in Content /\ k.time \in Created .. MaxTime
    /\ \A u \in Uid : cot[u] \in Uid \cup {None}
    /\ \A r \in ToSet(resources) : r.hash \in Hash \cup {ZipHash} /\ r.name \in Name
    /\ disk \subseteq Hash \cup {ZipHash}
    /\ result \in {"none", "running", "ok", "failed", "refused", "conflict"}

Archived == ToSet(archive.files)
ComesBackAs(f) ==
    CASE f.name.kind = "cot" -> {f.event} \ {None}
      [] f.name.kind = "file" -> {f.hash}
      [] OTHER -> {}

(***************************************************************************)
(* An archive that is imported gives the mission back: the items that the  *)
(* mission had when it was archived, of those that could be read then.  An *)
(* event comes back under the uid that is in it, a file named like an      *)
(* event as that event, if it is one, and one named like a manifest not at *)
(* all.                                                                    *)
(***************************************************************************)
RoundTrip ==
    package = None /\ result = "ok" =>
        /\ \A c \in archive.of \ archive.lacks : \E f \in Archived : c \in {f.uid, f.hash}
        /\ missions["target"].contents = UNION {ComesBackAs(f) : f \in Archived}

Applied == SelectSeq(missions["target"].changes, LAMBDA k : k.ndx # 0)

ContentOf(c) == IF c.of = "uid" THEN c.uid ELSE IF IsAdd(c) /\ c.file # None THEN c.file ELSE c.hash

(***************************************************************************)
(* Offline changes are applied as they were sent: in their order, with     *)
(* their contents and at their own times; none after a conflict; and if    *)
(* the import succeeds, all of events whose event was sent along.          *)
(***************************************************************************)
AppliedAsSent ==
    /\ \A i \in DOMAIN Applied : LET c == package[Applied[i].ndx] IN
         /\ Applied[i].time = c.time /\ Applied[i].add = IsAdd(c)
         /\ Applied[i].content = ContentOf(c)
         /\ i > 1 => Applied[i - 1].ndx < Applied[i].ndx
    /\ result \in {"conflict", "refused"} => Applied = << >> /\ hist.logged = {}
    /\ package # None /\ result = "ok" =>
         \A i \in DOMAIN package :
            Relevant(package[i]) /\ package[i].of = "uid" /\ (IsAdd(package[i]) => package[i].file # None)
                => \E k \in ToSet(Applied) : k.ndx = i

(***************************************************************************)
(* Offline changes yield: one that is applied is not older than a change   *)
(* to the same event, file name or log entry that was committed before the *)
(* conflict check.  Only changes that come between the check and its       *)
(* application, or are in the same package, are overtaken.                 *)
(***************************************************************************)
OfflineYields ==
    /\ \A k \in ToSet(Applied), j \in DOMAIN hist.seen :
         LET earlier == missions["target"].changes[j]
             c == package[k.ndx]
         IN  (IF c.of = "uid" THEN earlier.content = c.uid ELSE hist.seen[j] = c.name)
                => earlier.time <= k.time
    /\ \A c \in hist.logged : hist.seen_logs[c.entry] # None => hist.seen_logs[c.entry] <= c.time

\* Whoever is sent the URL of an archive can fetch it: its content and record
\* are there and the contact is in a group of the record; unless it was
\* deleted, or the admin sent it, whose record has the admin's groups but
\* who reaches everyone.
SharedIsFetchable ==
    \A u \in told :
        \/ archive.sender.admin \/ ZipHash \in hist.dropped
        \/ ZipHash \in disk /\ ByHash(ZipHash) # << >> /\ GroupsOf[u] \cap archive.sender.groups # {}
============================================================================
