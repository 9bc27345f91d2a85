----------------------------- MODULE SeenStore -----------------------------
(***************************************************************************)
(* The last-seen store (src/src/transport/seen.rs): records in memory that  *)
(* connections mark, and persist, which each of them then runs: it writes   *)
(* all records to one temporary file and renames it over client-seen.json.  *)
(*                                                                          *)
(* persist keeps the read lock to its end.  Marks wait for it, but other    *)
(* persists do not: they share the temporary file, and one can rename the   *)
(* file that another has open and has truncated.  A file is the records in  *)
(* it, or Partial.  Nothing is fsynced, whatever the comment in persist     *)
(* says; power losses are not modelled.                                     *)
(***************************************************************************)
EXTENDS Naturals, FiniteSets

CONSTANTS Task,        \* tasks of connections
          SeenName,    \* certificate names
          Partial,     \* the content of a file that is not all written
          MaxMarks,    \* bound: marks
          MaxCrashes   \* bound: restarts

ASSUME SeenAssumption ==
  /\ MaxMarks \in Nat /\ MaxCrashes \in Nat
  /\ Partial \notin [SeenName -> 0..MaxMarks]

VARIABLES
  records,    \* each name's last-seen time, 0 without a record
  task,       \* each task: [pc, fd, json]
  file, tmp,  \* client-seen.json and the temporary file
  marks,      \* the clock: each mark is at a later time
  crashes,
  torn,       \* history: the process died while the file was Partial
  raced       \* history: tasks whose temporary file another one renamed

seenVars == <<records, task, file, tmp, marks, crashes, torn, raced>>

Records == [SeenName -> 0..MaxMarks]
Content == Records \cup {Partial}
NoRecords == [n \in SeenName |-> 0]
Idle == [pc |-> "idle", fd |-> "none", json |-> NoRecords]

SeenTypeOK ==
  /\ records \in Records
  /\ task \in [Task -> [pc: {"idle", "marked", "locked", "opened", "written"},
                        fd: {"none", "tmp", "file", "gone"}, json: Records]]
  /\ file \in [exists: BOOLEAN, content: Content]
  /\ tmp \in [exists: BOOLEAN, content: Content]
  /\ marks \in 0..MaxMarks /\ crashes \in 0..MaxCrashes
  /\ torn \in BOOLEAN /\ raced \subseteq Task

NoFile == [exists |-> FALSE, content |-> NoRecords]

SeenInit ==
  /\ records = NoRecords
  /\ task = [t \in Task |-> Idle]
  /\ file = NoFile /\ tmp = NoFile
  /\ marks = 0 /\ crashes = 0
  /\ torn = FALSE /\ raced = {}

Locked == {t \in Task : task[t].pc \in {"locked", "opened", "written"}}

\* The content of the file that descriptor fd is on becomes c.
Put(fd, c) ==
  /\ tmp' = IF fd = "tmp" THEN [exists |-> TRUE, content |-> c] ELSE tmp
  /\ file' = IF fd = "file" THEN [exists |-> TRUE, content |-> c] ELSE file

-----------------------------------------------------------------------------
(***************************************************************************)
(* mark_connected, mark_disconnected and set_uid: a record changes.         *)
(***************************************************************************)
Mark_Anytime(t, n) ==    \* mutant: persist gives up the lock before it writes
  /\ task[t] = Idle /\ marks < MaxMarks
  /\ marks' = marks + 1
  /\ records' = [records EXCEPT ![n] = marks + 1]
  /\ task' = [task EXCEPT ![t].pc = "marked"]
  /\ UNCHANGED <<file, tmp, crashes, torn, raced>>

Mark(t, n) ==
  /\ task[t] = Idle /\ marks < MaxMarks
  /\ Locked = {}
  /\ marks' = marks + 1
  /\ records' = [records EXCEPT ![n] = marks + 1]
  /\ task' = [task EXCEPT ![t].pc = "marked"]
  /\ UNCHANGED <<file, tmp, crashes, torn, raced>>

\* persist: the read lock and the JSON.
Lock(t) ==
  /\ task[t].pc = "marked"
  /\ task' = [task EXCEPT ![t].pc = "locked", ![t].json = records]
  /\ UNCHANGED <<records, file, tmp, marks, crashes, torn, raced>>

\* fs::write: the temporary file is created or truncated ...
Open(t) ==
  /\ task[t].pc = "locked"
  /\ task' = [task EXCEPT ![t].pc = "opened", ![t].fd = "tmp"]
  /\ Put("tmp", Partial)
  /\ UNCHANGED <<records, marks, crashes, torn, raced>>

\* ... and written.
Write(t) ==
  /\ task[t].pc = "opened"
  /\ task' = [task EXCEPT ![t].pc = "written"]
  /\ Put(task[t].fd, task[t].json)
  /\ UNCHANGED <<records, marks, crashes, torn, raced>>

\* The descriptors follow the files: what was on tmp is on the renamed file.
Followed(tasks) ==
  [t \in Task |-> [tasks[t] EXCEPT !.fd = CASE @ = "tmp"  -> "file"
                                            [] @ = "file" -> "gone"
                                            [] OTHER      -> @]]

\* fs::rename, whose error is ignored, and the end of the lock.
Rename(t) ==
  /\ task[t].pc = "written"
  /\ IF tmp.exists
     THEN /\ file' = tmp /\ tmp' = NoFile
          /\ task' = [Followed(task) EXCEPT ![t] = Idle]
          /\ torn' = FALSE
          /\ raced' = (raced \cup {u \in Task : task[u].fd = "tmp"}) \ {t}
     ELSE /\ task' = [task EXCEPT ![t] = Idle]
          /\ raced' = raced \ {t}
          /\ UNCHANGED <<file, tmp, torn>>
  /\ UNCHANGED <<records, marks, crashes>>

\* load: a missing or damaged file is empty.
Load ==
  records' = IF file.exists /\ file.content # Partial THEN file.content ELSE NoRecords

Crash ==
  /\ crashes < MaxCrashes /\ crashes' = crashes + 1
  /\ Load
  /\ task' = [t \in Task |-> Idle]
  /\ torn' = (file.content = Partial)
  /\ raced' = {}
  /\ UNCHANGED <<file, tmp, marks>>

SeenNext ==
  \/ \E t \in Task :
       (\E n \in SeenName : Mark(t, n)) \/ Lock(t) \/ Open(t) \/ Write(t) \/ Rename(t)
  \/ Crash

SeenSpec == SeenInit /\ [][SeenNext]_seenVars

-----------------------------------------------------------------------------
(***************************************************************************)
(* Once no persist is under way the file has every mark, however persists   *)
(* overlapped and whichever of them renamed whose file.                     *)
(***************************************************************************)
MarksAreSaved ==
  (\A t \in Task : task[t] = Idle) => file.content = IF torn THEN Partial ELSE records

(***************************************************************************)
(* "Atomic replace": at every moment the file has all the records of some   *)
(* moment, so that a restart forgets nobody - except while two persists     *)
(* overlap and one has renamed what the other had just truncated, or after  *)
(* a crash at such a moment, until the next persist.                        *)
(***************************************************************************)
FileIsWhole ==
  file.content = Partial => torn \/ \E t \in raced : task[t].pc = "opened"

\* The last-seen file keeps what was marked: the two together.
LastSeenKept == SeenTypeOK /\ MarksAreSaved /\ FileIsWhole
=============================================================================
