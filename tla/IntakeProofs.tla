---------------------------- MODULE IntakeProofs ----------------------------
(***************************************************************************)
(* Proofs about how connections, logins and feeds get in.                   *)
(*                                                                          *)
(* The last-seen file that persists share, for any number of connections,   *)
(* names, marks and crashes.  The limit on failed logins, for any limits    *)
(* and any number of clients, proxies, users and requests.  The listeners,  *)
(* for any feeds, any ports and any number of failures: feeds stay          *)
(* distinct, and when the task waits with no tick pending it has dealt with *)
(* exactly the feeds of now.                                                *)
(***************************************************************************)
EXTENDS SeenStore, AuthLimiter, Feeds, FiniteSetTheorems, TLAPS

\* Most steps are about sets and functions only: Zenon proves them.  The others say SMT.
USE Zenon

(***************************************************************************)
(* The last-seen store.                                                     *)
(***************************************************************************)
File == [exists: BOOLEAN, content: Content]
PC == {"idle", "marked", "locked", "opened", "written"}
Persist == [pc: PC, fd: {"none", "tmp", "file", "gone"}, json: Records]

SeenTypes ==
  /\ records \in Records /\ marks \in 0..MaxMarks /\ crashes \in 0..MaxCrashes
  /\ task \in [Task -> Persist]
  /\ file \in File /\ tmp \in File
  /\ torn \in BOOLEAN
  /\ raced \subseteq Task

\* A task is between the open and the rename, on a file of its own choice
\* no more: others rename what it has open.
HasFd(t)      == task[t].fd # "none"
Opened(t, fd) == task[t].pc = "opened" /\ task[t].fd = fd

\* What persists have still to bring into the file.
Ahead(t) == task[t].pc \in {"marked", "locked"} \/ task[t].fd = "tmp"

TaskInv ==
  \A t \in Task :
    /\ HasFd(t) <=> task[t].pc \in {"opened", "written"}
    /\ t \in Locked => task[t].json = records
    /\ task[t].fd = "tmp" => tmp.exists
    /\ task[t].fd = "file" => t \in raced

\* A temporary file is one of now, if any persist is past its open: the one
\* that a crash left behind is truncated before it can be renamed.
TmpInv ==
  /\ tmp.exists /\ (\E t \in Task : HasFd(t)) => \E t \in Task : task[t].fd = "tmp"
  /\ (\E t \in Task : task[t].fd = "tmp")
       => \/ tmp.content = records
          \/ tmp.content = Partial /\ \E t \in Task : Opened(t, "tmp")

FileInv ==
  /\ ~file.exists => file.content = NoRecords
  /\ torn => /\ file.content = Partial
             /\ \A t \in Task : task[t].fd \in {"none", "tmp"}
  /\ (\E t \in Task : task[t].fd \in {"file", "gone"}) \/ (\A t \in Task : ~Ahead(t))
       => \/ file.content = records
          \/ file.content = Partial /\ (torn \/ \E t \in Task : Opened(t, "file"))

SeenInv == SeenTypes /\ TaskInv /\ TmpInv /\ FileInv

\* The file is damaged only while a persist is about to write it whole.
WholeInv == file.content = Partial => torn \/ \E t \in Task : Opened(t, "file")

-----------------------------------------------------------------------------
LEMMA NoRecordsType == NoRecords \in Records
BY SMT, SeenAssumption DEF NoRecords, Records

LEMMA PartialIsNone == Partial \notin Records
BY SeenAssumption DEF Records

LEMMA SeenInvInit == SeenInit => SeenInv
<1> SUFFICES ASSUME SeenInit
             PROVE  SeenInv
  OBVIOUS
<1>1. NoRecords \in Records
  BY NoRecordsType
<1>2. \A t \in Task : task[t] = Idle
  BY DEF SeenInit
<1>3. Idle.pc = "idle" /\ Idle.fd = "none"
  BY DEF Idle
<1>4. SeenTypes
  <2>1. Idle \in Persist
    BY <1>1 DEF Idle, Persist, PC
  <2>2. NoFile \in File
    BY <1>1 DEF NoFile, File, Content
  <2>3. marks \in 0..MaxMarks /\ crashes \in 0..MaxCrashes
    BY SMT, SeenAssumption DEF SeenInit
  <2> QED
    BY <1>1, <2>1, <2>2, <2>3 DEF SeenInit, SeenTypes
<1>5. TaskInv /\ TmpInv
  BY <1>2, <1>3 DEF SeenInit, TaskInv, TmpInv, HasFd, Locked, NoFile
<1>6. FileInv
  BY <1>2, <1>3 DEF SeenInit, FileInv, NoFile
<1> QED
  BY <1>4, <1>5, <1>6 DEF SeenInv

LEMMA SeenMark ==
  ASSUME SeenInv, NEW t \in Task, NEW n \in SeenName, Mark(t, n)
  PROVE  SeenInv' /\ (WholeInv => WholeInv')
<1> USE DEF SeenInv
<1>1. SeenTypes'
  <2>1. records' \in Records /\ marks' \in 0..MaxMarks
    BY SMT, SeenAssumption DEF SeenTypes, Mark, Records
  <2>2. task' \in [Task -> Persist]
    BY DEF SeenTypes, Mark, Persist, PC
  <2> QED
    BY <2>1, <2>2 DEF SeenTypes, Mark
<1>2. /\ \A u \in Task : task'[u].fd = task[u].fd
      /\ \A u \in Task : u # t => task'[u].pc = task[u].pc
      /\ task[t].pc = "idle" /\ task'[t].pc = "marked"
      /\ UNCHANGED <<file, tmp, torn, raced>>
  BY SMT DEF Mark, SeenTypes, Persist, Idle
<1>3. \A u \in Task : u \notin Locked /\ ~HasFd(u) /\ task[u].pc \notin {"locked", "opened", "written"}
  BY DEF Mark, Locked, TaskInv
<1>4. TaskInv'
  BY <1>2, <1>3 DEF TaskInv, HasFd, Locked
<1>5. TmpInv'
  BY <1>2, <1>3 DEF TmpInv, HasFd
<1>6. FileInv'
  BY <1>2, <1>3 DEF FileInv, HasFd, Ahead
<1>7. WholeInv => WholeInv'
  BY <1>2, <1>3 DEF WholeInv, Opened
<1> QED
  BY <1>1, <1>4, <1>5, <1>6, <1>7

LEMMA SeenLock ==
  ASSUME SeenInv, NEW t \in Task, Lock(t)
  PROVE  SeenInv' /\ (WholeInv => WholeInv')
<1> USE DEF SeenInv
<1>1. SeenTypes'
  <2>1. task' \in [Task -> Persist]
    <3> DEFINE q == [task[t] EXCEPT !.pc = "locked", !.json = records]
    <3>1. task[t] \in Persist /\ records \in Records /\ task \in [Task -> Persist]
      BY DEF SeenTypes
    <3>2. q \in Persist
      BY <3>1 DEF Persist, PC
    <3>3. task' = [task EXCEPT ![t] = q]
      BY DEF Lock
    <3> HIDE DEF q
    <3> QED BY <3>1, <3>2, <3>3
  <2> QED
    BY <2>1 DEF SeenTypes, Lock
<1>2. /\ \A u \in Task : task'[u].fd = task[u].fd
      /\ \A u \in Task : u # t => task'[u].pc = task[u].pc /\ task'[u].json = task[u].json
      /\ task[t].pc = "marked" /\ task'[t].pc = "locked" /\ task'[t].json = records
      /\ UNCHANGED <<records, file, tmp, torn, raced>>
  BY DEF Lock, SeenTypes, Persist
<1>3. TaskInv'
  BY SMT, <1>2 DEF TaskInv, HasFd, Locked
<1>4. TmpInv'
  BY SMT, <1>2 DEF TmpInv, HasFd, Opened
<1>5. FileInv'
  BY <1>2 DEF FileInv, Ahead, Opened
<1>6. WholeInv => WholeInv'
  BY <1>2 DEF WholeInv, Opened
<1> QED
  BY <1>1, <1>3, <1>4, <1>5, <1>6

LEMMA SeenOpen ==
  ASSUME SeenInv, NEW t \in Task, Open(t)
  PROVE  SeenInv' /\ (WholeInv => WholeInv')
<1> USE DEF SeenInv
<1>0. tmp' = [exists |-> TRUE, content |-> Partial] /\ UNCHANGED <<records, file, torn, raced>>
  BY DEF Open, Put
<1>1. SeenTypes'
  <2>1. [exists |-> TRUE, content |-> Partial] \in File
    BY DEF File, Content
  <2>2. task' \in [Task -> Persist]
    <3> DEFINE q == [task[t] EXCEPT !.pc = "opened", !.fd = "tmp"]
    <3>1. task[t] \in Persist /\ task \in [Task -> Persist]
      BY DEF SeenTypes
    <3>2. q \in Persist
      BY <3>1 DEF Persist, PC
    <3>3. task' = [task EXCEPT ![t] = q]
      BY DEF Open
    <3> HIDE DEF q
    <3> QED BY <3>1, <3>2, <3>3
  <2> QED
    BY <1>0, <2>1, <2>2 DEF SeenTypes, Open
<1>2. /\ \A u \in Task : /\ task'[u].json = task[u].json
                         /\ u # t => task'[u].pc = task[u].pc /\ task'[u].fd = task[u].fd
      /\ task[t].pc = "locked" /\ task'[t].pc = "opened" /\ task'[t].fd = "tmp"
  BY DEF Open, SeenTypes, Persist
<1>3. TaskInv'
  BY SMT, <1>0, <1>2 DEF TaskInv, HasFd, Locked
<1>4. TmpInv'
  BY <1>0, <1>2 DEF TmpInv, HasFd, Opened
<1>5. FileInv'
  BY SMT, <1>0, <1>2 DEF FileInv, Ahead, Opened, TaskInv, HasFd
<1>6. WholeInv => WholeInv'
  BY <1>0, <1>2 DEF WholeInv, Opened
<1> QED
  BY <1>1, <1>3, <1>4, <1>5, <1>6

LEMMA SeenWrite ==
  ASSUME SeenInv, NEW t \in Task, Write(t)
  PROVE  SeenInv' /\ (WholeInv => WholeInv')
<1> USE DEF SeenInv
<1>0. /\ task[t].pc = "opened" /\ task[t].json = records
      /\ UNCHANGED <<records, torn, raced>>
  BY DEF Write, TaskInv, Locked
<1>1. /\ task[t].fd = "tmp" => tmp' = [exists |-> TRUE, content |-> records] /\ file' = file
      /\ task[t].fd = "file" => file' = [exists |-> TRUE, content |-> records] /\ tmp' = tmp
      /\ task[t].fd = "gone" => tmp' = tmp /\ file' = file
      /\ task[t].fd \in {"tmp", "file", "gone"}
  BY <1>0 DEF Write, Put, SeenTypes, Persist, TaskInv, HasFd
<1>2. SeenTypes'
  <2>1. [exists |-> TRUE, content |-> records] \in File
    BY DEF SeenTypes, File, Content
  <2>2. file' \in File /\ tmp' \in File
    BY <1>1, <2>1 DEF SeenTypes
  <2>3. task' \in [Task -> Persist]
    BY DEF SeenTypes, Write, Persist, PC
  <2> QED
    BY <1>0, <2>2, <2>3 DEF SeenTypes, Write
<1>3. /\ \A u \in Task : /\ task'[u].json = task[u].json /\ task'[u].fd = task[u].fd
                         /\ u # t => task'[u].pc = task[u].pc
      /\ task'[t].pc = "written"
  BY DEF Write, SeenTypes, Persist
<1>4. TaskInv'
  BY SMT, <1>0, <1>1, <1>3 DEF TaskInv, HasFd, Locked
<1>5. TmpInv'
  BY SMT, <1>0, <1>1, <1>3 DEF TmpInv, HasFd, Opened
<1>6. FileInv'
  BY SMT, <1>0, <1>1, <1>3 DEF FileInv, Ahead, Opened
<1>7. WholeInv => WholeInv'
  BY SMT, <1>0, <1>1, <1>3, PartialIsNone DEF WholeInv, Opened, SeenTypes
<1> QED
  BY <1>2, <1>4, <1>5, <1>6, <1>7

LEMMA SeenRename ==
  ASSUME SeenInv, NEW t \in Task, Rename(t)
  PROVE  SeenInv' /\ (WholeInv => WholeInv')
<1> USE DEF SeenInv
<1>0. task[t].pc = "written" /\ HasFd(t) /\ UNCHANGED <<records, marks, crashes>>
  BY DEF Rename, TaskInv
<1>1. Idle \in Persist
      /\ Idle.pc = "idle" /\ Idle.fd = "none"
  BY NoRecordsType DEF Idle, Persist, PC
<1>2. CASE tmp.exists
  <2>1. /\ file' = tmp /\ tmp' = NoFile /\ torn' = FALSE
        /\ task' = [Followed(task) EXCEPT ![t] = Idle]
        /\ raced' = (raced \cup {u \in Task : task[u].fd = "tmp"}) \ {t}
    BY <1>2 DEF Rename
  <2>2. /\ task'[t].pc = "idle" /\ task'[t].fd = "none"
        /\ \A u \in Task : u # t =>
             /\ task'[u].pc = task[u].pc /\ task'[u].json = task[u].json
             /\ task[u].fd = "tmp" => task'[u].fd = "file"
             /\ task[u].fd = "file" => task'[u].fd = "gone"
             /\ task[u].fd \in {"none", "gone"} => task'[u].fd = task[u].fd
    BY <1>1, <2>1 DEF Followed, SeenTypes, Persist
  <2>3. SeenTypes'
    <3>1. Followed(task) \in [Task -> Persist]
      BY DEF Followed, SeenTypes, Persist
    <3>2. task' \in [Task -> Persist]
      BY <1>1, <2>1, <3>1
    <3>3. NoFile \in File
      BY NoRecordsType DEF NoFile, File, Content
    <3> QED
      BY <1>0, <2>1, <3>2, <3>3 DEF SeenTypes
  <2>4. tmp.content = records \/ (tmp.content = Partial /\ \E u \in Task : Opened(u, "tmp"))
    BY <1>0, <1>2 DEF TmpInv
  <2>5. TaskInv'
    BY SMT, <1>0, <2>1, <2>2 DEF TaskInv, HasFd, Locked, SeenTypes, Persist
  <2>6. TmpInv'
    BY SMT, <2>1, <2>2 DEF TmpInv, NoFile, SeenTypes, Persist
  <2>7. file'.content = records' \/ (file'.content = Partial /\ \E u \in Task : Opened(u, "file")')
    BY SMT, <1>0, <2>1, <2>2, <2>4 DEF Opened
  <2>8. FileInv'
    BY <1>2, <2>1, <2>7 DEF FileInv
  <2>9. WholeInv'
    BY <1>0, <2>7, PartialIsNone DEF WholeInv, SeenTypes
  <2> QED
    BY <2>3, <2>5, <2>6, <2>8, <2>9
<1>3. CASE ~tmp.exists
  <2>1. /\ UNCHANGED <<file, tmp, torn>>
        /\ task' = [task EXCEPT ![t] = Idle]
        /\ raced' = raced \ {t}
    BY <1>3 DEF Rename
  <2>2. /\ task'[t].pc = "idle" /\ task'[t].fd = "none"
        /\ \A u \in Task : u # t => task'[u] = task[u]
    BY <1>1, <2>1 DEF SeenTypes
  <2>3. SeenTypes'
    BY <1>0, <1>1, <2>1 DEF SeenTypes
  <2>4. TaskInv'
    BY SMT, <1>0, <2>1, <2>2 DEF TaskInv, HasFd, Locked
  <2>5. TmpInv'
    BY <1>3, <2>1, <2>2 DEF TmpInv, TaskInv
  <2>6. ~Ahead(t)
    BY <1>0, <1>3 DEF Ahead, TaskInv
  <2>7. FileInv'
    BY <1>0, <2>1, <2>2, <2>6 DEF FileInv, Ahead, Opened
  <2>8. WholeInv => WholeInv'
    BY <1>0, <2>1, <2>2 DEF WholeInv, Opened
  <2> QED
    BY <2>3, <2>4, <2>5, <2>7, <2>8
<1> QED
  BY <1>2, <1>3

LEMMA SeenCrash ==
  ASSUME SeenInv, Crash
  PROVE  SeenInv' /\ WholeInv'
<1> USE DEF SeenInv
<1>1. Idle \in Persist
      /\ Idle.pc = "idle" /\ Idle.fd = "none" /\ NoRecords \in Records
  BY NoRecordsType DEF Idle, Persist, PC
<1>2. /\ UNCHANGED <<file, tmp, marks>> /\ torn' = (file.content = Partial)
      /\ task' = [u \in Task |-> Idle] /\ raced' = {}
      /\ records' = IF file.exists /\ file.content # Partial THEN file.content ELSE NoRecords
  BY DEF Crash, Load
<1>3. \A u \in Task : task'[u].pc = "idle" /\ task'[u].fd = "none"
  BY <1>1, <1>2
<1>4. torn' \in BOOLEAN /\ (torn' <=> file.content = Partial)
  BY <1>2
<1>5. SeenTypes'
  <2>1. crashes' \in 0..MaxCrashes
    BY SMT, SeenAssumption DEF SeenTypes, Crash
  <2>2. records' \in Records
    BY <1>1, <1>2 DEF SeenTypes, File, Content
  <2> QED
    BY <1>1, <1>2, <1>4, <2>1, <2>2 DEF SeenTypes
<1>6. TaskInv' /\ TmpInv'
  BY <1>3 DEF TaskInv, TmpInv, HasFd, Locked
<1>7. file.content # Partial => file.content = records'
  BY <1>2 DEF FileInv
<1>8. FileInv'
  BY <1>2, <1>3, <1>4, <1>7 DEF FileInv
<1>9. WholeInv'
  BY <1>2, <1>4 DEF WholeInv
<1> QED
  BY <1>5, <1>6, <1>8, <1>9

LEMMA SeenInvNext ==
  ASSUME SeenInv, [SeenNext]_seenVars
  PROVE  SeenInv' /\ (WholeInv => WholeInv')
<1>1. CASE UNCHANGED seenVars
  <2>1. SeenInv'
    BY <1>1 DEF seenVars, SeenInv, SeenTypes, TaskInv, TmpInv, FileInv, HasFd, Opened, Ahead, Locked
  <2>2. WholeInv => WholeInv'
    BY <1>1 DEF seenVars, WholeInv, Opened
  <2> QED
    BY <2>1, <2>2
<1> QED
  BY <1>1, SeenMark, SeenLock, SeenOpen, SeenWrite, SeenRename, SeenCrash DEF SeenNext

-----------------------------------------------------------------------------
(***************************************************************************)
(* Once no persist is under way the file has every mark, however many       *)
(* persists shared the temporary file and whichever renamed whose.          *)
(***************************************************************************)
THEOREM MarksAreSavedAlways == SeenSpec => []MarksAreSaved
<1>1. SeenInv => MarksAreSaved
  <2> SUFFICES ASSUME SeenInv, \A t \in Task : task[t] = Idle
               PROVE  file.content = IF torn THEN Partial ELSE records
    BY DEF MarksAreSaved
  <2>1. \A t \in Task : task[t].pc = "idle" /\ task[t].fd = "none"
    BY SMT DEF Idle
  <2> QED
    BY <2>1 DEF SeenInv, FileInv, Ahead, Opened
<1>2. SeenInv /\ [SeenNext]_seenVars => SeenInv'
  BY SeenInvNext
<1> QED
  BY <1>1, <1>2, SeenInvInit, PTL DEF SeenSpec

(***************************************************************************)
(* persist's "atomic replace", with its exception: the file is damaged only *)
(* while a persist whose temporary file another one renamed is about to     *)
(* write it, or after a crash at such a moment.                             *)
(***************************************************************************)
THEOREM FileIsWholeAlways == SeenSpec => []FileIsWhole
<1>1. SeenInit => SeenInv /\ WholeInv
  <2>1. SeenInit => WholeInv
    BY SMT, PartialIsNone, NoRecordsType DEF SeenInit, WholeInv, NoFile
  <2> QED
    BY <2>1, SeenInvInit
<1>2. SeenInv /\ WholeInv /\ [SeenNext]_seenVars => (SeenInv /\ WholeInv)'
  BY SeenInvNext
<1>3. SeenInv /\ WholeInv => FileIsWhole
  BY DEF SeenInv, WholeInv, TaskInv, FileIsWhole, Opened
<1> QED
  BY <1>1, <1>2, <1>3, PTL DEF SeenSpec

(***************************************************************************)
(* The last-seen file keeps what was marked, whatever the overlaps of       *)
(* persist, and all of the above is well-formed throughout.                 *)
(***************************************************************************)
THEOREM LastSeenKeptAlways == SeenSpec => []LastSeenKept
<1>1. SeenInv => SeenTypeOK
  BY DEF SeenInv, SeenTypes, SeenTypeOK, File, Persist, PC
<1>2. SeenInv /\ [SeenNext]_seenVars => SeenInv'
  BY SeenInvNext
<1>3. SeenSpec => []SeenTypeOK
  BY <1>1, <1>2, SeenInvInit, PTL DEF SeenSpec
<1> QED
  BY <1>3, MarksAreSavedAlways, FileIsWholeAlways, PTL DEF LastSeenKept

-----------------------------------------------------------------------------
(***************************************************************************)
(* The limiter of failed logins.                                            *)
(***************************************************************************)
Login == [pc: {"idle", "queued", "checking", "failed", "counted"},
          client: Client, ip: Client, user: User]

\* Entries are never of the future.
Table ==
  /\ DOMAIN failures \subseteq Key
  /\ \A k \in DOMAIN failures :
       /\ failures[k] \in [start: Nat, count: Nat]
       /\ failures[k].start <= now

LimiterTypes ==
  /\ now \in Nat
  /\ login \in [Request -> Login]
  /\ Table

-----------------------------------------------------------------------------
LEMMA LimitNumbers ==
  /\ max_failures \in Nat /\ max_failures >= 1 /\ window \in Nat /\ MaxTime \in Nat
  /\ max_tracked_keys \in Nat /\ concurrent_password_checks \in Nat
BY SMT, LimiterAssumption

LEMMA BlankType ==
  Blank \in Login /\ Blank.pc = "idle" /\ Blank.ip = Blank.client
BY SMT, LimiterAssumption DEF Blank, Login

LEMMA ForgedSeq == \A h \in Forged : h \in Seq(Client)
<1>1. << >> \in Seq(Client)
  BY SMT
<1>2. ASSUME NEW a \in Client
      PROVE  <<a>> \in Seq(Client)
  BY SMT
<1> QED
  BY <1>1, <1>2 DEF Forged

(***************************************************************************)
(* client_ip: the address that the outermost trusted proxy was called from, *)
(* whatever stands to the left of it.                                       *)
(***************************************************************************)
LEMMA ClientIpIsClient ==
  ASSUME NEW c \in Client, NEW h \in Seq(Client), NEW r \in Routes(c, h)
  PROVE  ClientIp(r.peer, r.forwarded) = c
<1> DEFINE f == r.forwarded
           others == {i \in DOMAIN f : f[i] \notin Proxy}
           n == Len(h) + 1
<1>1. c \notin Proxy
  BY LimiterAssumption
<1>2. CASE r = [peer |-> c, forwarded |-> h]
  BY <1>1, <1>2 DEF ClientIp
<1>3. ASSUME r.peer \in Proxy, n \in DOMAIN f, f[n] = c, DOMAIN f \subseteq Nat,
             \A i \in DOMAIN f : i > n => f[i] \in Proxy
      PROVE  ClientIp(r.peer, r.forwarded) = c
  <2>1. n \in others /\ (\A j \in others : j <= n) /\ n \in Nat
    BY SMT, <1>1, <1>3
  <2>2. \A i \in others : (\A j \in others : j <= i) => i = n
    BY SMT, <1>3, <2>1
  <2>3. (CHOOSE i \in others : \A j \in others : j <= i) = n
    BY <2>1, <2>2
  <2> QED
    BY <1>3, <2>1, <2>3 DEF ClientIp
<1>4. ASSUME NEW p \in Proxy, r = [peer |-> p, forwarded |-> Append(h, c)]
      PROVE  ClientIp(r.peer, r.forwarded) = c
  <2>1. f = Append(h, c) /\ h \in Seq(Client \cup Proxy) /\ c \in Client \cup Proxy
    BY SMT, <1>4
  <2>2. DOMAIN f = 1..n /\ f[n] = c /\ n \in Nat /\ n >= 1
    BY SMT, <2>1
  <2> QED
    BY SMT, <1>3, <1>4, <2>2
<1>5. ASSUME NEW p \in Proxy, NEW q \in Proxy, r = [peer |-> p, forwarded |-> h \o <<c, q>>]
      PROVE  ClientIp(r.peer, r.forwarded) = c
  <2>1. f = h \o <<c, q>> /\ h \in Seq(Client \cup Proxy) /\ <<c, q>> \in Seq(Client \cup Proxy)
    BY SMT, <1>5
  <2>2. DOMAIN f = 1..(n + 1) /\ f[n] = c /\ f[n + 1] = q /\ n \in Nat /\ n >= 1
    BY SMT, <2>1
  <2>3. /\ r.peer \in Proxy /\ n \in DOMAIN f /\ DOMAIN f \subseteq Nat
        /\ \A i \in DOMAIN f : i > n => f[i] \in Proxy
    <3>1. \A i \in DOMAIN f : i > n => i = n + 1
      BY SMT, <2>2
    <3> HIDE DEF f, n
    <3> QED
      BY SMT, <1>5, <2>2, <3>1
  <2> HIDE DEF f, n
  <2> QED
    BY <1>3, <2>2, <2>3
<1>6. \/ r = [peer |-> c, forwarded |-> h]
      \/ \E p \in Proxy : r = [peer |-> p, forwarded |-> Append(h, c)]
      \/ \E p, q \in Proxy : r = [peer |-> p, forwarded |-> h \o <<c, q>>]
  BY DEF Routes
<1> QED
  BY <1>2, <1>4, <1>5, <1>6

(***************************************************************************)
(* record_failure_at for key k: an entry of k that is live counts on, no    *)
(* other live entry changes or goes, and a new entry is of now.             *)
(***************************************************************************)
LEMMA RecordFailureFacts ==
  ASSUME now \in Nat, Table, NEW k \in Key, RecordFailure(k), now' = now
  PROVE  /\ Table'
         /\ \A j \in Key : j # k /\ Live(j) => j \in DOMAIN failures' /\ failures'[j] = failures[j]
         /\ \A j \in Key : j # k /\ Live(j)' => Live(j) /\ failures'[j] = failures[j]
         /\ Live(k) => k \in DOMAIN failures' /\ failures'[k].start = failures[k].start
                       /\ failures'[k].count = failures[k].count + 1
         /\ Live(k)' /\ ~Live(k) => failures'[k].count = 1
<1> DEFINE full(ks) == k \notin DOMAIN failures /\ Cardinality(ks) >= max_tracked_keys
           kept == IF full(DOMAIN failures) THEN {j \in DOMAIN failures : Live(j)}
                   ELSE DOMAIN failures
           entry == IF Live(k) THEN [failures[k] EXCEPT !.count = @ + 1]
                    ELSE [start |-> now, count |-> 1]
<1>1. failures' = IF full(kept) THEN Restrict(failures, kept)
                  ELSE [j \in kept \cup {k} |-> IF j = k THEN entry ELSE failures[j]]
  BY DEF RecordFailure
<1>2. kept \subseteq DOMAIN failures /\ \A j \in DOMAIN failures : Live(j) => j \in kept
  OBVIOUS
<1>3. /\ entry \in [start: Nat, count: Nat] /\ entry.start <= now
      /\ Live(k) => entry.start = failures[k].start /\ entry.count = failures[k].count + 1
      /\ ~Live(k) => entry.count = 1
  BY SMT DEF Table, Live
<1>4. full(kept) => k \notin DOMAIN failures
  OBVIOUS
<1> HIDE DEF entry, kept, full
<1>5. CASE full(kept)
  BY <1>1, <1>2, <1>4, <1>5 DEF Restrict, Table, Live
<1>6. CASE ~full(kept)
  <2>1. failures' = [j \in kept \cup {k} |-> IF j = k THEN entry ELSE failures[j]]
    BY <1>1, <1>6
  <2>2. /\ DOMAIN failures' = kept \cup {k} /\ failures'[k] = entry
        /\ \A j \in kept : j # k => failures'[j] = failures[j]
    BY <2>1
  <2>3. Table'
    BY <1>2, <1>3, <2>2 DEF Table
  <2> QED
    BY <1>2, <1>3, <2>2, <2>3 DEF Live
<1> QED
  BY <1>5, <1>6

-----------------------------------------------------------------------------
LEMMA LimiterTypesInit ==
  ASSUME LimiterInit
  PROVE  LimiterTypes /\ CountsForClient
BY SMT, BlankType DEF LimiterInit, LimiterTypes, Table, CountsForClient

LEMMA LimiterTypesNext ==
  ASSUME LimiterTypes, CountsForClient, [LimiterNext]_loginVars
  PROVE  LimiterTypes' /\ CountsForClient'
<1>1. ASSUME NEW t \in Request, NEW c \in Client, NEW u \in User, Ask(t, c, u)
      PROVE  LimiterTypes' /\ CountsForClient'
  <2>1. PICK h \in Forged : \E r \in Routes(c, h) :
          login' = [login EXCEPT ![t] = [pc |-> "queued", client |-> c,
                                         ip |-> ClientIp(r.peer, r.forwarded), user |-> u]]
    BY <1>1 DEF Ask
  <2>2. h \in Seq(Client)
    BY ForgedSeq
  <2>3. login' = [login EXCEPT ![t] = [pc |-> "queued", client |-> c, ip |-> c, user |-> u]]
    BY <2>1, <2>2, ClientIpIsClient
  <2>4. UNCHANGED <<now, failures>>
    BY <1>1 DEF Ask
  <2> QED
    BY <2>3, <2>4 DEF LimiterTypes, Table, Login, CountsForClient
<1>2. ASSUME NEW t \in Request, Acquire(t) \/ Checked(t) \/ Cancel(t)
      PROVE  LimiterTypes' /\ CountsForClient'
  <2>1. /\ UNCHANGED <<now, failures>>
        /\ \/ login' = [login EXCEPT ![t] = Blank]
           \/ /\ login[t].pc # "idle"
              /\ \E p \in {"checking", "failed"} : login' = [login EXCEPT ![t].pc = p]
    BY <1>2 DEF Acquire, Checked, Cancel
  <2> QED
    BY SMT, <2>1, BlankType DEF LimiterTypes, Table, Login, CountsForClient
<1>3. ASSUME NEW t \in Request, Count(t)
      PROVE  LimiterTypes' /\ CountsForClient'
  <2>1. \E k \in Key : RecordFailure(k)
    BY <1>3 DEF Count, LimiterTypes, Login, Key
  <2>2. now' = now
    BY <1>3 DEF Count
  <2>3. Table'
    BY <2>1, <2>2, RecordFailureFacts DEF LimiterTypes
  <2>4. \/ login' = [login EXCEPT ![t] = Blank]
        \/ login[t].pc # "idle" /\ login' = [login EXCEPT ![t].pc = "counted"]
    BY <1>3 DEF Count
  <2> QED
    BY SMT, <2>2, <2>3, <2>4, BlankType DEF LimiterTypes, Login, CountsForClient
<1>4. CASE Tick
  <2>1. now' = now + 1 /\ UNCHANGED <<failures, login>>
    BY <1>4 DEF Tick
  <2>2. now' \in Nat /\ now <= now' /\ login' \in [Request -> Login]
    BY SMT, <2>1 DEF LimiterTypes
  <2>3. ASSUME NEW k \in DOMAIN failures
        PROVE  failures[k] \in [start: Nat, count: Nat] /\ failures[k].start <= now'
    <3>1. failures[k] \in [start: Nat, count: Nat] /\ failures[k].start <= now /\ now \in Nat
      BY DEF LimiterTypes, Table
    <3> QED
      BY SMT, <2>2, <3>1
  <2>4. Table'
    BY <2>1, <2>3 DEF LimiterTypes, Table
  <2> QED
    BY <2>1, <2>2, <2>4 DEF LimiterTypes, CountsForClient
<1>5. CASE UNCHANGED loginVars
  BY <1>5 DEF loginVars, LimiterTypes, Table, CountsForClient
<1> QED
  BY <1>1, <1>2, <1>3, <1>4, <1>5 DEF LimiterNext

-----------------------------------------------------------------------------
(***************************************************************************)
(* The requests that have passed the check of key k and can still count a   *)
(* failure for it.  FailuresBounded is not inductive without them: each     *)
(* uses up a place that the bound has for it.                               *)
(***************************************************************************)
Undecided == {"queued", "checking", "failed"}

Pending(k) ==
  {t \in Request : \/ login[t].pc \in Undecided /\ k \in {login[t].ip, login[t].user}
                   \/ login[t].pc = "counted" /\ k = login[t].user}

Room(k) == failures[k].count + Cardinality(Pending(k)) <= max_failures - 1 + Cardinality(Request)

BoundInv == \A k \in Key : Live(k) => Room(k)

LEMMA SumKept ==
  ASSUME NEW n \in Nat, NEW p \in Nat, NEW q \in Nat, q <= p,
         NEW m \in Nat, NEW r \in Nat, n + p <= m - 1 + r
  PROVE  n + q <= m - 1 + r
BY SMT

LEMMA SumMoved ==
  ASSUME NEW n \in Nat, NEW p \in Nat, NEW q \in Nat, q <= p - 1,
         NEW m \in Nat, NEW r \in Nat, n + p <= m - 1 + r
  PROVE  n + 1 + q <= m - 1 + r
BY SMT

LEMMA SumFits ==
  ASSUME NEW n \in Nat, NEW m \in Nat, n <= m, NEW q \in Nat, NEW r \in Nat, q <= r - 1
  PROVE  n + q <= m - 1 + r
BY SMT

LEMMA SumJoins ==
  ASSUME NEW n \in Nat, NEW m \in Nat, n <= m - 1, NEW q \in Nat, NEW r \in Nat, q <= r
  PROVE  n + q <= m - 1 + r
BY SMT

LEMMA PendingFacts ==
  ASSUME NEW k
  PROVE  /\ IsFiniteSet(Pending(k)) /\ Cardinality(Pending(k)) \in Nat
         /\ Cardinality(Request) \in Nat /\ Cardinality(Pending(k)) <= Cardinality(Request)
<1>1. Pending(k) \in SUBSET Request
  BY DEF Pending
<1> QED
  BY <1>1, FS_Subset, FS_CardinalityType, LimiterAssumption

\* What does not add to the requests that are pending, or to the failures of
\* a key, leaves it its room.
LEMMA RoomKept ==
  ASSUME LimiterTypes, NEW k \in Key, Live(k), Room(k),
         IsFiniteSet(Pending(k)), Pending(k)' \subseteq Pending(k), failures'[k] = failures[k]
  PROVE  Room(k)'
<1>1. Cardinality(Pending(k)') <= Cardinality(Pending(k)) /\ Cardinality(Pending(k)') \in Nat
  BY FS_Subset, FS_CardinalityType
<1>2. failures[k].count \in Nat /\ Cardinality(Pending(k)) \in Nat /\ Cardinality(Request) \in Nat
  BY PendingFacts DEF LimiterTypes, Table, Live
<1> QED
  BY <1>1, <1>2, LimitNumbers, SumKept DEF Room

LEMMA BoundInit ==
  ASSUME LimiterInit
  PROVE  BoundInv
BY SMT DEF LimiterInit, BoundInv, Live

LEMMA BoundCount ==
  ASSUME LimiterTypes, BoundInv, NEW t \in Request, Count(t)
  PROVE  BoundInv'
<1>1. login[t] \in Login /\ login[t].ip # login[t].user
  BY LimiterAssumption DEF LimiterTypes, Login
<1>2. PICK k \in Key :
        /\ RecordFailure(k) /\ t \in Pending(k)
        /\ \A j \in Key : Pending(j)' \subseteq Pending(j)
        /\ t \notin Pending(k)'
  <2>1. CASE login[t].pc = "failed"
    <3>1. /\ RecordFailure(login[t].ip) /\ login[t].ip \in Key
          /\ login' = [login EXCEPT ![t].pc = "counted"]
      BY <1>1, <2>1 DEF Count, Login, Key
    <3>2. /\ login'[t].pc = "counted" /\ login'[t].ip = login[t].ip /\ login'[t].user = login[t].user
          /\ \A u \in Request : u # t => login'[u] = login[u]
      BY <3>1 DEF LimiterTypes, Login
    <3> QED
      BY SMT, <1>1, <2>1, <3>1, <3>2 DEF Pending, Undecided
  <2>2. CASE login[t].pc = "counted"
    <3>1. /\ RecordFailure(login[t].user) /\ login[t].user \in Key
          /\ login' = [login EXCEPT ![t] = Blank]
      BY <1>1, <2>2 DEF Count, Login, Key
    <3>2. login'[t].pc = "idle" /\ \A u \in Request : u # t => login'[u] = login[u]
      BY <3>1, BlankType DEF LimiterTypes
    <3> QED
      BY <1>1, <2>2, <3>1, <3>2 DEF Pending, Undecided
  <2> QED
    BY <2>1, <2>2 DEF Count
<1>3. now' = now
  BY DEF Count
<1>4. /\ \A j \in Key : j # k /\ Live(j)' => Live(j) /\ failures'[j] = failures[j]
      /\ Live(k) => failures'[k].count = failures[k].count + 1
      /\ Live(k)' /\ ~Live(k) => failures'[k].count = 1
  BY <1>2, <1>3, RecordFailureFacts DEF LimiterTypes
<1>5. ASSUME NEW j \in Key, j # k, Live(j)'
      PROVE  Room(j)'
  BY <1>2, <1>4, <1>5, RoomKept, PendingFacts DEF BoundInv
<1>6. ASSUME Live(k)'
      PROVE  Room(k)'
  <2>1. Pending(k)' \in SUBSET (Pending(k) \ {t}) /\ Pending(k)' \in SUBSET (Request \ {t})
    BY <1>2 DEF Pending
  <2>2. /\ IsFiniteSet(Pending(k)) /\ Cardinality(Pending(k)) \in Nat
        /\ IsFiniteSet(Request) /\ Cardinality(Request) \in Nat
    BY PendingFacts, LimiterAssumption
  <2>3. /\ IsFiniteSet(Pending(k) \ {t})
        /\ Cardinality(Pending(k) \ {t}) = Cardinality(Pending(k)) - 1
        /\ IsFiniteSet(Request \ {t})
        /\ Cardinality(Request \ {t}) = Cardinality(Request) - 1
    BY <1>2, <2>2, FS_RemoveElement
  <2>4. /\ Cardinality(Pending(k)') \in Nat
        /\ Cardinality(Pending(k)') <= Cardinality(Pending(k)) - 1
        /\ Cardinality(Pending(k)') <= Cardinality(Request) - 1
    BY SMT, <2>1, <2>3, FS_Subset, FS_CardinalityType
  <2>5. CASE Live(k)
    <3>1. Room(k) /\ failures[k].count \in Nat
      BY <2>5 DEF BoundInv, LimiterTypes, Table, Live
    <3>2. failures'[k].count = failures[k].count + 1
      BY <1>4, <2>5
    <3>3. failures[k].count + Cardinality(Pending(k)) <= max_failures - 1 + Cardinality(Request)
      BY <3>1 DEF Room
    <3>4. failures[k].count + 1 + Cardinality(Pending(k)') <= max_failures - 1 + Cardinality(Request)
      BY <2>2, <2>4, <3>1, <3>3, LimitNumbers, SumMoved
    <3> QED
      BY <3>2, <3>4 DEF Room
  <2>6. CASE ~Live(k)
    <3>1. failures'[k].count = 1
      BY <1>4, <1>6, <2>6
    <3>2. 1 + Cardinality(Pending(k)') <= max_failures - 1 + Cardinality(Request)
      BY <2>2, <2>4, LimitNumbers, SumFits
    <3> QED
      BY <3>1, <3>2 DEF Room
  <2> QED
    BY <2>5, <2>6
<1> QED
  BY <1>5, <1>6 DEF BoundInv

LEMMA BoundNext ==
  ASSUME LimiterTypes, BoundInv, [LimiterNext]_loginVars
  PROVE  BoundInv'
<1>0. \A k \in Key : Live(k) => Room(k) /\ IsFiniteSet(Pending(k)) /\ failures[k].count \in Nat
  BY PendingFacts DEF BoundInv, LimiterTypes, Table, Live
<1>1. ASSUME NEW t \in Request, NEW c \in Client, NEW u \in User, Ask(t, c, u)
      PROVE  BoundInv'
  <2>1. PICK h \in Forged : \E r \in Routes(c, h) :
          LET ip == ClientIp(r.peer, r.forwarded)
          IN  /\ ~IsBlocked(ip) /\ ~IsBlocked(u)
              /\ login' = [login EXCEPT ![t] = [pc |-> "queued", client |-> c,
                                                ip |-> ip, user |-> u]]
    BY <1>1 DEF Ask
  <2>2. h \in Seq(Client)
    BY ForgedSeq
  <2>3. /\ ~IsBlocked(c) /\ ~IsBlocked(u)
        /\ login' = [login EXCEPT ![t] = [pc |-> "queued", client |-> c, ip |-> c, user |-> u]]
    BY <2>1, <2>2, ClientIpIsClient
  <2>4. UNCHANGED <<now, failures>> /\ login[t].pc = "idle"
    BY <1>1 DEF Ask
  <2>5. login'[t].ip = c /\ login'[t].user = u /\ \A v \in Request : v # t => login'[v] = login[v]
    BY <2>3 DEF LimiterTypes
  <2>6. ASSUME NEW k \in Key, Live(k)
        PROVE  Room(k)'
    <3>1. CASE k \in {c, u}
      <4>1. failures[k].count <= max_failures - 1 /\ failures[k].count \in Nat
        <5>1. ~IsBlocked(k)
          BY <2>3, <3>1
        <5>2. ~(failures[k].count >= max_failures)
          BY <2>6, <5>1 DEF IsBlocked
        <5>3. failures[k].count \in Nat
          BY <1>0, <2>6
        <5> QED
          BY SMT, <5>2, <5>3, LimitNumbers
      <4>2. /\ Pending(k)' \in SUBSET Request
            /\ Cardinality(Pending(k)') \in Nat /\ Cardinality(Request) \in Nat
            /\ Cardinality(Pending(k)') <= Cardinality(Request)
        <5>1. Pending(k)' \in SUBSET Request
          BY DEF Pending
        <5> QED
          BY <5>1, FS_Subset, FS_CardinalityType, LimiterAssumption
      <4> QED
        BY <2>4, <4>1, <4>2, LimitNumbers, SumJoins DEF Room
    <3>2. CASE k \notin {c, u}
      <4>1. Pending(k)' \subseteq Pending(k)
        BY <2>5, <3>2 DEF Pending
      <4> QED
        BY <1>0, <2>4, <2>6, <4>1, RoomKept
    <3> QED
      BY <3>1, <3>2
  <2> QED
    BY <2>4, <2>6 DEF BoundInv, Live
<1>2. ASSUME NEW t \in Request, Acquire(t) \/ Checked(t) \/ Cancel(t)
      PROVE  BoundInv'
  <2>1. /\ UNCHANGED <<now, failures>> /\ login[t].pc \in Undecided
        /\ \/ login' = [login EXCEPT ![t] = Blank]
           \/ \E p \in {"checking", "failed"} : login' = [login EXCEPT ![t].pc = p]
    BY <1>2 DEF Acquire, Checked, Cancel, Undecided
  <2>2. ASSUME NEW k \in Key
        PROVE  Pending(k)' \subseteq Pending(k)
    <3>1. \A v \in Request : v # t => login'[v] = login[v]
      BY <2>1 DEF LimiterTypes
    <3>2. login'[t].pc = "idle" \/ (login'[t].ip = login[t].ip /\ login'[t].user = login[t].user
                                      /\ login'[t].pc \in {"checking", "failed"})
      BY SMT, <2>1, BlankType DEF LimiterTypes, Login
    <3> QED
      BY <2>1, <3>1, <3>2 DEF Pending, Undecided
  <2> QED
    BY <1>0, <2>1, <2>2, RoomKept DEF BoundInv, Live
<1>3. CASE Tick
  <2>1. now' = now + 1 /\ UNCHANGED <<failures, login>>
    BY <1>3 DEF Tick
  <2>2. \A k \in Key : Live(k)' => Live(k)
    <3> SUFFICES ASSUME NEW k \in Key, Live(k)'
                 PROVE  Live(k)
      OBVIOUS
    <3>1. k \in DOMAIN failures /\ now' - failures[k].start < window
      BY <2>1 DEF Live
    <3>2. now \in Nat /\ failures[k].start \in Nat
      BY <3>1 DEF LimiterTypes, Table
    <3>3. now - failures[k].start < window
      BY SMT, <2>1, <3>1, <3>2, LimitNumbers
    <3> QED
      BY <3>1, <3>3 DEF Live
  <2> QED
    BY <2>1, <2>2 DEF BoundInv, Room, Pending
<1>4. CASE UNCHANGED loginVars
  BY <1>4 DEF loginVars, BoundInv, Room, Pending, Live
<1> QED
  BY <1>1, <1>2, <1>3, <1>4, BoundCount DEF LimiterNext

-----------------------------------------------------------------------------
(***************************************************************************)
(* client_ip: an attempt counts for the address it came from, through any   *)
(* of the proxies and whatever header the client sent.                      *)
(***************************************************************************)
THEOREM CountsForClientAlways ==
  LimiterSpec => []CountsForClient
<1>1. LimiterInit => LimiterTypes /\ CountsForClient
  BY LimiterTypesInit
<1>2. LimiterTypes /\ CountsForClient /\ [LimiterNext]_loginVars => (LimiterTypes /\ CountsForClient)'
  BY LimiterTypesNext
<1> QED
  BY <1>1, <1>2, PTL DEF LimiterSpec

(***************************************************************************)
(* is_blocked before the password check and record_failure after it: a key  *)
(* never has more failures in a window than the limit, less one, and the    *)
(* requests that can be in progress at once.                                *)
(***************************************************************************)
THEOREM FailuresBoundedAlways ==
  LimiterSpec => []FailuresBounded
<1> DEFINE Inv == LimiterTypes /\ CountsForClient /\ BoundInv
<1>1. LimiterInit => Inv
  BY LimiterTypesInit, BoundInit
<1>2. Inv /\ [LimiterNext]_loginVars => Inv'
  BY LimiterTypesNext, BoundNext
<1>3. Inv => FailuresBounded
  <2> SUFFICES ASSUME Inv, NEW k \in Key, Live(k)
               PROVE  failures[k].count <= max_failures - 1 + Cardinality(Request)
    BY DEF FailuresBounded
  <2>1. Room(k) /\ failures[k].count \in Nat
    BY DEF BoundInv, LimiterTypes, Table, Live
  <2> QED
    <3>1. Cardinality(Pending(k)) \in Nat /\ Cardinality(Request) \in Nat
      BY PendingFacts
    <3>2. failures[k].count + Cardinality(Pending(k)) <= max_failures - 1 + Cardinality(Request)
      BY <2>1 DEF Room
    <3> QED
      BY SMT, <2>1, <3>1, <3>2, LimitNumbers
<1> HIDE DEF Inv
<1> QED
  BY <1>1, <1>2, <1>3, PTL DEF LimiterSpec

(***************************************************************************)
(* record_failure_at never lifts a block: while its window lasts, a blocked *)
(* key stays blocked, also when the table is full and is cleared of what is *)
(* over.                                                                    *)
(***************************************************************************)
THEOREM BlockedStaysAlways ==
  LimiterSpec => BlockedStays
<1> DEFINE Inv == LimiterTypes /\ CountsForClient
           Stays == \A k \in Key :
                      IsBlocked(k) /\ now' - failures[k].start < window => IsBlocked(k)'
<1>1. LimiterInit => Inv
  BY LimiterTypesInit
<1>2. Inv /\ [LimiterNext]_loginVars => Inv'
  BY LimiterTypesNext
<1>3. Inv /\ [LimiterNext]_loginVars => [Stays]_loginVars
  <2> SUFFICES ASSUME Inv, LimiterNext, NEW k \in Key, IsBlocked(k), now' - failures[k].start < window
               PROVE  IsBlocked(k)'
    OBVIOUS
  <2>1. CASE failures' = failures
    BY <2>1 DEF IsBlocked, Live
  <2>2. ASSUME NEW t \in Request, Count(t)
        PROVE  IsBlocked(k)'
    <3>1. PICK j \in Key : RecordFailure(j)
      BY <2>2 DEF Count, LimiterTypes, Login, Key
    <3>2. now' = now
      BY <2>2 DEF Count
    <3>3. /\ k \in DOMAIN failures' /\ failures'[k].start = failures[k].start
          /\ failures'[k].count \in {failures[k].count, failures[k].count + 1}
      BY <3>1, <3>2, RecordFailureFacts DEF LimiterTypes, IsBlocked
    <3> QED
      <4>1. k \in DOMAIN failures /\ failures[k].count >= max_failures
        BY DEF IsBlocked, Live
      <4>2. failures[k].count \in Nat
        BY <4>1 DEF LimiterTypes, Table
      <4>3. failures'[k].count >= max_failures
        BY SMT, <3>3, <4>1, <4>2, LimitNumbers
      <4>4. now' - failures'[k].start < window
        BY <3>3
      <4> QED
        BY <3>3, <4>3, <4>4 DEF IsBlocked, Live
  <2> QED
    BY <2>1, <2>2 DEF LimiterNext, Ask, Acquire, Checked, Cancel, Tick
<1> HIDE DEF Inv
<1> QED
  BY <1>1, <1>2, <1>3, PTL DEF LimiterSpec, BlockedStays

-----------------------------------------------------------------------------
(***************************************************************************)
(* The limits on the table and on the password checks.  The permits are     *)
(* within their limit because Acquire looks, and the set of those who hold  *)
(* one says that giving one back finds one taken.                           *)
(***************************************************************************)
Checking == {t \in Request : login[t].pc = "checking"}

TableLimit ==
  /\ IsFiniteSet(DOMAIN failures) /\ Cardinality(DOMAIN failures) <= max_tracked_keys
  /\ \A k \in DOMAIN failures : failures[k].count >= 1

LimitInv ==
  /\ now <= MaxTime
  /\ TableLimit
  /\ permits = Cardinality(Checking) /\ permits <= concurrent_password_checks

\* record_failure_at adds an entry only where there is room for it.
LEMMA RecordFailureLimit ==
  ASSUME now \in Nat, Table, TableLimit, NEW k \in Key, RecordFailure(k)
  PROVE  TableLimit'
<1> DEFINE full(ks) == k \notin DOMAIN failures /\ Cardinality(ks) >= max_tracked_keys
           kept == IF full(DOMAIN failures) THEN {j \in DOMAIN failures : Live(j)}
                   ELSE DOMAIN failures
           entry == IF Live(k) THEN [failures[k] EXCEPT !.count = @ + 1]
                    ELSE [start |-> now, count |-> 1]
<1>1. failures' = IF full(kept) THEN Restrict(failures, kept)
                  ELSE [j \in kept \cup {k} |-> IF j = k THEN entry ELSE failures[j]]
  BY DEF RecordFailure
<1>2. kept \in SUBSET DOMAIN failures
  OBVIOUS
<1>3. entry.count >= 1
  BY SMT DEF Table, TableLimit, Live
<1>4. IsFiniteSet(kept) /\ Cardinality(kept) \in Nat /\ Cardinality(kept) <= max_tracked_keys
  <2>1. Cardinality(DOMAIN failures) \in Nat
    BY FS_CardinalityType DEF TableLimit
  <2> HIDE DEF kept
  <2>2. IsFiniteSet(kept) /\ Cardinality(kept) <= Cardinality(DOMAIN failures)
    BY <1>2, FS_Subset DEF TableLimit
  <2> QED
    <3>1. Cardinality(kept) \in Nat
      BY <2>2, FS_CardinalityType
    <3>2. Cardinality(DOMAIN failures) <= max_tracked_keys
      BY DEF TableLimit
    <3> QED
      BY SMT, <2>1, <2>2, <3>1, <3>2, LimitNumbers
<1>5. k \in DOMAIN failures => kept = DOMAIN failures
  OBVIOUS
<1>6. full(kept) <=> k \notin DOMAIN failures /\ Cardinality(kept) >= max_tracked_keys
  OBVIOUS
<1> HIDE DEF entry, kept, full
<1>7. CASE full(kept)
  <2>1. DOMAIN failures' = kept /\ \A j \in kept : failures'[j] = failures[j]
    BY <1>1, <1>2, <1>7 DEF Restrict
  <2> QED
    BY <1>2, <1>4, <2>1 DEF TableLimit
<1>8. CASE ~full(kept)
  <2>1. failures' = [j \in kept \cup {k} |-> IF j = k THEN entry ELSE failures[j]]
    BY <1>1, <1>8
  <2>2. DOMAIN failures' = kept \cup {k}
    BY <2>1
  <2>3. \A j \in DOMAIN failures' : failures'[j].count >= 1
    BY <1>2, <1>3, <2>1 DEF TableLimit
  <2>4. /\ IsFiniteSet(kept \cup {k})
        /\ Cardinality(kept \cup {k}) = IF k \in kept THEN Cardinality(kept) ELSE Cardinality(kept) + 1
    BY <1>4, FS_AddElement
  <2>5. Cardinality(kept \cup {k}) <= max_tracked_keys
    BY SMT, <1>4, <1>5, <1>6, <1>8, <2>4, LimitNumbers
  <2> QED
    BY <2>2, <2>3, <2>4, <2>5 DEF TableLimit
<1> QED
  BY <1>7, <1>8

LEMMA LimitInit ==
  ASSUME LimiterInit
  PROVE  LimitInv
<1>1. Checking = {}
  BY BlankType DEF Checking, LimiterInit
<1>2. DOMAIN failures = {}
  BY SMT DEF LimiterInit
<1> QED
  BY SMT, <1>1, <1>2, FS_EmptySet, LimiterAssumption DEF LimitInv, TableLimit, LimiterInit

LEMMA LimitNext ==
  ASSUME LimiterTypes, LimitInv, [LimiterNext]_loginVars
  PROVE  LimitInv'
<1>1. IsFiniteSet(Checking) /\ Cardinality(Checking) \in Nat
  <2>1. Checking \in SUBSET Request
    BY DEF Checking
  <2> QED
    BY <2>1, FS_Subset, FS_CardinalityType, LimiterAssumption
<1> DEFINE C == Checking
<1>0. ASSUME NEW t \in Request
      PROVE  /\ Cardinality(C \cup {t}) = IF t \in C THEN Cardinality(C) ELSE Cardinality(C) + 1
             /\ Cardinality(C \ {t}) = IF t \in C THEN Cardinality(C) - 1 ELSE Cardinality(C)
  <2> HIDE DEF C
  <2>1. IsFiniteSet(C)
    BY <1>1 DEF C
  <2>2. /\ IsFiniteSet(C \cup {t})
        /\ Cardinality(C \cup {t}) = IF t \in C THEN Cardinality(C) ELSE Cardinality(C) + 1
    BY <2>1, FS_AddElement
  <2>3. /\ IsFiniteSet(C \ {t})
        /\ Cardinality(C \ {t}) = IF t \in C THEN Cardinality(C) - 1 ELSE Cardinality(C)
    BY <2>1, FS_RemoveElement
  <2> QED
    BY <2>2, <2>3
<1>2. ASSUME NEW t \in Request, Acquire(t)
      PROVE  LimitInv'
  <2>1. Checking' = Checking \cup {t} /\ t \notin Checking
    BY <1>2 DEF Acquire, Checking, LimiterTypes, Login
  <2>2. Cardinality(Checking \cup {t}) = Cardinality(Checking) + 1
    BY <1>0, <2>1
  <2> QED
    BY SMT, <1>1, <1>2, <2>1, <2>2, LimiterAssumption DEF Acquire, LimitInv, TableLimit
<1>3. ASSUME NEW t \in Request, Checked(t) \/ Cancel(t)
      PROVE  LimitInv'
  <2>1. /\ \/ login' = [login EXCEPT ![t] = Blank]
           \/ login' = [login EXCEPT ![t].pc = "failed"]
        /\ permits' = IF login[t].pc = "checking" THEN permits - 1 ELSE permits
        /\ UNCHANGED <<now, failures>>
    BY <1>3 DEF Checked, Cancel
  <2>2. Checking' = Checking \ {t} /\ (t \in Checking <=> login[t].pc = "checking")
    BY SMT, <2>1, BlankType DEF Checking, LimiterTypes, Login
  <2>3. Cardinality(Checking \ {t}) = IF t \in Checking THEN Cardinality(Checking) - 1 ELSE Cardinality(Checking)
    BY <1>0
  <2> QED
    BY SMT, <1>1, <2>1, <2>2, <2>3, LimiterAssumption DEF LimitInv, TableLimit
<1>4. ASSUME NEW t \in Request, Count(t)
      PROVE  LimitInv'
  <2>1. \E k \in Key : RecordFailure(k)
    BY <1>4 DEF Count, LimiterTypes, Login, Key
  <2>2. TableLimit'
    BY <2>1, RecordFailureLimit DEF LimiterTypes, LimitInv
  <2>3. Checking' = Checking
    BY <1>4, BlankType DEF Count, Checking, LimiterTypes, Login
  <2> QED
    BY <1>4, <2>2, <2>3 DEF Count, LimitInv
<1>5. ASSUME NEW t \in Request, NEW c \in Client, NEW u \in User, Ask(t, c, u)
      PROVE  LimitInv'
  <2>1. PICK h \in Forged : \E r \in Routes(c, h) :
          login' = [login EXCEPT ![t] = [pc |-> "queued", client |-> c,
                                         ip |-> ClientIp(r.peer, r.forwarded), user |-> u]]
    BY <1>5 DEF Ask
  <2>2. login[t].pc = "idle" /\ UNCHANGED <<now, failures, permits>>
    BY <1>5 DEF Ask
  <2>3. Checking' = Checking
    BY SMT, <2>1, <2>2 DEF Checking, LimiterTypes
  <2> QED
    BY <2>2, <2>3 DEF LimitInv, TableLimit
<1>6. CASE Tick
  <2>1. Checking' = Checking
    BY <1>6 DEF Tick, Checking
  <2>2. now' <= MaxTime
    BY SMT, <1>6, LimitNumbers DEF Tick, LimiterTypes
  <2>3. UNCHANGED <<failures, permits>>
    BY <1>6 DEF Tick
  <2>4. TableLimit'
    BY <2>3 DEF LimitInv, TableLimit
  <2> QED
    BY <2>1, <2>2, <2>3, <2>4 DEF LimitInv
<1>7. CASE UNCHANGED loginVars
  BY <1>7 DEF loginVars, LimitInv, TableLimit, Checking
<1> QED
  BY <1>2, <1>3, <1>4, <1>5, <1>6, <1>7 DEF LimiterNext

(***************************************************************************)
(* The limits on logins hold together: the failures of a key, the entries   *)
(* of the table that record_failure_at keeps, the password checks at once   *)
(* and the address that an attempt counts for.                              *)
(***************************************************************************)
THEOREM LoginsLimitedAlways == LimiterSpec => []LoginsLimited
<1> DEFINE Inv == LimiterTypes /\ CountsForClient /\ LimitInv
<1>1. LimiterInit => Inv
  BY LimiterTypesInit, LimitInit
<1>2. Inv /\ [LimiterNext]_loginVars => Inv'
  BY LimiterTypesNext, LimitNext
<1>3. Inv => LimiterTypeOK /\ PermitsAreHeld
  <2> SUFFICES ASSUME Inv
               PROVE  LimiterTypeOK /\ PermitsAreHeld
    OBVIOUS
  <2>1. PermitsAreHeld
    BY DEF LimitInv, Checking, PermitsAreHeld
  <2>2. permits \in 0..concurrent_password_checks
    <3>1. Checking \in SUBSET Request
      BY DEF Checking
    <3>2. Cardinality(Checking) \in Nat
      BY <3>1, FS_Subset, FS_CardinalityType, LimiterAssumption
    <3> QED
      BY SMT, <3>2, LimiterAssumption DEF LimitInv
  <2>3. now \in 0..MaxTime
    BY SMT, LimiterAssumption DEF LimitInv, LimiterTypes
  <2>4. ASSUME NEW k \in DOMAIN failures
        PROVE  failures[k] \in [start: 0..MaxTime, count: Nat \ {0}]
    <3>1. /\ failures[k] \in [start: Nat, count: Nat] /\ failures[k].start <= now
          /\ failures[k].count >= 1
      BY DEF LimiterTypes, Table, LimitInv, TableLimit
    <3> QED
      BY SMT, <2>3, <3>1, LimitNumbers
  <2>5. login \in [Request -> [pc: {"idle", "queued", "checking", "failed", "counted"},
                               client: Client, ip: Client \cup Proxy, user: User]]
    BY DEF LimiterTypes, Login
  <2>6. DOMAIN failures \subseteq Key /\ Cardinality(DOMAIN failures) <= max_tracked_keys
    BY DEF LimiterTypes, Table, LimitInv, TableLimit
  <2> HIDE DEF Inv
  <2> QED
    BY <2>1, <2>2, <2>3, <2>4, <2>5, <2>6 DEF LimiterTypeOK
<1> HIDE DEF Inv
<1>4. LimiterSpec => [](LimiterTypeOK /\ PermitsAreHeld)
  BY <1>1, <1>2, <1>3, PTL DEF LimiterSpec
<1> QED
  BY <1>4, FailuresBoundedAlways, CountsForClientAlways, PTL DEF LoginsLimited

-----------------------------------------------------------------------------
(***************************************************************************)
(* The feeds and their listeners.                                           *)
(***************************************************************************)
Distinct(fs) == \A f, g \in fs : f.uuid = g.uuid \/ f.name = g.name => f = g

Types ==
    /\ feeds \subseteq DataFeed /\ stored \subseteq DataFeed
    /\ tick \in BOOLEAN
    /\ run \in [pc: {"look", "start", "wait"}, todo: SUBSET ListenerSpec]

(***************************************************************************)
(* What run has dealt with or is about to: from its look at the store to    *)
(* its next wait these are the streaming feeds, as long as no tick is       *)
(* pending.  The listeners' specs are a set of their own, so that one that  *)
(* ends changes nothing here.                                               *)
(***************************************************************************)
DealtWith == {r.spec : r \in running} \cup failed \cup run.todo

PassInv ==
    /\ run.pc = "wait" => run.todo = {}
    /\ run.pc # "look" /\ ~tick => DealtWith = Wanted

FeedsInv == Types /\ FeedsDistinct /\ PassInv

-----------------------------------------------------------------------------
(***************************************************************************)
(* apply's two events keep feeds distinct: Saved removes what the new feed  *)
(* could clash with.                                                        *)
(***************************************************************************)
LEMMA SavedDistinct ==
    ASSUME NEW fs, fs \subseteq DataFeed, NEW f \in DataFeed, Distinct(fs)
    PROVE  Distinct(Saved(fs, f)) /\ Saved(fs, f) \subseteq DataFeed
BY DEF Distinct, Saved

LEMMA DeletedDistinct ==
    ASSUME NEW fs, fs \subseteq DataFeed, NEW n, Distinct(fs)
    PROVE  Distinct(Deleted(fs, n)) /\ Deleted(fs, n) \subseteq DataFeed
BY DEF Distinct, Deleted

\* A feed store step that keeps both views typed and distinct and either
\* ticks or leaves the feeds alone keeps the invariant.
LEMMA StoreStep ==
    ASSUME FeedsInv,
           feeds' \subseteq DataFeed, stored' \subseteq DataFeed,
           Distinct(feeds'), Distinct(stored'),
           tick' = TRUE \/ (feeds' = feeds /\ tick' = tick),
           UNCHANGED runner
    PROVE  FeedsInv'
<1>1. tick' \in BOOLEAN /\ UNCHANGED <<run, running, failed>>
  BY DEF FeedsInv, Types, runner
<1>2. Types'
  BY <1>1 DEF FeedsInv, Types
<1>3. FeedsDistinct'
  BY SMT DEF FeedsDistinct, Distinct
<1>4. ASSUME tick' = TRUE
      PROVE  PassInv'
  BY <1>1, <1>4 DEF FeedsInv, PassInv
<1>5. ASSUME feeds' = feeds, tick' = tick
      PROVE  PassInv'
  BY <1>1, <1>5 DEF FeedsInv, PassInv, DealtWith, Wanted
<1>6. PassInv'
  BY <1>4, <1>5
<1> QED
  BY <1>2, <1>3, <1>6 DEF FeedsInv

-----------------------------------------------------------------------------
LEMMA FeedsInvInit == Init => FeedsInv
BY ZenonT(30) DEF Init, FeedsInv, Types, FeedsDistinct, PassInv, Waiting

LEMMA FeedsInvNext == FeedsInv /\ [Next]_vars => FeedsInv'
<1> SUFFICES ASSUME FeedsInv, [Next]_vars
             PROVE  FeedsInv'
  OBVIOUS
<1> USE DEF FeedsInv
<1>0. /\ feeds \subseteq DataFeed /\ stored \subseteq DataFeed
      /\ Distinct(feeds) /\ Distinct(stored)
  BY DEF Types, FeedsDistinct, Distinct
<1>1. ASSUME NEW f \in Posted, Create(f)
      PROVE  FeedsInv'
  <2>1. f \in DataFeed
    BY <1>1 DEF Posted
  <2>2. CASE feeds' = Saved(feeds, f) /\ stored' = Saved(stored, f) /\ tick' = TRUE
    BY <1>0, <1>1, <2>1, <2>2, SavedDistinct, StoreStep DEF Create
  <2>3. CASE stored' \in {stored, Saved(stored, f)} /\ UNCHANGED <<feeds, tick>>
    BY <1>0, <1>1, <2>1, <2>3, SavedDistinct, StoreStep DEF Create
  <2> QED
    BY <1>1, <2>2, <2>3 DEF Create, Record, Recorded, NotRecorded
<1>2. ASSUME NEW f \in Posted, NEW n \in update, Replace(n, f)
      PROVE  FeedsInv'
  <2> DEFINE Op(fs) == Saved(Deleted(fs, n), f)
  <2>1. f \in DataFeed
    BY <1>2 DEF Posted
  <2>2. ASSUME NEW fs, fs \subseteq DataFeed, Distinct(fs)
        PROVE  /\ Distinct(Op(fs)) /\ Op(fs) \subseteq DataFeed
               /\ Distinct(Deleted(fs, n)) /\ Deleted(fs, n) \subseteq DataFeed
    BY <2>1, <2>2, SavedDistinct, DeletedDistinct
  <2>3. UNCHANGED runner
    BY <1>2 DEF Replace
  <2>4. CASE UNCHANGED store
    BY <1>0, <2>3, <2>4, StoreStep DEF store
  <2>5. CASE feeds' = Op(feeds) /\ stored' = Op(stored) /\ tick' = TRUE
    <3> HIDE DEF Op
    <3> QED BY <1>0, <2>2, <2>3, <2>5, StoreStep
  <2>6. CASE stored' \in {stored, Deleted(stored, n)} /\ UNCHANGED <<feeds, tick>>
    <3> HIDE DEF Op
    <3> QED BY <1>0, <2>2, <2>3, <2>6, StoreStep
  <2>7. CASE /\ feeds' = Deleted(feeds, n) /\ tick' = TRUE
             /\ stored' \in {Deleted(stored, n), Op(stored)}
    <3> HIDE DEF Op
    <3> QED BY <1>0, <2>2, <2>3, <2>7, StoreStep
  <2> QED
    BY <1>2, <2>4, <2>5, <2>6, <2>7 DEF Replace, Recorded, NotRecorded
<1>3. ASSUME NEW n \in Name, Delete(n)
      PROVE  FeedsInv'
  <2>1. CASE feeds' = Deleted(feeds, n) /\ stored' = Deleted(stored, n) /\ tick' = TRUE
    BY <1>0, <1>3, <2>1, DeletedDistinct, StoreStep DEF Delete
  <2>2. CASE stored' \in {stored, Deleted(stored, n)} /\ UNCHANGED <<feeds, tick>>
    BY <1>0, <1>3, <2>2, DeletedDistinct, StoreStep DEF Delete
  <2> QED
    BY <1>3, <2>1, <2>2 DEF Delete, Record, Recorded, NotRecorded
<1>4. ASSUME NEW n \in Name, UpdateLooks(n)
      PROVE  FeedsInv'
  BY <1>0, <1>4, StoreStep DEF UpdateLooks, store
<1>5. CASE Look
  <2>1. UNCHANGED <<feeds, stored, tick>>
    BY <1>5 DEF Look, store
  <2>2. Types' /\ FeedsDistinct'
    BY <1>5, <2>1 DEF Look, Types, FeedsDistinct, Wanted, DataFeed, ListenerSpec
  <2>3. \* Two feeds of one uuid are the same: what is not started is kept.
        ASSUME NEW s \in Wanted, NEW r \in Kept, r.spec.uuid = s.uuid
        PROVE  r.spec = s
    BY <1>0, <2>3 DEF Kept, Wanted, Distinct
  <2>4. DealtWith' = Wanted'
    <3>1. /\ running' = Kept /\ failed' = {} /\ Wanted' = Wanted
          /\ run'.todo = {s \in Wanted : \A r \in Kept : r.spec.uuid # s.uuid}
      BY <1>5, <2>1 DEF Look, Wanted
    <3>2. DealtWith' = {r.spec : r \in Kept} \cup run'.todo
      BY <3>1 DEF DealtWith
    <3>3. {r.spec : r \in Kept} \subseteq Wanted
      BY DEF Kept
    <3>4. ASSUME NEW s \in Wanted, s \notin run'.todo
          PROVE  s \in {r.spec : r \in Kept}
      BY SMT, <2>3, <3>1, <3>4
    <3> QED BY <3>1, <3>2, <3>3, <3>4
  <2> QED
    BY <1>5, <2>2, <2>4 DEF Look, PassInv
<1>6. ASSUME NEW s \in run.todo, Start(s)
      PROVE  FeedsInv'
  <2>1. UNCHANGED <<feeds, stored, tick>> /\ run' = [run EXCEPT !.todo = @ \ {s}]
    BY <1>6 DEF Start, store
  <2>2. Types' /\ FeedsDistinct' /\ run'.pc = "start" /\ run'.todo = run.todo \ {s}
    BY <1>6, <2>1 DEF Start, Types, FeedsDistinct
  <2>3. \/ running' = running \cup {[spec |-> s, ended |-> FALSE]} /\ failed' = failed
        \/ running' = running /\ failed' = failed \cup {s}
    BY <1>6 DEF Start
  <2>4. ASSUME running' = running \cup {[spec |-> s, ended |-> FALSE]}, failed' = failed
        PROVE  DealtWith' = DealtWith
    <3> DEFINE new == [spec |-> s, ended |-> FALSE]
    <3>1. running' = running \cup {new} /\ new.spec = s
      BY <2>4
    <3> HIDE DEF new
    <3>2. {r.spec : r \in running'} = {r.spec : r \in running} \cup {s}
      BY <3>1
    <3> QED
      BY <2>2, <2>4, <3>2, <1>6 DEF DealtWith
  <2>5. ASSUME running' = running, failed' = failed \cup {s}
        PROVE  DealtWith' = DealtWith
    BY <1>6, <2>2, <2>5 DEF DealtWith
  <2>6. DealtWith' = DealtWith
    BY <2>3, <2>4, <2>5
  <2> QED
    BY <1>6, <2>1, <2>2, <2>6 DEF PassInv, Wanted, Start
<1>7. CASE PassDone
  BY <1>7 DEF PassDone, Types, FeedsDistinct, PassInv, DealtWith, Wanted, Waiting, store
<1>8. CASE Changed
  BY <1>8 DEF Changed, Types, FeedsDistinct, PassInv, Waiting
<1>9. ASSUME NEW p \in Port, Dropped(p)
      PROVE  FeedsInv'
  BY <1>9 DEF Dropped, Types, FeedsDistinct, PassInv, DealtWith, Wanted, store
<1>10. ASSUME NEW r \in running, AcceptFails(r)
       PROVE  FeedsInv'
  <2>1. running' = (running \ {r}) \cup {[r EXCEPT !.ended = TRUE]}
    BY <1>10 DEF AcceptFails
  <2>2. [r EXCEPT !.ended = TRUE].spec = r.spec
    BY SMT
  <2>3. {x.spec : x \in running'} = {x.spec : x \in running}
    BY <1>10, <2>1, <2>2
  <2> QED
    BY <1>10, <2>3 DEF AcceptFails, Types, FeedsDistinct, PassInv, DealtWith, Wanted, store
<1>11. CASE Restart
  BY <1>11 DEF Restart, Types, FeedsDistinct, PassInv, Waiting
<1>12. CASE UNCHANGED vars
  BY <1>0, <1>12, StoreStep DEF vars, store
<1> QED
  BY <1>1, <1>2, <1>3, <1>4, <1>5, <1>6, <1>7, <1>8, <1>9, <1>10, <1>11, <1>12
  DEF Next, Run

-----------------------------------------------------------------------------
(***************************************************************************)
(* No two feeds share a name or a uuid, in memory or after a restart,       *)
(* whatever appends fail between the two events of replace.                 *)
(***************************************************************************)
THEOREM FeedsStayDistinct == Spec => []FeedsDistinct
<1>1. FeedsInv => FeedsDistinct
  BY DEF FeedsInv
<1> QED
  BY <1>1, FeedsInvInit, FeedsInvNext, PTL DEF Spec

(***************************************************************************)
(* run never waits on a store that it has not looked at: no change falls    *)
(* between its look and changes.changed(), however long it starts listeners *)
(* in between.                                                              *)
(***************************************************************************)
THEOREM NoChangeFallsBetween == Spec => []SettledMatchesStore
<1>1. FeedsInv => SettledMatchesStore
  BY SMT DEF FeedsInv, PassInv, DealtWith, SettledMatchesStore, Waiting
<1> QED
  BY <1>1, FeedsInvInit, FeedsInvNext, PTL DEF Spec

-----------------------------------------------------------------------------
LEMMA TypeOKNext == TypeOK /\ FeedsInv /\ FeedsInv' /\ [Next]_vars => TypeOK'
<1> SUFFICES ASSUME TypeOK, FeedsInv, FeedsInv', [Next]_vars
             PROVE  TypeOK'
  OBVIOUS
<1> DEFINE Rest ==
      /\ update \subseteq Name
      /\ running \subseteq [spec: ListenerSpec, ended: BOOLEAN]
      /\ closing \subseteq Port /\ failed \subseteq ListenerSpec
      /\ faults \in 0 .. MaxFaults
<1>0. Rest
  BY DEF TypeOK
<1>1. SUFFICES Rest'
  BY DEF FeedsInv, Types, TypeOK
<1>2. Wanted \subseteq ListenerSpec /\ run.todo \subseteq ListenerSpec
  BY DEF TypeOK, Wanted, DataFeed, ListenerSpec
<1>3. Fault => faults' \in 0..MaxFaults
  BY SMT, <1>0, FeedsAssumption DEF Fault
<1>4. ASSUME NEW f \in Posted, Create(f)
      PROVE  Rest'
  BY <1>0, <1>3, <1>4 DEF Create, Record, Recorded, NotRecorded, runner
<1>5. ASSUME NEW f \in Posted, NEW n \in update, Replace(n, f)
      PROVE  Rest'
  BY <1>0, <1>3, <1>5 DEF Replace, Recorded, NotRecorded, runner
<1>6. ASSUME NEW n \in Name, Delete(n)
      PROVE  Rest'
  BY <1>0, <1>3, <1>6 DEF Delete, Record, Recorded, NotRecorded, runner
<1>7. ASSUME NEW n \in Name, UpdateLooks(n)
      PROVE  Rest'
  BY <1>0, <1>7 DEF UpdateLooks, runner
<1>8. CASE Look
  <2>1. {r.spec.port : r \in {x \in running \ Kept : ~x.ended}} \subseteq Port
    BY <1>0 DEF ListenerSpec
  <2>2. Kept \subseteq running
    BY DEF Kept
  <2> QED
    BY <1>0, <1>8, <2>1, <2>2 DEF Look
<1>9. ASSUME NEW s \in run.todo, Start(s)
      PROVE  Rest'
  <2>1. s \in ListenerSpec /\ [spec |-> s, ended |-> FALSE] \in [spec: ListenerSpec, ended: BOOLEAN]
    BY <1>2, <1>9
  <2> QED
    BY <1>0, <1>3, <1>9, <2>1 DEF Start
<1>10. CASE PassDone \/ Changed
  BY <1>0, <1>10 DEF PassDone, Changed
<1>11. ASSUME NEW p \in Port, Dropped(p)
       PROVE  Rest'
  BY <1>0, <1>11 DEF Dropped
<1>12. ASSUME NEW r \in running, AcceptFails(r)
       PROVE  Rest'
  <2>1. [r EXCEPT !.ended = TRUE] \in [spec: ListenerSpec, ended: BOOLEAN]
    BY <1>0, <1>12
  <2> QED
    BY <1>0, <1>3, <1>12, <2>1 DEF AcceptFails
<1>13. CASE Restart
  BY <1>0, <1>3, <1>13 DEF Restart
<1>14. CASE UNCHANGED vars
  BY <1>0, <1>14 DEF vars, runner
<1> HIDE DEF Rest
<1> QED
  BY <1>4, <1>5, <1>6, <1>7, <1>8, <1>9, <1>10, <1>11, <1>12, <1>13, <1>14 DEF Next, Run

(***************************************************************************)
(* When it is quiet there is one listener for each streaming feed as it is  *)
(* now, or the feed could not be started: the two theorems above, and the   *)
(* types.                                                                   *)
(***************************************************************************)
THEOREM ListenersMatchAlways == Spec => []ListenersMatch
<1>1. Init => TypeOK
  <2> SUFFICES ASSUME Init
               PROVE  TypeOK
    OBVIOUS
  <2>1. faults \in 0..MaxFaults
    BY SMT, FeedsAssumption DEF Init
  <2>2. /\ tick \in BOOLEAN /\ feeds \subseteq DataFeed /\ stored \subseteq DataFeed
        /\ run \in [pc: {"look", "start", "wait"}, todo: SUBSET ListenerSpec]
    BY FeedsInvInit DEF FeedsInv, Types
  <2>3. update = {} /\ running = {} /\ closing = {} /\ failed = {}
    BY DEF Init
  <2> QED
    BY <2>1, <2>2, <2>3 DEF TypeOK
<1>2. Spec => [](TypeOK /\ FeedsInv)
  BY <1>1, FeedsInvInit, FeedsInvNext, TypeOKNext, PTL DEF Spec
<1> QED
  BY <1>2, FeedsStayDistinct, NoChangeFallsBetween, PTL DEF ListenersMatch
=============================================================================
