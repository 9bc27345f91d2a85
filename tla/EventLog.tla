------------------------------ MODULE EventLog ------------------------------
(***************************************************************************)
(* EventLog of src/src/eventlog.rs under the stores that use it: append     *)
(* writes the JSON of one event, a newline and fsyncs; the caller applies   *)
(* the event to memory only then; opening the log replays its lines.        *)
(*                                                                          *)
(* The file is a sequence of pieces: the complete JSON of event number n    *)
(* (n itself), Torn (a part of one) and NL.  Process crashes keep what was  *)
(* written, power losses keep what was fsynced and any part of the rest.    *)
(***************************************************************************)
EXTENDS Integers, Sequences

CONSTANTS MaxEvents,       \* bound: events ever appended
          MaxCrashes,      \* bound: crashes
          WritesMayFail,   \* whether writes and fsyncs can return errors
          PowerMayFail     \* whether a crash can also lose unsynced pieces

ASSUME EventLogAssumption ==
  /\ MaxEvents \in Nat
  /\ MaxCrashes \in Nat
  /\ WritesMayFail \in BOOLEAN
  /\ PowerMayFail \in BOOLEAN

VARIABLES
  mode,     \* "down", "up" (replayed and serving) or "refused" (Corrupt)
  file,     \* the pieces in the file, as a reader sees them now
  synced,   \* how many leading pieces a power loss cannot take
  writing,  \* the append in progress: what it does next
  mem,      \* the events applied to memory, in order
  acked,    \* the events whose operation returned Ok
  issued,   \* how many events were created
  crashes   \* how many crashes there were

vars == <<mode, file, synced, writing, mem, acked, issued, crashes>>

\* As in SequencesExt, which the proofs are quicker without.
ToSet(s) == {s[i] : i \in DOMAIN s}

Event == 1..MaxEvents
Torn  == 0
NL    == MaxEvents + 1

TypeOK ==
  /\ mode \in {"down", "up", "refused"}
  /\ file \in Seq(Event \cup {Torn, NL})
  /\ synced \in 0..Len(file)
  /\ writing \in {"idle", "json", "newline", "sync", "apply"}
  /\ mem \in Seq(Event)
  /\ acked \subseteq Event
  /\ issued \in 0..MaxEvents
  /\ crashes \in 0..MaxCrashes

Init ==
  /\ mode = "down"
  /\ file = << >>
  /\ synced = 0
  /\ writing = "idle"
  /\ mem = << >>
  /\ acked = {}
  /\ issued = 0
  /\ crashes = 0

-----------------------------------------------------------------------------
(***************************************************************************)
(* append, under the store's write lock: one append at a time.              *)
(***************************************************************************)
Begin ==
  /\ mode = "up"
  /\ writing = "idle"
  /\ issued < MaxEvents
  /\ issued' = issued + 1
  /\ writing' = "json"
  /\ UNCHANGED <<mode, file, synced, mem, acked, crashes>>

\* writeln! writes the JSON and the newline in two calls.
WriteJson ==
  /\ writing = "json"
  /\ file' = Append(file, issued)
  /\ writing' = "newline"
  /\ UNCHANGED <<mode, synced, mem, acked, issued, crashes>>

WriteNewline ==
  /\ writing = "newline"
  /\ file' = Append(file, NL)
  /\ writing' = "sync"
  /\ UNCHANGED <<mode, synced, mem, acked, issued, crashes>>

SyncData_Skips ==      \* mutant: no fsync
  /\ writing = "sync"
  /\ writing' = "apply"
  /\ UNCHANGED <<mode, file, synced, mem, acked, issued, crashes>>

SyncData ==
  /\ writing = "sync"
  /\ synced' = Len(file)
  /\ writing' = "apply"
  /\ UNCHANGED <<mode, file, mem, acked, issued, crashes>>

\* The caller's apply_event, after which the operation returns Ok.
Apply ==
  /\ writing = "apply"
  /\ mem' = Append(mem, issued)
  /\ acked' = acked \cup {issued}
  /\ writing' = "idle"
  /\ UNCHANGED <<mode, file, synced, issued, crashes>>

(***************************************************************************)
(* A write or the fsync returns an error: the caller's operation fails and  *)
(* does not apply the event, but what was written stays in the file.        *)
(***************************************************************************)
AppendFails ==
  /\ WritesMayFail
  /\ writing \in {"json", "newline", "sync"}
  /\ file' \in {file} \cup (IF writing = "json" THEN {Append(file, Torn)} ELSE {})
  /\ writing' = "idle"
  /\ UNCHANGED <<mode, synced, mem, acked, issued, crashes>>

-----------------------------------------------------------------------------
(***************************************************************************)
(* Crashes.  Killing the process leaves what was written; losing power      *)
(* keeps what was synced and any part of the rest.                          *)
(***************************************************************************)
Down ==
  /\ crashes < MaxCrashes
  /\ crashes' = crashes + 1
  /\ mode' = "down"
  /\ writing' = "idle"
  /\ mem' = << >>
  /\ UNCHANGED <<acked, issued>>

ProcessCrash == Down /\ UNCHANGED <<file, synced>>

PowerLoss ==
  /\ PowerMayFail
  /\ Down
  /\ \E n \in synced..Len(file) :
       LET kept == SubSeq(file, 1, n)
       IN  file' \in {kept} \cup
                     (IF n < Len(file) /\ file[n + 1] # NL THEN {Append(kept, Torn)} ELSE {})
  /\ synced' = Len(file')

-----------------------------------------------------------------------------
(***************************************************************************)
(* open_and_replay.  A line parses when it is one complete JSON value; an   *)
(* empty line is skipped; the last line needs no newline.                   *)
(***************************************************************************)
Parses(f) ==
  \A i \in 1..Len(f) : f[i] # NL =>
     /\ f[i] # Torn
     /\ i = 1 \/ f[i - 1] = NL
     /\ i = Len(f) \/ f[i + 1] = NL

\* The complete events among the first i pieces, for each i: a function, so
\* that it can be reasoned about.
EventsUpto(f) ==
  LET k[i \in 0..Len(f)] == IF i = 0 THEN << >>
                            ELSE IF f[i] \in Event THEN Append(k[i - 1], f[i])
                            ELSE k[i - 1]
  IN  k

\* The events of the lines of f, in order.
Replay(f) == EventsUpto(f)[Len(f)]

OpenAndReplay_SkipsCorrupt ==   \* mutant: a corrupt line only stops the replay
  /\ mode = "down"
  /\ mode' = "up"
  /\ mem' = IF Parses(file) THEN Replay(file) ELSE << >>
  /\ UNCHANGED <<file, synced, writing, acked, issued, crashes>>

OpenAndReplay ==
  /\ mode = "down"
  /\ IF Parses(file)
     THEN mode' = "up" /\ mem' = Replay(file)
     ELSE mode' = "refused" /\ UNCHANGED mem
  /\ UNCHANGED <<file, synced, writing, acked, issued, crashes>>

Next ==
  \/ Begin \/ WriteJson \/ WriteNewline \/ SyncData \/ Apply \/ AppendFails
  \/ ProcessCrash \/ PowerLoss
  \/ OpenAndReplay

Spec == Init /\ [][Next]_vars

-----------------------------------------------------------------------------
(***************************************************************************)
(* An operation that returned Ok is never undone: whenever the server is    *)
(* up, every acknowledged event is applied, once and in the order of the    *)
(* operations, whatever crashed or failed before.  (The server may also     *)
(* refuse to start; see AckedReplayable.)                                   *)
(***************************************************************************)
AckedSurvive ==
  mode = "up" => /\ acked \subseteq ToSet(mem)
                 /\ \A i, j \in 1..Len(mem) : i < j => mem[i] < mem[j]

(***************************************************************************)
(* append returns Ok only after sync_data: at every moment, failed appends  *)
(* before and power losses since included, an acknowledged event is in the  *)
(* part of the file that no power loss can take.                            *)
(***************************************************************************)
AckedOnDisk == \A e \in acked : \E i \in 1..synced : file[i] = e

(***************************************************************************)
(* The stores' view of the log: DurableLog, with the complete events in the *)
(* file as the log.                                                         *)
(***************************************************************************)
Store == INSTANCE DurableLog WITH
           log  <- Replay(file),
           view <- mem,
           up   <- mode = "up"

(***************************************************************************)
(* EventLog gives the stores what they rely on (see DurableLog): an event   *)
(* takes effect at most once and as a whole, memory is the log at the last  *)
(* start plus the events acknowledged since, in order, and a crash takes    *)
(* nothing that was acknowledged.                                           *)
(***************************************************************************)
ImplementsDurableLog == Store!Spec

(***************************************************************************)
(* "there's no window where an operation looks like it succeeded but isn't  *)
(* actually persisted": between two operations, a replay of the file finds  *)
(* every acknowledged event.                                                *)
(***************************************************************************)
AckedReplayable ==
  mode = "up" /\ writing = "idle"
    => acked \subseteq (IF Parses(file) THEN ToSet(Replay(file)) ELSE {})
=============================================================================
