------------------------------- MODULE Backup -------------------------------
(***************************************************************************)
(* The periodic backup (src/src/backup.rs) of an event log that operations  *)
(* append to at the same time, and that crashes cut: EventLog with a copy   *)
(* of its file in backup_dir.                                               *)
(*                                                                          *)
(* sync_file compares lengths and appends to the copy what is behind its    *)
(* length.  Each of its system calls is a step.  Where the copy is not a    *)
(* prefix of the log, its length in bytes says nothing about it: any way    *)
(* the comparison can come out is a step, and what is appended then is no   *)
(* line (Torn).  The offsite command, which reads the copy, is left out.    *)
(***************************************************************************)
EXTENDS EventLog

CONSTANT MaxPassFaults    \* bound: passes that an I/O error ends

ASSUME BackupAssumption == MaxPassFaults \in Nat

VARIABLES
  copy,       \* the pieces in the copy
  settled,    \* how many of them a power loss cannot take
  pass,       \* the pass in progress: its next step
  outran,     \* history: the copy has what a power loss took from the log
  passFaults  \* how many passes failed

\* As in SequencesExt.
IsPrefix(s, t) == Len(s) <= Len(t) /\ SubSeq(t, 1, Len(s)) = s

backup == <<copy, settled, pass, outran, passFaults>>
allVars == <<vars, backup>>

BackupTypeOK ==
  /\ TypeOK
  /\ copy \in Seq(Event \cup {Torn, NL})
  /\ settled \in 0..Len(copy)
  /\ pass \in {"wait", "read", "sync"}
  /\ outran \in BOOLEAN
  /\ passFaults \in 0..MaxPassFaults

BackupInit ==
  /\ Init
  /\ copy = << >> /\ settled = 0
  /\ pass = "wait"
  /\ outran = FALSE
  /\ passFaults = 0

-----------------------------------------------------------------------------
(***************************************************************************)
(* One pass over the file: run_periodic, run_once, sync_dir and sync_file.  *)
(***************************************************************************)
Pass(from, to) == mode = "up" /\ pass = from /\ pass' = to /\ UNCHANGED vars

\* The copy is longer: it is removed, and sync_file looks again.
Discard ==
  /\ Pass("wait", "wait")
  /\ copy # << >> /\ ~IsPrefix(copy, file)
  /\ copy' = << >> /\ settled' = 0 /\ outran' = FALSE
  /\ UNCHANGED passFaults

Compare_Once ==    \* mutant: every file is taken to be written once
  /\ Pass("wait", "read")
  /\ copy = << >> /\ file # << >>
  /\ UNCHANGED <<copy, settled, outran, passFaults>>

\* The copy is shorter.  (If the lengths are the same, nothing is done.)
Compare ==
  /\ Pass("wait", "read")
  /\ copy # file
  /\ UNCHANGED <<copy, settled, outran, passFaults>>

\* The copy, with a tail that does not belong to it.
Mixed(c) == IF c # << >> /\ c[Len(c)] = Torn THEN c ELSE Append(c, Torn)

CopyTail_FromStart ==    \* mutant: does not seek to the end of the copy
  /\ Pass("read", "sync")
  /\ copy' = IF IsPrefix(copy, file) THEN copy \o file ELSE Mixed(copy)
  /\ UNCHANGED <<settled, outran, passFaults>>

\* read_to_end reads what is there by now, and write_all appends it.
CopyTail ==
  /\ Pass("read", "sync")
  /\ copy' = IF IsPrefix(copy, file)
             THEN copy \o SubSeq(file, Len(copy) + 1, Len(file))
             ELSE Mixed(copy)
  /\ UNCHANGED <<settled, outran, passFaults>>

CopySynced ==
  /\ Pass("sync", "wait")
  /\ settled' = Len(copy)
  /\ UNCHANGED <<copy, outran, passFaults>>

\* An error ends the pass; some of the tail may have been written.
PassFails ==
  /\ pass # "wait" /\ Pass(pass, "wait")
  /\ passFaults < MaxPassFaults /\ passFaults' = passFaults + 1
  /\ copy' \in IF pass = "read" /\ IsPrefix(copy, file)
               THEN {SubSeq(file, 1, n) : n \in Len(copy)..Len(file)} ELSE {copy}
  /\ UNCHANGED <<settled, outran>>

RunOnce == Discard \/ Compare \/ CopyTail \/ CopySynced

-----------------------------------------------------------------------------
(***************************************************************************)
(* Crashes, for the log and the copy together.                              *)
(***************************************************************************)
ProcessDies ==
  /\ ProcessCrash
  /\ pass' = "wait"
  /\ UNCHANGED <<copy, settled, outran, passFaults>>

PowerFails ==
  /\ PowerLoss
  /\ pass' = "wait"
  /\ \E n \in settled..Len(copy) : copy' = SubSeq(copy, 1, n)
  /\ settled' = Len(copy')
  /\ outran' = (outran \/ ~IsPrefix(copy', file'))
  /\ UNCHANGED passFaults

Log ==
  /\ Begin \/ WriteJson \/ WriteNewline \/ SyncData \/ Apply \/ AppendFails \/ OpenAndReplay
  /\ UNCHANGED backup

BackupNext == Log \/ RunOnce \/ PassFails \/ ProcessDies \/ PowerFails

\* run_periodic never ends, and neither do the operations of the store.
BackupSpec == BackupInit /\ [][BackupNext]_allVars /\ WF_allVars(RunOnce)

-----------------------------------------------------------------------------
(***************************************************************************)
(* "Correct as long as dest's existing bytes are a true prefix of src's     *)
(* current content, which holds for our append-only event logs": it holds   *)
(* while operations append during a pass, writes fail on either side and    *)
(* the process dies at any point, and so what is restored from the copy is  *)
(* a state that the store was in.  The one way out is a power loss that     *)
(* takes from the log what the copy has, until a pass finds the copy        *)
(* longer.                                                                  *)
(***************************************************************************)
CopyIsPrefix == outran \/ IsPrefix(copy, file)

(***************************************************************************)
(* "Callers apply an event to in-memory state only *after* a successful     *)
(* append": what an operation acknowledged is beyond the reach of a power   *)
(* loss from then on and, whenever the server is up, applied once and in    *)
(* order.                                                                   *)
(***************************************************************************)
AckedKept == BackupTypeOK /\ AckedOnDisk /\ AckedSurvive

(***************************************************************************)
(* "A single pass's failure is logged and retried next interval": what an   *)
(* operation acknowledged gets into the copy, unless the server goes down   *)
(* first or the copy is not of this log any more.                           *)
(***************************************************************************)
AckedAreCopied ==
  \A e \in Event : e \in acked ~> e \in ToSet(copy) \/ mode # "up" \/ outran
=============================================================================
