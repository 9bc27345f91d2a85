----------------------------- MODULE LatestCot -----------------------------
(***************************************************************************)
(* The latest CoT event per uid (src/src/latest_cot.rs): a bounded table in *)
(* memory, fed by the relay hub and by requests, that is written as a whole *)
(* to a temporary file and renamed over latest-cot.json every few seconds.  *)
(*                                                                          *)
(* An event is the time at which it was recorded.  The file is not fsynced: *)
(* until the system has written it back, a power loss can leave it empty    *)
(* (Damaged).                                                               *)
(***************************************************************************)
EXTENDS Naturals, FiniteSets

CONSTANTS Uid,
          MAX_UIDS,
          MaxTime,     \* bound: the clock
          MaxFaults    \* bound: failed saves, crashes and power losses

ASSUME TableAssumption ==
  MAX_UIDS \in Nat \ {0} /\ MaxTime \in Nat \ {0} /\ MaxFaults \in Nat

VARIABLES
  events,    \* State.events: the time of the latest event of each known uid
  dirty,     \* State.dirty
  clock,     \* now_unix_millis
  save,      \* save_if_dirty in progress: [pc, table]
  disk,      \* latest-cot.json: [whole, table]
  fresh,     \* the system has not written the file back yet
  last,      \* history: when each uid was recorded last, 0 if unknown at the start
  missed,    \* history: a save failed, and none succeeded since
  faults     \* how many faults there were

tableFiles == <<save, disk, fresh, missed>>
tableVars == <<events, dirty, clock, tableFiles, last, faults>>

Table == UNION {[us -> 1..MaxTime] : us \in SUBSET Uid}

NoEvents == << >>
Idle == [pc |-> "idle", table |-> NoEvents]
Damaged == [whole |-> FALSE, table |-> NoEvents]

TableTypeOK ==
  /\ events \in Table /\ Cardinality(DOMAIN events) <= MAX_UIDS
  /\ dirty \in BOOLEAN /\ fresh \in BOOLEAN /\ missed \in BOOLEAN
  /\ clock \in 1..MaxTime
  /\ save \in [pc: {"idle", "write", "rename"}, table: Table]
  /\ disk \in [whole: BOOLEAN, table: Table]
  /\ last \in [Uid -> 0..MaxTime]
  /\ faults \in 0..MaxFaults

TableInit ==
  /\ events = NoEvents /\ dirty = FALSE
  /\ clock = 1
  /\ save = Idle
  /\ disk = [whole |-> TRUE, table |-> NoEvents]
  /\ fresh = FALSE
  /\ last = [u \in Uid |-> 0]
  /\ missed = FALSE
  /\ faults = 0

Fault == faults < MaxFaults /\ faults' = faults + 1

-----------------------------------------------------------------------------
(***************************************************************************)
(* The table.                                                               *)
(***************************************************************************)
\* min_by_key: of several, any (the table has no order).
Oldest(e) == {u \in DOMAIN e : \A v \in DOMAIN e : e[u] <= e[v]}

\* The tables that record can leave.
Recorded(e, u) ==
  LET full == Cardinality(DOMAIN e) >= MAX_UIDS /\ u \notin DOMAIN e
      kept == IF full THEN {(DOMAIN e) \ {v} : v \in Oldest(e)} ELSE {DOMAIN e}
  IN  {[v \in k \cup {u} |-> IF v = u THEN clock ELSE e[v]] : k \in kept}

\* A client's event from the hub, or the CoT file of a mission package.
Record(u) ==
  /\ events' \in Recorded(events, u)
  /\ dirty' = TRUE
  /\ last' = [last EXCEPT ![u] = clock]
  /\ UNCHANGED <<clock, tableFiles, faults>>

Tick ==
  /\ clock < MaxTime /\ clock' = clock + 1
  /\ UNCHANGED <<events, dirty, tableFiles, last, faults>>

-----------------------------------------------------------------------------
(***************************************************************************)
(* save_if_dirty, by the task of spawn_feed: only the first step holds the  *)
(* lock.                                                                    *)
(***************************************************************************)
TakeSnapshot ==
  /\ save = Idle /\ dirty
  /\ dirty' = FALSE
  /\ save' = [pc |-> "write", table |-> events]
  /\ UNCHANGED <<events, clock, disk, fresh, missed, last, faults>>

WriteTmp ==
  /\ save.pc = "write"
  /\ save' = [save EXCEPT !.pc = "rename"]
  /\ UNCHANGED <<events, dirty, clock, disk, fresh, missed, last, faults>>

Rename_Late ==    \* mutant: clears the flag of what was recorded meanwhile
  /\ save.pc = "rename"
  /\ save' = Idle /\ dirty' = FALSE
  /\ disk' = [whole |-> TRUE, table |-> save.table]
  /\ fresh' = TRUE /\ missed' = FALSE
  /\ UNCHANGED <<events, clock, last, faults>>

Rename ==
  /\ save.pc = "rename"
  /\ save' = Idle
  /\ disk' = [whole |-> TRUE, table |-> save.table]
  /\ fresh' = TRUE /\ missed' = FALSE
  /\ UNCHANGED <<events, dirty, clock, last, faults>>

\* The error is logged; dirty is clear already.
SaveFails ==
  /\ save # Idle /\ Fault
  /\ save' = Idle /\ missed' = TRUE
  /\ UNCHANGED <<events, dirty, clock, disk, fresh, last>>

WriteBack ==
  /\ fresh /\ fresh' = FALSE
  /\ UNCHANGED <<events, dirty, clock, save, disk, missed, last, faults>>

(***************************************************************************)
(* The process dies and starts again: load.                                 *)
(***************************************************************************)
Load(d) ==
  /\ Fault
  /\ events' = IF d.whole THEN d.table ELSE NoEvents
  /\ disk' = d
  /\ dirty' = FALSE
  /\ save' = Idle /\ missed' = FALSE
  /\ last' = [u \in Uid |-> IF u \in DOMAIN events' THEN events'[u] ELSE 0]
  /\ UNCHANGED clock

TableCrash == Load(disk) /\ UNCHANGED fresh

TableLost == fresh /\ Load(Damaged) /\ fresh' = FALSE

-----------------------------------------------------------------------------
Save == TakeSnapshot \/ WriteTmp \/ Rename

TableNext ==
  \/ \E u \in Uid : Record(u)
  \/ Tick
  \/ Save \/ SaveFails \/ WriteBack
  \/ TableCrash \/ TableLost

TableSpec == TableInit /\ [][TableNext]_tableVars

-----------------------------------------------------------------------------
(***************************************************************************)
(* "The oldest are forgotten first": a uid that was forgotten was recorded  *)
(* no later than any that is remembered, over any number of evictions since *)
(* the start, whatever the file held then.                                  *)
(***************************************************************************)
OldestForgottenFirst ==
  \A u \in DOMAIN events, v \in Uid \ DOMAIN events : last[v] <= events[u]

(***************************************************************************)
(* save_if_dirty writes "if anything changed since the last save": while no *)
(* save is under way and nothing is dirty, the file is what memory has,     *)
(* events that arrived during the last save included - unless that save     *)
(* failed: dirty is cleared before the write, and the next event saves.     *)
(***************************************************************************)
CleanIsSaved ==
  save = Idle /\ ~dirty /\ ~missed
    => disk = [whole |-> TRUE, table |-> events] \/ (~disk.whole /\ events = NoEvents)

(***************************************************************************)
(* The table of latest events is within its bound, has the newest and is on *)
(* the disk when it is clean: all of it together.                           *)
(***************************************************************************)
LatestKept == TableTypeOK /\ OldestForgottenFirst /\ CleanIsSaved
=============================================================================
