------------------------------ MODULE MCStorage ------------------------------
(***************************************************************************)
(* For TLC: what the server keeps on disk in the two ways it has, one of    *)
(* them in each behaviour.  An event log with its backup, and a table that  *)
(* is rewritten as a whole.  They share no state; `part` says which of the  *)
(* two a behaviour is about, and the other stays as it was initially.       *)
(***************************************************************************)
EXTENDS Backup, LatestCot

VARIABLE part

StorageVars == <<part, allVars, tableVars>>

StorageInit == part \in {"log", "table"} /\ BackupInit /\ TableInit

StorageNext ==
  /\ UNCHANGED part
  /\ \/ part = "log" /\ BackupNext /\ UNCHANGED tableVars
     \/ part = "table" /\ TableNext /\ UNCHANGED allVars

StorageSpec ==
  /\ StorageInit /\ [][StorageNext]_StorageVars
  /\ WF_StorageVars(part = "log" /\ RunOnce /\ UNCHANGED <<part, tableVars>>)
=============================================================================
