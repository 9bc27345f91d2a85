---------------------------- MODULE StorageProofs ----------------------------
(***************************************************************************)
(* Proofs about the event log and its copy, for any number of events,       *)
(* crashes and failures: the copy is a prefix of the log, what was          *)
(* acknowledged stays in the part of the file that power losses cannot      *)
(* take, and the log implements DurableLog.                                 *)
(***************************************************************************)
EXTENDS Backup, WellFoundedInduction, TLAPS

\* Most steps are about sets and functions only: Zenon proves them.  The others say SMT.
USE Zenon

Piece == Event \cup {Torn, NL}

LogTypes ==
  /\ file \in Seq(Piece) /\ synced \in 0..Len(file)
  /\ issued \in 0..MaxEvents
  /\ copy \in Seq(Piece) /\ settled \in 0..Len(copy)
  /\ outran \in BOOLEAN
  /\ writing \in {"idle", "json", "newline", "sync", "apply"}
  /\ writing # "idle" => issued \in Event

\* Pieces by position: the form of "prefix" that steps are compared in.
Begins(s, t) == Len(s) <= Len(t) /\ \A i \in 1..Len(s) : s[i] = t[i]

-----------------------------------------------------------------------------
\* Facts about sequences, in the form the steps below use.
LEMMA LengthNat ==
  ASSUME NEW S, NEW s \in Seq(S)
  PROVE  Len(s) \in Nat
BY SMT

LEMMA SameSequence ==
  ASSUME NEW S, NEW s \in Seq(S), NEW t \in Seq(S),
         Len(s) = Len(t), \A i \in 1..Len(s) : s[i] = t[i]
  PROVE  s = t
BY SMT

LEMMA WholeSequence ==
  ASSUME NEW S, NEW s \in Seq(S)
  PROVE  SubSeq(s, 1, Len(s)) = s
<1>1. /\ SubSeq(s, 1, Len(s)) \in Seq(S) /\ Len(SubSeq(s, 1, Len(s))) = Len(s)
      /\ \A i \in 1..Len(s) : SubSeq(s, 1, Len(s))[i] = s[i]
  BY SMT
<1> QED
  BY <1>1, SameSequence

LEMMA SecondPart ==
  ASSUME NEW S, NEW s \in Seq(S), NEW t \in Seq(S),
         NEW i \in Nat, i > Len(s), i <= Len(s) + Len(t)
  PROVE  (s \o t)[i] = t[i - Len(s)]
BY SMT

LEMMA PrefixByPosition ==
  ASSUME NEW s \in Seq(Piece), NEW t \in Seq(Piece)
  PROVE  IsPrefix(s, t) <=> Begins(s, t)
<1>1. /\ Len(s) \in Nat /\ Len(t) \in Nat
      /\ SubSeq(s, 1, Len(s)) = s
  BY WholeSequence, LengthNat
<1>2. ASSUME Len(s) <= Len(t)
      PROVE  (SubSeq(t, 1, Len(s)) = s) <=> \A i \in 1..Len(s) : s[i] = t[i]
  <2>1. /\ SubSeq(t, 1, Len(s)) \in Seq(Piece) /\ Len(SubSeq(t, 1, Len(s))) = Len(s)
        /\ \A i \in 1..Len(s) : SubSeq(t, 1, Len(s))[i] = t[i]
    BY SMT, <1>1, <1>2
  <2> QED
    BY <2>1, SameSequence
<1> QED
  BY <1>1, <1>2 DEF IsPrefix, Begins

\* What every step does to the file, and what the parts of a piece are.
LEMMA CutFacts ==
  ASSUME NEW s \in Seq(Piece), NEW n \in 0..Len(s)
  PROVE  /\ SubSeq(s, 1, n) \in Seq(Piece) /\ Len(SubSeq(s, 1, n)) = n
         /\ \A i \in 1..n : SubSeq(s, 1, n)[i] = s[i]
BY SMT, LengthNat

LEMMA AppendFacts ==
  ASSUME NEW s \in Seq(Piece), NEW p \in Piece
  PROVE  /\ Append(s, p) \in Seq(Piece) /\ Len(Append(s, p)) = Len(s) + 1
         /\ Begins(s, Append(s, p))
         /\ Append(s, p)[Len(s) + 1] = p
BY SMT, LengthNat DEF Begins

\* Appending behind a prefix what follows it gives the whole.
LEMMA TailCompletes ==
  ASSUME NEW s \in Seq(Piece), NEW t \in Seq(Piece), Begins(s, t)
  PROVE  s \o SubSeq(t, Len(s) + 1, Len(t)) = t
<1> DEFINE r == SubSeq(t, Len(s) + 1, Len(t))
<1>0. Len(s) \in Nat /\ Len(t) \in Nat /\ Len(s) <= Len(t)
  BY LengthNat DEF Begins
<1>1. /\ r \in Seq(Piece) /\ Len(r) = Len(t) - Len(s)
      /\ \A i \in 1..Len(r) : r[i] = t[Len(s) + i]
  BY SMT, <1>0
<1> HIDE DEF r
<1>2. s \o r \in Seq(Piece) /\ Len(s \o r) = Len(t)
  BY SMT, <1>0, <1>1
<1>3. ASSUME NEW i \in 1..Len(t)
      PROVE  (s \o r)[i] = t[i]
  <2>0. i \in Nat /\ 1 <= i /\ i <= Len(t) /\ (i <= Len(s) \/ i > Len(s))
    BY SMT, <1>0
  <2>1. CASE i <= Len(s)
    BY SMTT(30), <1>0, <1>1, <2>1 DEF Begins
  <2>2. CASE i > Len(s)
    <3> DEFINE j == i - Len(s)
    <3>1. j \in 1..Len(r) /\ Len(s) + j = i
      BY SMT, <1>0, <1>1, <2>0, <2>2
    <3>2. (s \o r)[i] = r[j]
      BY SMT, <1>0, <1>1, <2>0, <2>2, SecondPart
    <3>3. r[j] = t[Len(s) + j]
      BY <1>1, <3>1
    <3> QED
      BY <3>1, <3>2, <3>3
  <2> QED
    BY <2>0, <2>1, <2>2
<1>4. s \o r = t
  BY <1>2, <1>3, SameSequence
<1> QED
  BY <1>4 DEF r

-----------------------------------------------------------------------------
(***************************************************************************)
(* The three kinds of step of the log: the file grows by a piece at most,   *)
(* stays, or loses what was not synced (and may get a torn piece).          *)
(***************************************************************************)
Grows == /\ Begins(file, file') /\ file' \in Seq(Piece)
         /\ synced' \in {synced, Len(file)} /\ synced' <= Len(file')

Cut == \E n \in synced..Len(file) :
         /\ file' \in {SubSeq(file, 1, n), Append(SubSeq(file, 1, n), Torn)}
         /\ synced' = Len(file')

LEMMA LogGrows ==
  ASSUME EventLogAssumption, LogTypes, Log
  PROVE  /\ Grows /\ UNCHANGED backup
         /\ issued' \in 0..MaxEvents
         /\ writing' \in {"idle", "json", "newline", "sync", "apply"}
         /\ writing' # "idle" => issued' \in Event
<1>0. /\ Len(file) \in Nat /\ synced \in 0..Len(file) /\ file \in Seq(Piece)
      /\ Torn \in Piece /\ NL \in Piece
  BY LengthNat DEF LogTypes, Piece
<1>1. Begins(file, file)
  BY SMT, <1>0 DEF Begins
<1>2. ASSUME NEW p \in Piece, file' = Append(file, p), synced' = synced
      PROVE  Grows
  BY SMT, <1>0, <1>2, AppendFacts DEF Grows
<1>3. ASSUME file' = file, synced' \in {synced, Len(file)}
      PROVE  Grows
  BY SMT, <1>0, <1>1, <1>3 DEF Grows
<1>4. CASE Begin
  <2>1. issued' \in 0..MaxEvents /\ issued' \in Event
    BY SMT, <1>4 DEF Begin, LogTypes, EventLogAssumption, Event
  <2> QED
    BY <1>3, <1>4, <2>1 DEF Begin, Log
<1>5. CASE WriteJson
  BY <1>2, <1>5 DEF WriteJson, Log, LogTypes, Piece
<1>6. CASE WriteNewline
  BY <1>0, <1>2, <1>6 DEF WriteNewline, Log, LogTypes
<1>7. CASE SyncData
  BY <1>3, <1>7 DEF SyncData, Log, LogTypes
<1>8. CASE Apply
  BY <1>3, <1>8 DEF Apply, Log, LogTypes
<1>9. CASE AppendFails
  <2>1. file' = file \/ file' = Append(file, Torn)
    BY <1>9 DEF AppendFails
  <2> QED
    BY <1>0, <1>2, <1>3, <1>9, <2>1 DEF AppendFails, Log, LogTypes
<1>10. CASE OpenAndReplay
  BY <1>3, <1>10 DEF OpenAndReplay, Log, LogTypes
<1> QED
  BY <1>4, <1>5, <1>6, <1>7, <1>8, <1>9, <1>10 DEF Log

LEMMA PowerLossCuts == PowerLoss => Cut
BY DEF PowerLoss, Cut

LEMMA CutKeeps ==
  ASSUME LogTypes, Cut
  PROVE  /\ file' \in Seq(Piece) /\ synced' \in 0..Len(file')
         /\ \A i \in 1..synced : i \in 1..synced' /\ file'[i] = file[i]
<1>0. Len(file) \in Nat /\ synced \in 0..Len(file) /\ file \in Seq(Piece) /\ Torn \in Piece
  BY LengthNat DEF LogTypes, Piece
<1>1. PICK n \in synced..Len(file) :
        /\ file' \in {SubSeq(file, 1, n), Append(SubSeq(file, 1, n), Torn)}
        /\ synced' = Len(file')
  BY DEF Cut
<1> DEFINE kept == SubSeq(file, 1, n)
<1>2. n \in 0..Len(file) /\ n \in Nat /\ synced <= n
  BY SMT, <1>0
<1>3. kept \in Seq(Piece) /\ Len(kept) = n /\ \A i \in 1..n : kept[i] = file[i]
  BY <1>0, <1>2, CutFacts
<1> HIDE DEF kept
<1>4. CASE file' = kept
  BY SMT, <1>0, <1>1, <1>2, <1>3, <1>4
<1>5. CASE file' = Append(kept, Torn)
  <2>1. Append(kept, Torn) \in Seq(Piece) /\ Len(Append(kept, Torn)) = n + 1
        /\ Begins(kept, Append(kept, Torn))
    BY <1>0, <1>3, AppendFacts
  <2> QED
    BY SMT, <1>0, <1>1, <1>2, <1>3, <1>5, <2>1 DEF Begins
<1> QED
  BY <1>1, <1>4, <1>5 DEF kept

-----------------------------------------------------------------------------
LEMMA CopyTypes ==
  ASSUME LogTypes, RunOnce \/ PassFails
  PROVE  /\ copy' \in Seq(Piece) /\ settled' \in 0..Len(copy')
         /\ outran' \in BOOLEAN
         /\ outran' \/ IsPrefix(copy, file) \/ ~CopyIsPrefix \/ copy' = << >>
         /\ IsPrefix(copy, file) => Begins(copy', file)
<1>0. /\ Len(file) \in Nat /\ file \in Seq(Piece) /\ Torn \in Piece
      /\ Len(copy) \in Nat /\ copy \in Seq(Piece) /\ settled \in 0..Len(copy)
      /\ outran \in BOOLEAN
  BY LengthNat DEF LogTypes, Piece
<1>1. IsPrefix(copy, file) <=> Begins(copy, file)
  BY <1>0, PrefixByPosition
<1>2. CASE Discard
  <2>1. copy' = << >> /\ settled' = 0 /\ outran' = FALSE
    BY <1>2 DEF Discard
  <2>2. << >> \in Seq(Piece) /\ Len(<< >>) = 0 /\ Begins(<< >>, file)
    BY SMT, <1>0 DEF Begins
  <2>3. copy' \in Seq(Piece) /\ settled' \in 0..Len(copy') /\ Begins(copy', file)
    BY SMT, <2>1, <2>2
  <2> QED
    BY <2>1, <2>3
<1>3. CASE Compare
  BY <1>0, <1>1, <1>3 DEF Compare, CopyIsPrefix
<1>4. CASE CopyTail
  <2>1. UNCHANGED <<settled, outran>>
    BY <1>4 DEF CopyTail
  <2>2. CASE IsPrefix(copy, file)
    <3>1. copy' = file
      BY <1>0, <1>1, <1>4, <2>2, TailCompletes DEF CopyTail
    <3>2. Begins(file, file) /\ Len(copy) <= Len(file)
      BY SMT, <1>0, <1>1, <2>2 DEF Begins
    <3> QED
      BY SMT, <1>0, <2>1, <2>2, <3>1, <3>2
  <2>3. CASE ~IsPrefix(copy, file)
    <3>1. copy' \in {copy, Append(copy, Torn)}
      BY <1>4, <2>3 DEF CopyTail, Mixed
    <3>2. copy' \in Seq(Piece) /\ Len(copy') \in {Len(copy), Len(copy) + 1}
      BY <1>0, <3>1, AppendFacts
    <3> QED
      BY SMT, <1>0, <2>1, <2>3, <3>2 DEF CopyIsPrefix
  <2> QED
    BY <2>2, <2>3
<1>5. CASE CopySynced
  BY SMT, <1>0, <1>1, <1>5 DEF CopySynced, CopyIsPrefix
<1>6. CASE PassFails
  <2>1. UNCHANGED <<settled, outran>>
    BY <1>6 DEF PassFails
  <2>2. ASSUME NEW n \in Len(copy)..Len(file), copy' = SubSeq(file, 1, n)
        PROVE  copy' \in Seq(Piece) /\ Len(copy) <= Len(copy') /\ Begins(copy', file)
    <3>1. n \in 0..Len(file)
      BY SMT, <1>0
    <3> QED
      BY SMT, <1>0, <2>2, <3>1, CutFacts DEF Begins
  <2>3. copy' = copy \/ (IsPrefix(copy, file) /\ \E n \in Len(copy)..Len(file) : copy' = SubSeq(file, 1, n))
    BY <1>6 DEF PassFails
  <2>4. copy' \in Seq(Piece) /\ Len(copy) <= Len(copy') /\ Len(copy') \in Nat
    BY SMT, <1>0, <2>2, <2>3, LengthNat
  <2> QED
    BY SMT, <1>0, <1>1, <2>1, <2>2, <2>3, <2>4 DEF CopyIsPrefix
<1> QED
  BY <1>2, <1>3, <1>4, <1>5, <1>6 DEF RunOnce

LEMMA PrefixNext ==
  ASSUME EventLogAssumption, LogTypes, CopyIsPrefix, [BackupNext]_allVars
  PROVE  LogTypes' /\ CopyIsPrefix'
<1>0. /\ Len(file) \in Nat /\ file \in Seq(Piece) /\ synced \in 0..Len(file)
      /\ Len(copy) \in Nat /\ copy \in Seq(Piece)
  BY LengthNat DEF LogTypes
<1>1. CASE Log
  <2>1. /\ Begins(file, file') /\ file' \in Seq(Piece)
        /\ synced' \in {synced, Len(file)} /\ synced' <= Len(file')
        /\ UNCHANGED <<copy, settled, outran>>
    BY <1>1, LogGrows DEF Grows, backup
  <2>2. LogTypes'
    <3>1. synced' \in 0..Len(file')
      BY SMT, <1>0, <2>1, LengthNat
    <3> QED
      BY <1>1, <2>1, <3>1, LogGrows DEF LogTypes
  <2>3. ASSUME outran
        PROVE  CopyIsPrefix'
    BY <2>1, <2>3 DEF CopyIsPrefix
  <2>4. ASSUME IsPrefix(copy, file)
        PROVE  CopyIsPrefix'
    <3>1. Begins(copy, file) /\ Len(file') \in Nat
      BY <1>0, <2>1, <2>4, PrefixByPosition, LengthNat
    <3>2. Begins(copy, file')
      BY SMT, <1>0, <2>1, <3>1 DEF Begins
    <3>3. IsPrefix(copy, file')
      BY <1>0, <2>1, <3>2, PrefixByPosition
    <3> QED
      BY <2>1, <3>3 DEF CopyIsPrefix
  <2> QED
    BY <2>2, <2>3, <2>4 DEF CopyIsPrefix
<1>2. CASE RunOnce \/ PassFails
  <2>1. UNCHANGED vars
    BY <1>2 DEF RunOnce, Discard, Compare, CopyTail, CopySynced, PassFails, Pass
  <2>2. /\ copy' \in Seq(Piece) /\ settled' \in 0..Len(copy') /\ outran' \in BOOLEAN
        /\ outran' \/ IsPrefix(copy, file) \/ ~CopyIsPrefix \/ copy' = << >>
        /\ IsPrefix(copy, file) => Begins(copy', file)
    BY <1>2, CopyTypes
  <2>3. LogTypes'
    BY <2>1, <2>2 DEF LogTypes, vars
  <2>4. Begins(<< >>, file)
    BY SMT, <1>0 DEF Begins
  <2>5. outran' \/ Begins(copy', file)
    BY <2>2, <2>4
  <2>6. IsPrefix(copy', file) <=> Begins(copy', file)
    BY <1>0, <2>2, PrefixByPosition
  <2>7. file' = file
    BY <2>1 DEF vars
  <2> QED
    BY <2>3, <2>5, <2>6, <2>7 DEF CopyIsPrefix
<1>3. CASE ProcessDies
  BY <1>3 DEF ProcessDies, ProcessCrash, Down, LogTypes, CopyIsPrefix
<1>4. CASE PowerFails
  <2>1. file' \in Seq(Piece) /\ synced' \in 0..Len(file')
    BY <1>4, PowerLossCuts, CutKeeps DEF PowerFails
  <2>2. copy' \in Seq(Piece) /\ settled' \in 0..Len(copy')
    <3>1. PICK n \in settled..Len(copy) : copy' = SubSeq(copy, 1, n)
      BY <1>4 DEF PowerFails
    <3>2. n \in 0..Len(copy)
      BY SMT, <1>0 DEF LogTypes
    <3>3. copy' \in Seq(Piece) /\ Len(copy') \in Nat
      BY <1>0, <3>1, <3>2, CutFacts, LengthNat
    <3> QED
      BY SMT, <1>4, <3>3 DEF PowerFails
  <2>3. outran' = (outran \/ ~IsPrefix(copy', file'))
    BY <1>4 DEF PowerFails
  <2>4. writing' = "idle" /\ issued' = issued
    BY <1>4 DEF PowerFails, PowerLoss, Down
  <2>5. outran' \in BOOLEAN /\ CopyIsPrefix'
    BY <2>3 DEF CopyIsPrefix
  <2> QED
    BY <2>1, <2>2, <2>4, <2>5 DEF LogTypes
<1>5. CASE UNCHANGED allVars
  BY <1>5 DEF allVars, vars, backup, LogTypes, CopyIsPrefix
<1> QED
  BY <1>1, <1>2, <1>3, <1>4, <1>5 DEF BackupNext

-----------------------------------------------------------------------------
\* Event e is in the first n pieces of file f.
In(e, f, n) == \E i \in 1..n : f[i] = e

(***************************************************************************)
(* The event of the append in progress is in the file once it is written    *)
(* and in its synced part once it is synced: what Apply acknowledges.       *)
(***************************************************************************)
DiskInv ==
  /\ \A e \in acked : In(e, file, synced)
  /\ writing \in {"newline", "sync"} => In(issued, file, Len(file))
  /\ writing = "apply" => In(issued, file, synced)

LEMMA InKept ==
  ASSUME NEW e, NEW f, NEW g, NEW n \in Nat, NEW m \in Nat, In(e, f, n),
         \A i \in 1..n : i \in 1..m /\ g[i] = f[i]
  PROVE  In(e, g, m)
BY DEF In

LEMMA DiskLog ==
  ASSUME EventLogAssumption, LogTypes, DiskInv, Log
  PROVE  DiskInv'
<1>0. Len(file) \in Nat /\ synced \in Nat /\ synced <= Len(file) /\ file \in Seq(Piece)
  BY SMT, LengthNat DEF LogTypes
<1>1. /\ Begins(file, file') /\ file' \in Seq(Piece)
      /\ synced' \in {synced, Len(file)} /\ synced' <= Len(file')
  BY LogGrows DEF Grows
<1>2. Len(file') \in Nat /\ synced' \in Nat
  BY <1>0, <1>1, LengthNat
<1>3. ASSUME NEW e, In(e, file, synced)
      PROVE  In(e, file', synced')
  BY SMT, <1>0, <1>1, <1>2, <1>3, InKept DEF Begins
<1>4. ASSUME NEW e, In(e, file, Len(file))
      PROVE  In(e, file', Len(file'))
  BY SMT, <1>0, <1>1, <1>2, <1>4, InKept DEF Begins
<1>5. CASE Begin
  BY <1>3, <1>5 DEF Begin, DiskInv
<1>6. CASE WriteJson
  <2>1. file' = Append(file, issued) /\ issued \in Piece
    BY <1>6 DEF WriteJson, LogTypes, Piece
  <2>2. Len(file') = Len(file) + 1 /\ file'[Len(file) + 1] = issued
    BY <1>0, <2>1, AppendFacts
  <2>3. In(issued, file', Len(file'))
    BY SMT, <1>0, <2>2 DEF In
  <2> QED
    BY <1>3, <1>6, <2>3 DEF WriteJson, DiskInv
<1>7. CASE WriteNewline
  BY <1>3, <1>4, <1>7 DEF WriteNewline, DiskInv
<1>8. CASE SyncData
  <2>1. /\ writing = "sync" /\ writing' = "apply" /\ synced' = Len(file)
        /\ UNCHANGED <<file, acked, issued>>
    BY <1>8 DEF SyncData
  <2> QED
    BY <1>3, <2>1 DEF DiskInv
<1>9. CASE Apply
  BY <1>3, <1>9 DEF Apply, DiskInv
<1>10. CASE AppendFails
  BY <1>3, <1>10 DEF AppendFails, DiskInv
<1>11. CASE OpenAndReplay
  BY <1>11 DEF OpenAndReplay, DiskInv
<1> QED
  BY <1>5, <1>6, <1>7, <1>8, <1>9, <1>10, <1>11 DEF Log

LEMMA DiskNext ==
  ASSUME EventLogAssumption, LogTypes, DiskInv, [BackupNext]_allVars
  PROVE  DiskInv'
<1>1. CASE Log
  BY <1>1, DiskLog
<1>2. CASE RunOnce \/ PassFails \/ UNCHANGED allVars
  <2>1. UNCHANGED vars
    BY <1>2 DEF RunOnce, Discard, Compare, CopyTail, CopySynced, PassFails, Pass, allVars
  <2> QED
    BY <2>1 DEF vars, DiskInv
<1>3. CASE ProcessDies
  BY <1>3 DEF ProcessDies, ProcessCrash, Down, DiskInv
<1>4. CASE PowerFails
  <2>1. writing' = "idle" /\ UNCHANGED acked
    BY <1>4 DEF PowerFails, PowerLoss, Down
  <2>2. /\ file' \in Seq(Piece) /\ synced' \in 0..Len(file')
        /\ \A i \in 1..synced : i \in 1..synced' /\ file'[i] = file[i]
    BY <1>4, PowerLossCuts, CutKeeps DEF PowerFails
  <2>3. synced \in Nat /\ synced' \in Nat
    BY SMT, <2>2 DEF LogTypes
  <2>4. \A e \in acked : In(e, file', synced')
    BY <2>2, <2>3, InKept DEF DiskInv
  <2> QED
    BY <2>1, <2>4 DEF DiskInv
<1> QED
  BY <1>1, <1>2, <1>3, <1>4 DEF BackupNext

LEMMA BackupInvInit ==
  ASSUME EventLogAssumption, BackupInit
  PROVE  LogTypes /\ CopyIsPrefix /\ DiskInv
<1>1. << >> \in Seq(Piece) /\ Len(<< >>) = 0
  BY SMT
<1>2. LogTypes
  <2>1. 0 \in 0..Len(<< >>) /\ 0 \in 0..MaxEvents
    BY SMT, <1>1 DEF EventLogAssumption
  <2>2. /\ file = << >> /\ synced = 0 /\ issued = 0 /\ writing = "idle"
        /\ copy = << >> /\ settled = 0 /\ outran = FALSE
    BY DEF BackupInit, Init
  <2> QED
    BY <1>1, <2>1, <2>2 DEF LogTypes
<1>3. IsPrefix(<< >>, << >>)
  BY SMT, <1>1, WholeSequence DEF IsPrefix
<1>4. DiskInv
  BY DEF BackupInit, Init, DiskInv
<1> QED
  BY <1>2, <1>3, <1>4 DEF BackupInit, Init, CopyIsPrefix

-----------------------------------------------------------------------------
(***************************************************************************)
(* sync_file relies on "dest's existing bytes are a true prefix of src's    *)
(* current content": so it is, whatever operations append during a pass and *)
(* whatever fails, until a power loss takes from the log what the copy has. *)
(***************************************************************************)
THEOREM CopyIsPrefixAlways == BackupSpec => []CopyIsPrefix
<1>1. BackupInit => LogTypes /\ CopyIsPrefix
  BY BackupInvInit, EventLogAssumption
<1>2. LogTypes /\ CopyIsPrefix /\ [BackupNext]_allVars => (LogTypes /\ CopyIsPrefix)'
  BY PrefixNext, EventLogAssumption
<1> QED
  BY <1>1, <1>2, PTL DEF BackupSpec

-----------------------------------------------------------------------------
(***************************************************************************)
(* Induction: a set of naturals that is not empty has a least element.      *)
(***************************************************************************)
LEMMA LeastNatural ==
  ASSUME NEW T \in SUBSET Nat, T # {}
  PROVE  \E n \in T : \A m \in T : n <= m
<1> DEFINE R == {p \in Nat \X Nat : p[1] < p[2]}
<1>1. IsWellFoundedOn(R, Nat)
  BY NatLessThanWellFounded DEF OpToRel
<1> HIDE DEF R
<1>2. PICK n \in T : \A m \in T : ~(<<m, n>> \in R)
  BY <1>1, WFMin
<1>3. ASSUME NEW m \in T PROVE ~(m < n)
  BY <1>2 DEF R
<1>4. \A m \in T : n <= m
  BY SMT, <1>3
<1> QED BY <1>4

\* What EventsUpto computes at i, from its values k below i.
Step(f, k, i) == IF i = 0 THEN << >>
                 ELSE IF f[i] \in Event THEN Append(k[i - 1], f[i])
                 ELSE k[i - 1]

Computes(f, k, n) == k = [i \in 0..n |-> Step(f, k, i)]

LEMMA UptoExists ==
  ASSUME NEW f, NEW n \in Nat
  PROVE  \E k : Computes(f, k, n)
<1> DEFINE T == {m \in Nat : ~\E k : Computes(f, k, m)}
<1> SUFFICES ASSUME T # {} PROVE FALSE
  OBVIOUS
<1>1. PICK m \in T : \A j \in T : m <= j
  BY LeastNatural
<1>2. m # 0
  <2>1. Computes(f, [i \in 0..0 |-> << >>], 0)
    BY SMT DEF Computes, Step
  <2> QED BY <2>1
<1>3. m - 1 \in Nat /\ m - 1 \notin T
  BY SMT, <1>1, <1>2
<1>4. PICK k : Computes(f, k, m - 1)
  BY <1>3
<1> DEFINE g == [i \in 0..m |-> IF i = m THEN Step(f, k, m) ELSE k[i]]
<1>5. \A i \in 0..m-1 : k[i] = Step(f, k, i) /\ g[i] = k[i]
  <2>1. \A i \in 0..m-1 : i \in 0..m /\ i # m
    BY SMT, <1>3
  <2>2. \A i \in 0..m-1 : k[i] = Step(f, k, i)
    BY <1>4 DEF Computes
  <2> QED BY <2>1, <2>2
<1>6. ASSUME NEW i \in 0..m
      PROVE  g[i] = Step(f, g, i)
  <2>1. i = 0 \/ g[i - 1] = k[i - 1]
    BY SMT, <1>5
  <2>2. Step(f, g, i) = Step(f, k, i)
    BY SMT, <2>1 DEF Step
  <2> QED BY SMT, <1>5, <2>2
<1>7. g = [i \in 0..m |-> g[i]]
  OBVIOUS
<1> HIDE DEF g
<1>8. Computes(f, g, m)
  BY <1>6, <1>7 DEF Computes
<1> QED BY <1>8

LEMMA EventsUptoDef ==
  ASSUME NEW f \in Seq(Piece)
  PROVE  Computes(f, EventsUpto(f), Len(f))
<1>1. PICK k : Computes(f, k, Len(f))
  BY SMT, UptoExists
<1> QED
  BY <1>1 DEF EventsUpto, Computes, Step

LEMMA EventsUptoStep ==
  ASSUME NEW f \in Seq(Piece), NEW i \in 0..Len(f)
  PROVE  EventsUpto(f)[i] = Step(f, EventsUpto(f), i)
BY EventsUptoDef DEF Computes

(***************************************************************************)
(* The first i pieces decide what the first i values are.                   *)
(***************************************************************************)
LEMMA UptoLocal ==
  ASSUME NEW f \in Seq(Piece), NEW g \in Seq(Piece),
         NEW n \in Nat, n <= Len(f), n <= Len(g), \A i \in 1..n : f[i] = g[i]
  PROVE  EventsUpto(f)[n] = EventsUpto(g)[n]
<1> DEFINE T == {m \in Nat : m <= n /\ EventsUpto(f)[m] # EventsUpto(g)[m]}
<1> SUFFICES ASSUME T # {} PROVE FALSE
  BY SMT
<1>1. PICK m \in T : \A j \in T : m <= j
  BY LeastNatural
<1>2. /\ EventsUpto(f)[m] = Step(f, EventsUpto(f), m)
      /\ EventsUpto(g)[m] = Step(g, EventsUpto(g), m)
  BY SMT, EventsUptoStep
<1>3. m # 0
  BY <1>2 DEF Step
<1>4. EventsUpto(f)[m - 1] = EventsUpto(g)[m - 1]
  BY SMT, <1>1, <1>3
<1>5. f[m] = g[m]
  BY SMT, <1>3
<1> QED BY SMT, <1>2, <1>3, <1>4, <1>5 DEF Step

(***************************************************************************)
(* Each value is a sequence of events that are among the pieces it is of.   *)
(***************************************************************************)
LEMMA UptoEvents ==
  ASSUME NEW f \in Seq(Piece), NEW n \in 0..Len(f)
  PROVE  /\ EventsUpto(f)[n] \in Seq(Event)
         /\ \A j \in 1..Len(EventsUpto(f)[n]) : \E i \in 1..n : f[i] = EventsUpto(f)[n][j]
<1> DEFINE E == EventsUpto(f)
           Good(m) == /\ E[m] \in Seq(Event)
                      /\ \A j \in 1..Len(E[m]) : \E i \in 1..m : f[i] = E[m][j]
           T == {m \in Nat : m <= Len(f) /\ ~Good(m)}
<1> SUFFICES ASSUME T # {} PROVE FALSE
  BY SMT
<1>1. PICK m \in T : \A j \in T : m <= j
  BY LeastNatural
<1>2. E[m] = Step(f, E, m)
  BY SMT, EventsUptoStep
<1> HIDE DEF E
<1>3. m # 0
  <2> SUFFICES ASSUME m = 0 PROVE FALSE
    OBVIOUS
  <2>1. E[m] = << >> /\ << >> \in Seq(Event) /\ Len(<< >>) = 0
    BY SMT, <1>2 DEF Step
  <2>2. Good(m)
    BY SMT, <2>1
  <2> QED BY <1>1, <2>2
<1>4. m - 1 \in Nat /\ Good(m - 1)
  BY SMT, <1>1, <1>3
<1>5. CASE f[m] \in Event
  <2>1. E[m] = Append(E[m - 1], f[m])
    BY <1>2, <1>3, <1>5 DEF Step
  <2>2. /\ E[m] \in Seq(Event) /\ Len(E[m]) = Len(E[m - 1]) + 1
        /\ \A j \in 1..Len(E[m - 1]) : E[m][j] = E[m - 1][j]
        /\ E[m][Len(E[m - 1]) + 1] = f[m]
    BY SMT, <1>4, <1>5, <2>1
  <2>3. ASSUME NEW j \in 1..Len(E[m])
        PROVE  \E i \in 1..m : f[i] = E[m][j]
    <3>1. j \in 1..Len(E[m - 1]) \/ j = Len(E[m - 1]) + 1
      BY SMTT(30), <1>4, <2>2
    <3> QED BY SMTT(30), <1>3, <1>4, <2>2, <3>1
  <2> QED BY <2>2, <2>3
<1>6. CASE f[m] \notin Event
  <2>1. E[m] = E[m - 1]
    BY <1>2, <1>3, <1>6 DEF Step
  <2>2. 1..(m - 1) \subseteq 1..m
    BY SMT, <1>4
  <2>3. Good(m)
    BY <1>4, <2>1, <2>2
  <2> QED BY <1>1, <2>3
<1> QED BY <1>5, <1>6

(***************************************************************************)
(* A value begins with every earlier one, and what follows are pieces in    *)
(* between.                                                                 *)
(***************************************************************************)
LEMMA UptoGrows ==
  ASSUME NEW f \in Seq(Piece), NEW a \in 0..Len(f), NEW n \in a..Len(f)
  PROVE  /\ Len(EventsUpto(f)[a]) <= Len(EventsUpto(f)[n])
         /\ \A j \in 1..Len(EventsUpto(f)[a]) : EventsUpto(f)[n][j] = EventsUpto(f)[a][j]
         /\ \A j \in Len(EventsUpto(f)[a])+1..Len(EventsUpto(f)[n]) :
              \E i \in a+1..n : f[i] = EventsUpto(f)[n][j]
<1> DEFINE E == EventsUpto(f)
           Good(m) == /\ Len(E[a]) <= Len(E[m])
                      /\ \A j \in 1..Len(E[a]) : E[m][j] = E[a][j]
                      /\ \A j \in Len(E[a])+1..Len(E[m]) : \E i \in a+1..m : f[i] = E[m][j]
           T == {m \in Nat : m \in a..Len(f) /\ ~Good(m)}
<1> SUFFICES ASSUME T # {} PROVE FALSE
  BY SMT
<1>0. ASSUME NEW m \in 0..Len(f)
      PROVE  E[m] \in Seq(Event) /\ Len(E[m]) \in Nat
  <2>1. E[m] \in Seq(Event)
    BY UptoEvents
  <2> HIDE DEF E
  <2> QED BY SMT, <2>1
<1>1. PICK m \in T : \A j \in T : m <= j
  BY LeastNatural
<1>2. E[m] = Step(f, E, m)
  BY SMT, EventsUptoStep
<1> HIDE DEF E
<1>3. m # a
  BY SMT, <1>0, <1>1
<1>4. m \in Nat /\ m - 1 \in Nat /\ m - 1 \in a..Len(f) /\ m # 0
  BY SMT, <1>1, <1>3
<1>5. Good(m - 1)
  <2>1. m - 1 \notin T
    <3> HIDE DEF T
    <3> QED BY SMT, <1>1, <1>4
  <2> QED BY <1>4, <2>1
<1>6. E[m - 1] \in Seq(Event) /\ Len(E[m - 1]) \in Nat /\ Len(E[a]) \in Nat
  BY SMTT(30), <1>0, <1>4
<1>7. CASE f[m] \in Event
  <2>1. E[m] = Append(E[m - 1], f[m])
    BY <1>2, <1>4, <1>7 DEF Step
  <2>2. /\ Len(E[m]) = Len(E[m - 1]) + 1
        /\ \A j \in 1..Len(E[m - 1]) : E[m][j] = E[m - 1][j]
        /\ E[m][Len(E[m - 1]) + 1] = f[m]
    BY SMTT(30), <1>6, <1>7, <2>1
  <2>3. ASSUME NEW j \in Len(E[a])+1..Len(E[m])
        PROVE  \E i \in a+1..m : f[i] = E[m][j]
    <3>1. CASE j = Len(E[m - 1]) + 1
      BY SMTT(30), <1>4, <2>2, <3>1
    <3>2. CASE j \in Len(E[a])+1..Len(E[m - 1])
      <4>1. PICK i \in a+1..(m - 1) : f[i] = E[m - 1][j]
        BY <1>5, <3>2
      <4>2. i \in a+1..m
        BY SMT, <1>4
      <4>3. j \in 1..Len(E[m - 1])
        BY SMT, <1>6, <3>2
      <4> QED BY <2>2, <4>1, <4>2, <4>3
    <3>3. j = Len(E[m - 1]) + 1 \/ j \in Len(E[a])+1..Len(E[m - 1])
      BY SMTT(30), <1>6, <2>2
    <3> QED BY <3>1, <3>2, <3>3
  <2>4. Len(E[a]) <= Len(E[m]) /\ \A j \in 1..Len(E[a]) : E[m][j] = E[a][j]
    <3>1. /\ Len(E[a]) <= Len(E[m - 1])
          /\ \A j \in 1..Len(E[a]) : E[m - 1][j] = E[a][j]
      BY <1>5
    <3>2. 1..Len(E[a]) \subseteq 1..Len(E[m - 1])
      BY SMT, <1>6, <3>1
    <3>3. Len(E[a]) <= Len(E[m])
      BY SMTT(30), <1>6, <2>2, <3>1
    <3>4. \A j \in 1..Len(E[a]) : E[m][j] = E[a][j]
      BY <2>2, <3>1, <3>2
    <3> QED BY <3>3, <3>4
  <2> QED BY <2>3, <2>4
<1>8. CASE f[m] \notin Event
  <2>1. E[m] = E[m - 1]
    BY <1>2, <1>4, <1>8 DEF Step
  <2>2. a+1..(m - 1) \subseteq a+1..m
    BY SMT, <1>4
  <2> QED BY <1>5, <2>1, <2>2
<1> QED BY <1>7, <1>8

-----------------------------------------------------------------------------
(***************************************************************************)
(* What appending a piece to the file, and cutting it, does to a replay.    *)
(***************************************************************************)
LEMMA ReplayEvents ==
  ASSUME NEW f \in Seq(Piece)
  PROVE  /\ Replay(f) \in Seq(Event)
         /\ \A j \in 1..Len(Replay(f)) : \E i \in 1..Len(f) : f[i] = Replay(f)[j]
<1>1. Len(f) \in 0..Len(f)
  BY SMT
<1>2. /\ EventsUpto(f)[Len(f)] \in Seq(Event)
      /\ \A j \in 1..Len(EventsUpto(f)[Len(f)]) :
           \E i \in 1..Len(f) : f[i] = EventsUpto(f)[Len(f)][j]
  BY <1>1, UptoEvents
<1> QED
  BY <1>2 DEF Replay

LEMMA ReplayAppend ==
  ASSUME NEW f \in Seq(Piece), NEW p \in Piece
  PROVE  Replay(Append(f, p)) = IF p \in Event THEN Append(Replay(f), p) ELSE Replay(f)
<1> DEFINE g == Append(f, p)
           n == Len(f)
<1>1. /\ n \in Nat /\ g \in Seq(Piece) /\ Len(g) = n + 1 /\ g[n + 1] = p
      /\ \A i \in 1..n : f[i] = g[i]
  BY SMT
<1> HIDE DEF g, n
<1>2. EventsUpto(f)[n] = EventsUpto(g)[n]
  <2>1. n <= Len(f) /\ n <= Len(g)
    BY SMT, <1>1 DEF n
  <2> QED BY <1>1, <2>1, UptoLocal
<1>3. EventsUpto(g)[n + 1] = Step(g, EventsUpto(g), n + 1)
  BY SMT, <1>1, EventsUptoStep
<1>4. EventsUpto(g)[n + 1] = IF p \in Event THEN Append(EventsUpto(f)[n], p) ELSE EventsUpto(f)[n]
  BY SMT, <1>1, <1>2, <1>3 DEF Step
<1> QED
  BY <1>1, <1>4 DEF Replay, g, n

LEMMA ReplayCut ==
  ASSUME NEW f \in Seq(Piece), NEW n \in 0..Len(f)
  PROVE  \E m \in 0..Len(Replay(f)) :
            /\ Replay(SubSeq(f, 1, n)) = SubSeq(Replay(f), 1, m)
            /\ \A j \in m+1..Len(Replay(f)) : \E i \in n+1..Len(f) : f[i] = Replay(f)[j]
<1> DEFINE g == SubSeq(f, 1, n)
           a == EventsUpto(f)[n]
           m == Len(a)
<1>1. /\ Len(f) \in Nat /\ g \in Seq(Piece) /\ Len(g) = n
      /\ \A i \in 1..n : f[i] = g[i]
  BY SMT
<1> HIDE DEF g, a
<1>2. Replay(g) = a
  <2>1. n \in Nat /\ n <= Len(f) /\ n <= Len(g)
    BY SMT, <1>1
  <2>2. EventsUpto(f)[n] = EventsUpto(g)[n]
    BY <1>1, <2>1, UptoLocal
  <2> QED BY <1>1, <2>2 DEF Replay, a
<1>3. a \in Seq(Event) /\ Replay(f) \in Seq(Event)
  BY UptoEvents, ReplayEvents DEF a
<1>4. n \in 0..Len(f) /\ Len(f) \in n..Len(f)
  BY SMT, <1>1
<1>5. /\ m <= Len(Replay(f))
      /\ \A j \in 1..m : Replay(f)[j] = a[j]
      /\ \A j \in m+1..Len(Replay(f)) : \E i \in n+1..Len(f) : f[i] = Replay(f)[j]
  <2> DEFINE e == EventsUpto(f)[Len(f)]
  <2>1. /\ Len(EventsUpto(f)[n]) <= Len(e)
        /\ \A j \in 1..Len(EventsUpto(f)[n]) : e[j] = EventsUpto(f)[n][j]
        /\ \A j \in Len(EventsUpto(f)[n])+1..Len(e) : \E i \in n+1..Len(f) : f[i] = e[j]
    BY <1>4, UptoGrows
  <2>2. e = Replay(f) /\ EventsUpto(f)[n] = a
    BY DEF Replay, a
  <2> HIDE DEF e
  <2> QED BY <2>1, <2>2
<1>6. /\ SubSeq(Replay(f), 1, m) \in Seq(Event) /\ Len(SubSeq(Replay(f), 1, m)) = m
      /\ \A j \in 1..m : SubSeq(Replay(f), 1, m)[j] = Replay(f)[j]
  BY SMT, <1>3, <1>5
<1>7. SubSeq(Replay(f), 1, m) = a
  BY <1>3, <1>5, <1>6, SameSequence
<1>8. m \in 0..Len(Replay(f))
  BY SMT, <1>3, <1>5
<1> QED
  BY <1>2, <1>5, <1>7, <1>8 DEF g

LEMMA ReplayHas ==
  ASSUME NEW f \in Seq(Piece), NEW i \in 1..Len(f), f[i] \in Event
  PROVE  \E j \in 1..Len(Replay(f)) : Replay(f)[j] = f[i]
<1> DEFINE a == EventsUpto(f)[i]
           b == EventsUpto(f)[i - 1]
<1>1. i \in 0..Len(f) /\ i - 1 \in 0..Len(f) /\ i # 0 /\ Len(f) \in i..Len(f)
  BY SMT
<1>2. a = Append(b, f[i])
  BY <1>1, EventsUptoStep DEF Step
<1>3. b \in Seq(Event)
  BY <1>1, UptoEvents
<1> HIDE DEF a, b
<1>4. Len(a) \in 1..Len(a) /\ a[Len(a)] = f[i]
  BY SMT, <1>2, <1>3
<1>5. Len(a) <= Len(Replay(f)) /\ \A j \in 1..Len(a) : Replay(f)[j] = a[j]
  <2> DEFINE e == EventsUpto(f)[Len(f)]
  <2>1. /\ Len(EventsUpto(f)[i]) <= Len(e)
        /\ \A j \in 1..Len(EventsUpto(f)[i]) : e[j] = EventsUpto(f)[i][j]
    BY <1>1, UptoGrows
  <2>2. e = Replay(f) /\ EventsUpto(f)[i] = a
    BY DEF Replay, a
  <2> HIDE DEF e
  <2> QED BY <2>1, <2>2
<1>6. Len(a) \in 1..Len(Replay(f))
  BY SMT, <1>4, <1>5, ReplayEvents
<1> QED BY <1>4, <1>5, <1>6

\* The events of f are in the order of their operations.
Ascending(f) ==
  \A i, j \in 1..Len(f) : i < j /\ f[i] \in Event /\ f[j] \in Event => f[i] < f[j]

LEMMA EventAppended ==
  ASSUME NEW s \in Seq(Event), NEW e \in Event
  PROVE  /\ Len(s) \in Nat /\ Len(Append(s, e)) = Len(s) + 1
         /\ \A j \in 1..Len(s) : Append(s, e)[j] = s[j] /\ s[j] \in Event
         /\ Append(s, e)[Len(s) + 1] = e
BY SMT

LEMMA ReplayAscends ==
  ASSUME NEW f \in Seq(Piece), Ascending(f)
  PROVE  \A i, j \in 1..Len(Replay(f)) : i < j => Replay(f)[i] < Replay(f)[j]
<1> DEFINE E == EventsUpto(f)
           Good(m) == \A i, j \in 1..Len(E[m]) : i < j => E[m][i] < E[m][j]
           T == {m \in Nat : m <= Len(f) /\ ~Good(m)}
<1>0. Len(f) \in Nat /\ E[Len(f)] = Replay(f)
  BY SMT DEF Replay
<1> SUFFICES ASSUME T # {} PROVE FALSE
  BY SMT, <1>0
<1>1. PICK m \in T : \A j \in T : m <= j
  BY LeastNatural
<1>2. E[m] = Step(f, E, m)
  BY SMT, EventsUptoStep
<1>3. ASSUME m # 0
      PROVE  /\ E[m - 1] \in Seq(Event)
             /\ \A j \in 1..Len(E[m - 1]) : \E i \in 1..(m - 1) : f[i] = E[m - 1][j]
  <2>1. m - 1 \in 0..Len(f)
    BY SMTT(30), <1>0, <1>3
  <2> QED BY <2>1, UptoEvents
<1> HIDE DEF E
<1>4. m # 0
  <2> SUFFICES ASSUME m = 0 PROVE FALSE
    OBVIOUS
  <2>1. E[m] = << >> /\ Len(<< >>) = 0
    BY <1>2 DEF Step
  <2>2. Good(m)
    BY SMT, <2>1
  <2> QED BY <1>1, <2>2
<1>5. m \in Nat /\ m - 1 \in Nat /\ m <= Len(f) /\ Good(m - 1)
  <2>1. m \in Nat /\ m - 1 \in Nat /\ m <= Len(f) /\ m - 1 <= Len(f) /\ ~(m <= m - 1)
    BY SMT, <1>0, <1>1, <1>4
  <2>2. m - 1 \notin T
    BY <1>1, <2>1
  <2>3. Good(m - 1)
    BY <2>1, <2>2
  <2> QED BY <2>1, <2>3
<1>6. CASE f[m] \in Event
  <2>1. E[m] = Append(E[m - 1], f[m])
    BY <1>2, <1>4, <1>6 DEF Step
  <2> DEFINE n == Len(E[m - 1])
  <2>2. /\ n \in Nat /\ Len(E[m]) = n + 1
        /\ \A j \in 1..n : E[m][j] = E[m - 1][j] /\ E[m - 1][j] \in Event
        /\ E[m][n + 1] = f[m]
    <3> DEFINE s == E[m - 1]
               e == f[m]
    <3>1. s \in Seq(Event) /\ e \in Event /\ E[m] = Append(s, e)
      BY <1>3, <1>4, <1>6, <2>1
    <3> HIDE DEF s, e
    <3>2. /\ Len(s) \in Nat /\ Len(Append(s, e)) = Len(s) + 1
          /\ \A j \in 1..Len(s) : Append(s, e)[j] = s[j] /\ s[j] \in Event
          /\ Append(s, e)[Len(s) + 1] = e
      BY <3>1, EventAppended
    <3> QED BY <3>1, <3>2 DEF s, e
  <2> HIDE DEF n
  <2>3. ASSUME NEW i \in 1..n
        PROVE  E[m - 1][i] < f[m]
    <3>1. PICK k \in 1..(m - 1) : f[k] = E[m - 1][i]
      BY <1>3, <1>4 DEF n
    <3>2. k \in 1..Len(f) /\ m \in 1..Len(f) /\ k < m
      BY SMT, <1>0, <1>4, <1>5
    <3> QED BY <1>6, <2>2, <3>1, <3>2 DEF Ascending
  <2>4. ASSUME NEW i \in 1..Len(E[m]), NEW j \in 1..Len(E[m]), i < j
        PROVE  E[m][i] < E[m][j]
    <3>1. i \in 1..n /\ (j \in 1..n \/ j = n + 1)
      BY SMT, <2>2, <2>4
    <3>2. CASE j \in 1..n
      BY <1>5, <2>2, <2>4, <3>1, <3>2 DEF n
    <3>3. CASE j = n + 1
      BY <2>2, <2>3, <3>1, <3>3
    <3> QED BY <3>1, <3>2, <3>3
  <2> QED BY <1>1, <2>4
<1>7. CASE f[m] \notin Event
  <2>1. E[m] = E[m - 1]
    BY <1>2, <1>4, <1>7 DEF Step
  <2> QED BY <1>1, <1>5, <2>1
<1> QED BY <1>6, <1>7

-----------------------------------------------------------------------------
(***************************************************************************)
(* Why a crash takes nothing that was acknowledged, and why a start finds   *)
(* it once and in order.  The events in the file are in the order of their  *)
(* operations, so none is there twice: one behind the synced part is not    *)
(* one in it.  The last of them is that of the append in progress, as soon  *)
(* as it is written.                                                        *)
(***************************************************************************)
OrderInv ==
  /\ mode \in {"down", "up", "refused"} /\ acked \subseteq Event
  /\ writing # "idle" => mode = "up" /\ issued \notin acked
  /\ \A e \in acked : e <= issued
  /\ \A i \in 1..Len(file) : file[i] \in Event => /\ file[i] <= issued
                                                  /\ writing = "json" => file[i] < issued
  /\ Ascending(file)
  /\ writing \in {"newline", "sync", "apply"}
       => Len(Replay(file)) > 0 /\ Replay(file)[Len(Replay(file))] = issued

\* Memory has what was acknowledged, and nothing of the append in progress.
MemInv ==
  /\ mem \in Seq(Event)
  /\ mode = "up" =>
       /\ \A e \in acked : In(e, mem, Len(mem))
       /\ \A i, j \in 1..Len(mem) : i < j => mem[i] < mem[j]
       /\ \A i \in 1..Len(mem) : mem[i] <= issued /\ (writing # "idle" => mem[i] < issued)

LogInv == LogTypes /\ DiskInv /\ OrderInv

LEMMA EventIsNat == \A e \in Event : e \in Nat
BY SMT, EventLogAssumption DEF Event

LEMMA TornNoEvent == Torn \notin Event /\ NL \notin Event /\ Torn \in Piece /\ NL \in Piece
BY SMT, EventLogAssumption DEF Torn, NL, Event, Piece

LEMMA AscendingAppend ==
  ASSUME NEW f \in Seq(Piece), Ascending(f), NEW p \in Piece,
         p \in Event => \A i \in 1..Len(f) : f[i] \in Event => f[i] < p
  PROVE  Ascending(Append(f, p))
<1> DEFINE g == Append(f, p)
           n == Len(f)
<1>1. /\ n \in Nat /\ Len(g) = n + 1 /\ g[n + 1] = p
      /\ \A i \in 1..n : g[i] = f[i]
  BY SMT
<1> HIDE DEF g, n
<1> SUFFICES ASSUME NEW i \in 1..Len(g), NEW j \in 1..Len(g), i < j,
                    g[i] \in Event, g[j] \in Event
             PROVE  g[i] < g[j]
  BY DEF Ascending, g
<1>2. i \in 1..n /\ (j \in 1..n \/ j = n + 1)
  BY SMT, <1>1
<1>3. CASE j \in 1..n
  BY <1>1, <1>2, <1>3 DEF Ascending, n
<1>4. CASE j = n + 1
  BY <1>1, <1>2, <1>4 DEF n
<1> QED BY <1>2, <1>3, <1>4

LEMMA AscendingCut ==
  ASSUME NEW f \in Seq(Piece), Ascending(f), NEW n \in 0..Len(f)
  PROVE  Ascending(SubSeq(f, 1, n))
<1>1. /\ Len(SubSeq(f, 1, n)) = n /\ n \in Nat /\ Len(f) \in Nat
      /\ \A i \in 1..n : SubSeq(f, 1, n)[i] = f[i] /\ i \in 1..Len(f)
  BY SMT, CutFacts, LengthNat
<1> QED BY SMT, <1>1 DEF Ascending

(***************************************************************************)
(* A crash leaves a first part of the events, and what is behind it was not *)
(* acknowledged.                                                            *)
(***************************************************************************)
LEMMA CutReplays ==
  ASSUME LogInv, Cut
  PROVE  /\ Ascending(file') /\ file' \in Seq(Piece)
         /\ \A i \in 1..Len(file') : file'[i] \in Event => file'[i] <= issued
         /\ \E m \in 0..Len(Replay(file)) :
              /\ Replay(file') = SubSeq(Replay(file), 1, m)
              /\ \A j \in m+1..Len(Replay(file)) : Replay(file)[j] \notin acked
<1>0. /\ Len(file) \in Nat /\ synced \in 0..Len(file) /\ file \in Seq(Piece)
      /\ Ascending(file) /\ issued \in Nat
  BY SMT, LengthNat, EventLogAssumption DEF LogInv, LogTypes, OrderInv
<1>1. PICK n \in synced..Len(file) :
        file' \in {SubSeq(file, 1, n), Append(SubSeq(file, 1, n), Torn)}
  BY DEF Cut
<1> DEFINE kept == SubSeq(file, 1, n)
<1>2. n \in 0..Len(file) /\ n \in Nat /\ synced <= n
  BY SMT, <1>0
<1>3. /\ kept \in Seq(Piece) /\ Len(kept) = n /\ \A i \in 1..n : kept[i] = file[i]
      /\ Ascending(kept)
  BY <1>0, <1>2, CutFacts, AscendingCut
<1>4. PICK m \in 0..Len(Replay(file)) :
        /\ Replay(kept) = SubSeq(Replay(file), 1, m)
        /\ \A j \in m+1..Len(Replay(file)) : \E i \in n+1..Len(file) : file[i] = Replay(file)[j]
  BY <1>0, <1>2, ReplayCut
<1> HIDE DEF kept
<1>5. \A i \in 1..n : kept[i] \in Event => kept[i] <= issued
  BY SMT, <1>0, <1>2, <1>3 DEF LogInv, OrderInv
<1>6. /\ file' \in Seq(Piece) /\ Ascending(file') /\ Replay(file') = Replay(kept)
      /\ \A i \in 1..Len(file') : file'[i] \in Event => file'[i] <= issued
  <2>1. CASE file' = kept
    BY <1>3, <1>5, <2>1
  <2>2. CASE file' = Append(kept, Torn)
    <3>1. Append(kept, Torn) \in Seq(Piece) /\ Len(Append(kept, Torn)) = n + 1
          /\ Append(kept, Torn)[n + 1] = Torn
          /\ \A i \in 1..n : Append(kept, Torn)[i] = kept[i]
      BY SMT, <1>2, <1>3, TornNoEvent, AppendFacts DEF Begins
    <3>2. Ascending(Append(kept, Torn))
      BY <1>3, TornNoEvent, AscendingAppend
    <3>3. Replay(Append(kept, Torn)) = Replay(kept)
      BY <1>3, TornNoEvent, ReplayAppend
    <3>4. \A i \in 1..(n + 1) : i \in 1..n \/ i = n + 1
      BY SMT, <1>2
    <3> QED BY <1>2, <1>5, <2>2, <3>1, <3>2, <3>3, <3>4, TornNoEvent
  <2> QED BY <1>1, <2>1, <2>2 DEF kept
<1>7. ASSUME NEW j \in m+1..Len(Replay(file)), Replay(file)[j] \in acked
      PROVE  FALSE
  <2>1. PICK i \in n+1..Len(file) : file[i] = Replay(file)[j]
    BY <1>4
  <2>2. PICK k \in 1..synced : file[k] = Replay(file)[j]
    BY <1>7 DEF LogInv, DiskInv, In
  <2>3. k \in 1..Len(file) /\ i \in 1..Len(file) /\ k < i
    BY SMT, <1>0, <1>2
  <2>4. Replay(file)[j] \in Event /\ Replay(file)[j] \in Nat
    <3>1. acked \subseteq Event
      BY DEF LogInv, OrderInv
    <3> QED BY <1>7, <3>1, EventIsNat
  <2>5. file[k] < file[i]
    BY <1>0, <2>1, <2>2, <2>3, <2>4 DEF Ascending
  <2> QED BY SMT, <2>1, <2>2, <2>4, <2>5
<1> QED BY <1>4, <1>6, <1>7

-----------------------------------------------------------------------------
\* A piece that is no event leaves everything about events as it is.
LEMMA NoEventAppended ==
  ASSUME LogInv, NEW p \in {Torn, NL}, file' = Append(file, p)
  PROVE  /\ Replay(file') = Replay(file) /\ Ascending(file')
         /\ \A i \in 1..Len(file') : file'[i] \in Event => i \in 1..Len(file) /\ file'[i] = file[i]
<1>0. /\ Len(file) \in Nat /\ file \in Seq(Piece) /\ Ascending(file)
      /\ p \in Piece /\ p \notin Event
  BY LengthNat, TornNoEvent DEF LogInv, LogTypes, OrderInv
<1>1. Len(file') = Len(file) + 1 /\ file'[Len(file) + 1] = p
      /\ \A i \in 1..Len(file) : file'[i] = file[i]
  BY <1>0, AppendFacts DEF Begins
<1>2. \A i \in 1..Len(file') : i \in 1..Len(file) \/ i = Len(file) + 1
  BY SMT, <1>0, <1>1
<1>3. Replay(file') = Replay(file)
  BY <1>0, ReplayAppend
<1>4. Ascending(file')
  BY <1>0, AscendingAppend
<1> QED BY <1>0, <1>1, <1>2, <1>3, <1>4

LEMMA OrderLog ==
  ASSUME LogInv, Log
  PROVE  OrderInv'
<1>0. /\ Len(file) \in Nat /\ file \in Seq(Piece) /\ issued \in Nat
      /\ writing # "idle" => issued \in Event
      /\ Event \subseteq Nat
  BY SMT, LengthNat, EventLogAssumption DEF LogInv, LogTypes, Event
<1> USE DEF LogInv
<1>1. CASE Begin
  <2>1. /\ issued' = issued + 1 /\ writing' = "json" /\ mode' = mode /\ mode = "up"
        /\ UNCHANGED <<file, acked>>
    BY <1>1 DEF Begin
  <2>2. \A e \in acked : e \in Nat /\ e <= issued
    BY <1>0 DEF OrderInv
  <2>3. \A e \in acked : e <= issued' /\ e # issued'
    BY SMT, <1>0, <2>1, <2>2
  <2>4. \A i \in 1..Len(file) : file[i] \in Event => file[i] <= issued' /\ file[i] < issued'
    <3>1. \A i \in 1..Len(file) : file[i] \in Event => file[i] \in Nat /\ file[i] <= issued
      BY EventIsNat DEF OrderInv
    <3> QED BY SMT, <1>0, <2>1, <3>1
  <2> QED BY <2>1, <2>3, <2>4 DEF OrderInv
<1>2. CASE WriteJson
  <2>1. /\ writing = "json" /\ writing' = "newline" /\ file' = Append(file, issued)
        /\ UNCHANGED <<mode, acked, issued>> /\ issued \in Event /\ issued \in Piece
    BY <1>0, <1>2 DEF WriteJson, Piece
  <2>2. /\ Len(file') = Len(file) + 1 /\ file'[Len(file) + 1] = issued
        /\ \A i \in 1..Len(file) : file'[i] = file[i]
    BY <1>0, <2>1, AppendFacts DEF Begins
  <2>3. Ascending(file')
    BY <1>0, <2>1, AscendingAppend DEF OrderInv
  <2>4. Replay(file') = Append(Replay(file), issued)
    BY <1>0, <2>1, ReplayAppend
  <2>5. Len(Replay(file')) > 0 /\ Replay(file')[Len(Replay(file'))] = issued
    BY SMT, <1>0, <2>1, <2>4, ReplayEvents
  <2>6. \A i \in 1..Len(file') : file'[i] \in Event => file'[i] <= issued
    <3>1. \A i \in 1..Len(file') : i \in 1..Len(file) \/ i = Len(file) + 1
      BY SMT, <1>0, <2>2
    <3> QED BY SMT, <1>0, <2>2, <3>1 DEF OrderInv
  <2> QED BY <2>1, <2>3, <2>5, <2>6 DEF OrderInv
<1>3. CASE WriteNewline
  <2>1. /\ writing = "newline" /\ writing' = "sync" /\ file' = Append(file, NL)
        /\ UNCHANGED <<mode, acked, issued>>
    BY <1>3 DEF WriteNewline
  <2> QED BY <2>1, NoEventAppended DEF OrderInv
<1>4. CASE SyncData
  BY <1>4 DEF SyncData, OrderInv
<1>5. CASE Apply
  <2>1. /\ writing = "apply" /\ writing' = "idle" /\ acked' = acked \cup {issued}
        /\ UNCHANGED <<mode, file, issued>> /\ issued \in Event
    BY <1>0, <1>5 DEF Apply
  <2> QED BY SMT, <1>0, <2>1 DEF OrderInv
<1>6. CASE AppendFails
  <2>1. /\ writing' = "idle" /\ UNCHANGED <<mode, acked, issued>>
        /\ (file' = file \/ file' = Append(file, Torn))
    BY <1>6 DEF AppendFails
  <2>2. CASE file' = file
    BY <2>1, <2>2 DEF OrderInv
  <2>3. CASE file' = Append(file, Torn)
    BY <2>1, <2>3, NoEventAppended DEF OrderInv
  <2> QED BY <2>1, <2>2, <2>3
<1>7. CASE OpenAndReplay
  <2>1. mode = "down" /\ mode' \in {"up", "refused"} /\ UNCHANGED <<file, writing, acked, issued>>
    BY <1>7 DEF OpenAndReplay
  <2> QED BY <2>1 DEF OrderInv
<1> QED BY <1>1, <1>2, <1>3, <1>4, <1>5, <1>6, <1>7 DEF Log

LEMMA OrderNext ==
  ASSUME LogInv, [BackupNext]_allVars
  PROVE  OrderInv'
<1>1. CASE Log
  BY <1>1, OrderLog
<1>2. CASE RunOnce \/ PassFails \/ UNCHANGED allVars
  <2>1. UNCHANGED vars
    BY <1>2 DEF RunOnce, Discard, Compare, CopyTail, CopySynced, PassFails, Pass, allVars
  <2> QED BY <2>1 DEF vars, LogInv, OrderInv
<1>3. CASE ProcessDies
  <2>1. writing' = "idle" /\ mode' = "down" /\ UNCHANGED <<file, acked, issued>>
    BY <1>3 DEF ProcessDies, ProcessCrash, Down
  <2> QED BY <2>1 DEF LogInv, OrderInv
<1>4. CASE PowerFails
  <2>1. writing' = "idle" /\ mode' = "down" /\ UNCHANGED <<acked, issued>> /\ Cut
    BY <1>4, PowerLossCuts DEF PowerFails, PowerLoss, Down
  <2>2. Ascending(file') /\ \A i \in 1..Len(file') : file'[i] \in Event => file'[i] <= issued
    BY <2>1, CutReplays
  <2> QED BY <2>1, <2>2 DEF LogInv, OrderInv
<1> QED BY <1>1, <1>2, <1>3, <1>4 DEF BackupNext

LEMMA MemNumbers ==
  ASSUME NEW s \in Seq(Event)
  PROVE  \A i \in 1..Len(s) : s[i] \in Nat
<1>1. \A i \in 1..Len(s) : s[i] \in Event
  BY SMT
<1> QED BY <1>1, EventIsNat

LEMMA MemNext ==
  ASSUME LogInv, MemInv, [BackupNext]_allVars
  PROVE  MemInv'
<1>0. /\ Len(mem) \in Nat /\ mem \in Seq(Event) /\ issued \in Nat
      /\ writing # "idle" => issued \in Event
      /\ Event \subseteq Nat /\ file \in Seq(Piece) /\ synced \in 0..Len(file) /\ Len(file) \in Nat
  BY SMT, LengthNat, EventLogAssumption DEF LogInv, LogTypes, Event, MemInv
<1>1. ASSUME UNCHANGED <<mem, mode, acked, issued>>, writing' \in {"idle", writing} \/ writing # "idle"
      PROVE  MemInv'
  BY <1>1 DEF MemInv
<1>2. CASE Begin
  <2>1. writing = "idle" /\ issued' = issued + 1 /\ UNCHANGED <<mem, mode, acked>>
    BY <1>2 DEF Begin
  <2>2. \A i \in 1..Len(mem) : mem[i] \in Nat
    BY <1>0, MemNumbers
  <2> QED BY SMT, <1>0, <2>1, <2>2 DEF MemInv
<1>3. CASE WriteJson \/ WriteNewline \/ SyncData \/ AppendFails
  BY <1>1, <1>3 DEF WriteJson, WriteNewline, SyncData, AppendFails
<1>4. CASE Apply
  <2>1. /\ mem' = Append(mem, issued) /\ acked' = acked \cup {issued} /\ writing = "apply"
        /\ writing' = "idle" /\ UNCHANGED <<mode, issued>> /\ issued \in Event
    BY <1>0, <1>4 DEF Apply
  <2>2. /\ mem' \in Seq(Event) /\ Len(mem') = Len(mem) + 1 /\ mem'[Len(mem) + 1] = issued
        /\ \A i \in 1..Len(mem) : mem'[i] = mem[i]
    BY SMT, <1>0, <2>1
  <2>3. \A i \in 1..Len(mem') : i \in 1..Len(mem) \/ i = Len(mem) + 1
    BY SMT, <1>0, <2>2
  <2> SUFFICES ASSUME mode = "up"
               PROVE  /\ \A e \in acked' : In(e, mem', Len(mem'))
                      /\ \A i, j \in 1..Len(mem') : i < j => mem'[i] < mem'[j]
                      /\ \A i \in 1..Len(mem') : mem'[i] <= issued
    BY <2>1, <2>2 DEF MemInv
  <2>4. \A i \in 1..Len(mem) : mem[i] < issued /\ mem[i] \in Nat
    BY <1>0, <2>1, MemNumbers DEF MemInv
  <2>5. \A e \in acked' : In(e, mem', Len(mem'))
    <3>1. In(issued, mem', Len(mem'))
      BY SMT, <1>0, <2>2 DEF In
    <3>2. ASSUME NEW e \in acked PROVE In(e, mem', Len(mem'))
      <4>1. In(e, mem, Len(mem))
        BY DEF MemInv
      <4> QED BY SMT, <1>0, <2>2, <4>1 DEF In
    <3> QED BY <2>1, <3>1, <3>2
  <2>6. ASSUME NEW i \in 1..Len(mem'), NEW j \in 1..Len(mem'), i < j
        PROVE  mem'[i] < mem'[j]
    <3>1. i \in 1..Len(mem)
      BY SMT, <1>0, <2>2, <2>6
    <3> QED BY <2>2, <2>3, <2>4, <2>6, <3>1 DEF MemInv
  <2>7. \A i \in 1..Len(mem') : mem'[i] <= issued
    BY SMTT(30), <1>0, <2>2, <2>3, <2>4
  <2> QED BY <2>5, <2>6, <2>7
<1>5. CASE OpenAndReplay
  <2>1. mode = "down" /\ writing = "idle" /\ UNCHANGED <<file, writing, acked, issued>>
        /\ \/ mode' = "up" /\ mem' = Replay(file)
           \/ mode' = "refused" /\ mem' = mem
    BY <1>5 DEF OpenAndReplay, LogInv, OrderInv
  <2>2. CASE mode' = "refused" /\ mem' = mem
    BY <2>1, <2>2 DEF MemInv
  <2>3. CASE mode' = "up" /\ mem' = Replay(file)
    <3>1. Replay(file) \in Seq(Event)
          /\ \A j \in 1..Len(Replay(file)) : \E i \in 1..Len(file) : file[i] = Replay(file)[j]
      BY <1>0, ReplayEvents
    <3>2. \A i \in 1..Len(Replay(file)) : Replay(file)[i] <= issued
      BY SMT, <3>1 DEF LogInv, OrderInv
    <3>3. \A i, j \in 1..Len(Replay(file)) : i < j => Replay(file)[i] < Replay(file)[j]
      BY <1>0, ReplayAscends DEF LogInv, OrderInv
    <3>4. ASSUME NEW e \in acked
          PROVE  In(e, Replay(file), Len(Replay(file)))
      <4>1. PICK i \in 1..synced : file[i] = e
        BY DEF LogInv, DiskInv, In
      <4>2. i \in 1..Len(file) /\ e \in Event
        BY SMT, <1>0 DEF LogInv, OrderInv
      <4> QED BY <1>0, <4>1, <4>2, ReplayHas DEF In
    <3> QED BY <2>1, <2>3, <3>1, <3>2, <3>3, <3>4 DEF MemInv
  <2> QED BY <2>1, <2>2, <2>3
<1>6. CASE ProcessDies \/ PowerFails
  <2>1. mem' = << >> /\ mode' = "down"
    BY <1>6 DEF ProcessDies, PowerFails, ProcessCrash, PowerLoss, Down
  <2> QED BY SMT, <2>1 DEF MemInv
<1>7. CASE RunOnce \/ PassFails \/ UNCHANGED allVars
  <2>1. UNCHANGED vars
    BY <1>7 DEF RunOnce, Discard, Compare, CopyTail, CopySynced, PassFails, Pass, allVars
  <2> QED BY <1>1, <2>1 DEF vars
<1> QED BY <1>2, <1>3, <1>4, <1>5, <1>6, <1>7 DEF BackupNext, Log

-----------------------------------------------------------------------------
\* The counters and the pass in progress.
CountTypes ==
  /\ crashes \in 0..MaxCrashes /\ passFaults \in 0..MaxPassFaults
  /\ pass \in {"wait", "read", "sync"}

LEMMA CountNext ==
  ASSUME CountTypes, [BackupNext]_allVars
  PROVE  CountTypes'
<1>1. /\ crashes' = crashes \/ (crashes < MaxCrashes /\ crashes' = crashes + 1)
      /\ passFaults' = passFaults \/ (passFaults < MaxPassFaults /\ passFaults' = passFaults + 1)
      /\ pass' \in {pass, "wait", "read", "sync"}
  BY DEF BackupNext, allVars, vars, backup, Log, Begin, WriteJson, WriteNewline, SyncData, Apply,
         AppendFails, OpenAndReplay, RunOnce, Discard, Compare, CopyTail, CopySynced, PassFails,
         Pass, ProcessDies, PowerFails, ProcessCrash, PowerLoss, Down
<1>2. crashes' \in 0..MaxCrashes
  BY SMT, <1>1, EventLogAssumption DEF CountTypes
<1>3. passFaults' \in 0..MaxPassFaults
  BY SMT, <1>1, BackupAssumption DEF CountTypes
<1> QED BY <1>1, <1>2, <1>3 DEF CountTypes

StoreInv == CopyIsPrefix /\ LogInv /\ MemInv /\ CountTypes

LEMMA StoreInvInit == BackupInit => StoreInv
<1> SUFFICES ASSUME BackupInit PROVE StoreInv
  OBVIOUS
<1>1. LogTypes /\ CopyIsPrefix /\ DiskInv
  BY BackupInvInit, EventLogAssumption
<1>2. /\ mode = "down" /\ file = << >> /\ writing = "idle" /\ mem = << >> /\ acked = {}
      /\ Len(<< >>) = 0 /\ << >> \in Seq(Event)
  BY SMT DEF BackupInit, Init
<1>3. OrderInv
  BY SMT, <1>2 DEF OrderInv, Ascending
<1>4. MemInv
  BY <1>2 DEF MemInv
<1>5. CountTypes
  BY SMT, EventLogAssumption, BackupAssumption DEF BackupInit, Init, CountTypes
<1> QED BY <1>1, <1>3, <1>4, <1>5 DEF StoreInv, LogInv

LEMMA StoreInvNext == StoreInv /\ [BackupNext]_allVars => StoreInv'
<1> SUFFICES ASSUME StoreInv, [BackupNext]_allVars PROVE StoreInv'
  OBVIOUS
<1>1. (LogTypes /\ CopyIsPrefix)'
  BY PrefixNext, EventLogAssumption DEF StoreInv, LogInv
<1>2. DiskInv'
  BY DiskNext, EventLogAssumption DEF StoreInv, LogInv
<1>3. OrderInv' /\ MemInv' /\ CountTypes'
  BY OrderNext, MemNext, CountNext DEF StoreInv
<1> QED BY <1>1, <1>2, <1>3 DEF StoreInv, LogInv

(***************************************************************************)
(* append and open_and_replay: what was acknowledged is on the disk and,    *)
(* while the server is up, applied once and in order, for any number of     *)
(* crashes, power losses and failed writes.                                 *)
(***************************************************************************)
THEOREM AckedKeptAlways == BackupSpec => []AckedKept
<1>1. StoreInv => AckedKept
  <2> SUFFICES ASSUME StoreInv PROVE AckedKept
    OBVIOUS
  <2>1. AckedOnDisk
    BY DEF StoreInv, LogInv, DiskInv, In, AckedOnDisk
  <2>2. TypeOK
    BY DEF StoreInv, LogInv, LogTypes, OrderInv, MemInv, CountTypes, TypeOK, Piece
  <2>3. BackupTypeOK
    BY <2>2 DEF StoreInv, LogInv, LogTypes, CountTypes, BackupTypeOK, Piece
  <2>4. AckedSurvive
    <3> SUFFICES ASSUME mode = "up"
                 PROVE  /\ acked \subseteq ToSet(mem)
                        /\ \A i, j \in 1..Len(mem) : i < j => mem[i] < mem[j]
      BY DEF AckedSurvive
    <3>1. DOMAIN mem = 1..Len(mem)
      BY SMT DEF StoreInv, MemInv
    <3>2. \A e \in acked : \E i \in DOMAIN mem : mem[i] = e
      BY <3>1 DEF StoreInv, MemInv, In
    <3>3. acked \subseteq ToSet(mem)
      BY <3>2 DEF ToSet
    <3> QED BY <3>3 DEF StoreInv, MemInv
  <2> QED BY <2>1, <2>3, <2>4 DEF AckedKept
<1> QED BY <1>1, StoreInvInit, StoreInvNext, PTL DEF BackupSpec

(***************************************************************************)
(* Each step of append, of a crash and of open_and_replay is a step of      *)
(* DurableLog or none.                                                      *)
(***************************************************************************)
LEMMA StoreStep ==
  ASSUME StoreInv, [BackupNext]_allVars
  PROVE  Store!Next \/ UNCHANGED <<Replay(file), mem, acked, mode = "up">>
<1>0. /\ Len(file) \in Nat /\ file \in Seq(Piece) /\ issued \in Nat
      /\ writing # "idle" => issued \in Event /\ mode = "up"
      /\ Replay(file) \in Seq(Event) /\ Len(Replay(file)) \in Nat
  BY SMT, LengthNat, EventLogAssumption, ReplayEvents
  DEF StoreInv, LogInv, LogTypes, OrderInv
<1>1. CASE UNCHANGED <<file, mem, acked, mode>>
  BY <1>1
<1>2. CASE WriteJson
  <2>1. /\ writing = "json" /\ file' = Append(file, issued) /\ issued \in Event /\ mode = "up"
        /\ UNCHANGED <<mode, mem, acked>> /\ issued \in Piece
    BY <1>0, <1>2 DEF WriteJson, Piece
  <2>2. Replay(file') = Append(Replay(file), issued)
    BY <1>0, <2>1, ReplayAppend
  <2>3. \A i \in 1..Len(Replay(file)) : Replay(file)[i] < issued
    <3>1. ASSUME NEW j \in 1..Len(Replay(file))
          PROVE  Replay(file)[j] < issued
      <4>1. PICK i \in 1..Len(file) : file[i] = Replay(file)[j]
        BY <1>0, ReplayEvents
      <4>2. file[i] \in Event
        BY SMT, <1>0, <4>1
      <4> QED BY <2>1, <4>1, <4>2 DEF StoreInv, LogInv, OrderInv
    <3> QED BY <3>1
  <2>4. Store!TakeEffect
    BY <2>1, <2>2, <2>3 DEF Store!TakeEffect
  <2> QED BY <2>4 DEF Store!Next
<1>3. CASE WriteNewline \/ AppendFails
  <2>1. /\ UNCHANGED <<mode, mem, acked>>
        /\ (file' = file \/ \E p \in {Torn, NL} : file' = Append(file, p))
    BY <1>3 DEF WriteNewline, AppendFails
  <2>2. Replay(file') = Replay(file)
    BY <2>1, NoEventAppended DEF StoreInv
  <2> QED BY <2>1, <2>2
<1>4. CASE Begin \/ SyncData
  BY <1>1, <1>4 DEF Begin, SyncData
<1>5. CASE Apply
  <2>1. /\ writing = "apply" /\ mem' = Append(mem, issued) /\ acked' = acked \cup {issued}
        /\ UNCHANGED <<file, mode>> /\ mode = "up"
    BY <1>0, <1>5 DEF Apply
  <2>2. /\ Replay(file)[Len(Replay(file))] = issued /\ Len(Replay(file)) > 0 /\ issued \notin acked
    BY <2>1 DEF StoreInv, LogInv, OrderInv
  <2>3. Replay(file) # << >>
    BY SMT, <2>2
  <2>4. Store!Acknowledge
    BY <2>1, <2>2, <2>3 DEF Store!Acknowledge
  <2> QED BY <2>4 DEF Store!Next
<1>6. CASE OpenAndReplay
  <2>1. CASE mode' = "up" /\ mem' = Replay(file)
    <3>1. mode = "down" /\ UNCHANGED <<file, acked>>
      BY <1>6 DEF OpenAndReplay
    <3>2. Store!Start
      BY <2>1, <3>1 DEF Store!Start
    <3> QED BY <3>2 DEF Store!Next
  <2>2. CASE mode' = "refused" /\ UNCHANGED mem
    <3>1. mode = "down" /\ UNCHANGED <<file, acked>>
      BY <1>6 DEF OpenAndReplay
    <3>2. (mode = "up") = (mode' = "up")
      BY <2>2, <3>1
    <3> QED BY <2>2, <3>1, <3>2
  <2> QED BY <1>6, <2>1, <2>2 DEF OpenAndReplay
<1>7. ASSUME mem' = << >>, mode' = "down", UNCHANGED acked,
             \E m \in 0..Len(Replay(file)) :
               /\ Replay(file') = SubSeq(Replay(file), 1, m)
               /\ \A j \in m+1..Len(Replay(file)) : Replay(file)[j] \notin acked
      PROVE  Store!Next
  <2>1. Store!Stop
    BY <1>7 DEF Store!Stop
  <2> QED BY <2>1 DEF Store!Next
<1>8. CASE ProcessDies
  <2>1. mem' = << >> /\ mode' = "down" /\ UNCHANGED <<file, acked>>
    BY <1>8 DEF ProcessDies, ProcessCrash, Down
  <2>2. /\ Len(Replay(file)) \in 0..Len(Replay(file))
        /\ Replay(file') = SubSeq(Replay(file), 1, Len(Replay(file)))
        /\ \A j \in Len(Replay(file))+1..Len(Replay(file)) : Replay(file)[j] \notin acked
    BY SMT, <1>0, <2>1, WholeSequence
  <2> QED BY <1>7, <2>1, <2>2
<1>9. CASE PowerFails
  <2>1. mem' = << >> /\ mode' = "down" /\ UNCHANGED acked /\ Cut
    BY <1>9, PowerLossCuts DEF PowerFails, PowerLoss, Down
  <2> QED BY <1>7, <2>1, CutReplays DEF StoreInv
<1>10. CASE RunOnce \/ PassFails \/ UNCHANGED allVars
  <2>1. UNCHANGED vars
    BY <1>10 DEF RunOnce, Discard, Compare, CopyTail, CopySynced, PassFails, Pass, allVars
  <2> QED BY <1>1, <2>1 DEF vars
<1> QED BY <1>2, <1>3, <1>4, <1>5, <1>6, <1>8, <1>9, <1>10 DEF BackupNext, Log

(***************************************************************************)
(* EventLog gives the stores what they rely on, whatever fails and however  *)
(* often it crashes: it implements DurableLog.                              *)
(***************************************************************************)
THEOREM ImplementsDurableLogAlways == BackupSpec => ImplementsDurableLog
<1>1. BackupInit => Store!Init
  <2> SUFFICES ASSUME BackupInit PROVE Store!Init
    OBVIOUS
  <2>1. /\ file = << >> /\ << >> \in Seq(Piece) /\ Len(<< >>) = 0 /\ mem = << >>
        /\ acked = {} /\ mode = "down"
    BY SMT DEF BackupInit, Init
  <2>2. Replay(<< >>) = << >>
    <3>1. 0 \in 0..Len(<< >>)
      BY SMT, <2>1
    <3>2. EventsUpto(<< >>)[0] = Step(<< >>, EventsUpto(<< >>), 0)
      BY <2>1, <3>1, EventsUptoStep
    <3> QED BY <2>1, <3>2 DEF Replay, Step
  <2> QED BY <2>1, <2>2 DEF Store!Init
<1>2. StoreInv /\ [BackupNext]_allVars => [Store!Next]_(Store!vars)
  BY StoreStep DEF Store!vars
<1> QED
  BY <1>1, <1>2, StoreInvInit, StoreInvNext, PTL DEF BackupSpec, ImplementsDurableLog, Store!Spec
=============================================================================
