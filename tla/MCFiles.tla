------------------------------ MODULE MCFiles ------------------------------
(***************************************************************************)
(* For TLC: files one by one (Files), missions as packages of files and    *)
(* events (MissionPackages), and device profiles with their files          *)
(* (Profiles), which have no state in common here.  `part` says which of   *)
(* them runs; the others stay as they were initially.                      *)
(***************************************************************************)
EXTENDS Files, TLC

CONSTANTS g1, g2, u1, u2, h2, h3, zip, c1, c2, e1, none

VARIABLES part, clock, missions, cot, resources, contents, logs, job, archive,
          package, result, told, hist, failures,
          profiles, saved, bytes, now, upload, dev, mishaps, past

\* Offline changes: of an event, a file and a log entry.
OfEvent(type, u, time, file) ==
    [type |-> type, of |-> "uid", uid |-> u, time |-> time, file |-> file]
OfFile(type, time, file) ==
    [type |-> type, of |-> "file", hash |-> h2, time |-> time, file |-> file,
     name |-> [kind |-> "file", prefixes |-> 0]]
OfLog(type, time) == [type |-> type, of |-> "log", entry |-> e1, time |-> time, file |-> none]

K == INSTANCE MissionPackages WITH
       Uid <- {u1, u2}, Hash <- {h2, h3}, ZipHash <- zip, None <- none,
       EventIn <- (h2 :> none) @@ (h3 :> u2), Entry <- {e1}, Contact <- {c1, c2},
       GroupsOf <- (c1 :> {"red"}) @@ (c2 :> {"blue"}),
       Senders <- {[groups |-> {"red"}, admin |-> a] : a \in BOOLEAN},
       Changes <- {OfEvent("add", u1, 2, u2), OfEvent("add", u2, 1, none),
                   OfEvent("remove", u1, 1, none), OfEvent("other", u1, 4, none),
                   OfEvent("remove", u1, 0, none), OfFile("add", 2, h3),
                   OfFile("add", 1, none), OfFile("remove", 2, none),
                   OfLog("add", 2), OfLog("remove", 1)},
       MaxTime <- 3, MaxFaults <- 1, disk <- contents, faults <- failures

\* One profile, two files of the same bytes, one upload at a time.
D == INSTANCE Profiles WITH
       Slot <- {"slot"}, Hash <- {"bytes"}, NoHash <- "none",
       MaxProfile <- 1, MaxFile <- 2, MaxNow <- 2, MaxFaults <- 1,
       mem <- profiles, stored <- saved, content <- bytes, req <- upload, faults <- mishaps

fileVars == <<disk, stored, mem, inserted, twins, req, raced, leaked, wrong, faults>>
packageVars == <<clock, missions, cot, resources, contents, logs, job, archive, package,
                 result, told, hist, failures>>
profileVars == <<profiles, saved, bytes, now, upload, dev, mishaps, past>>

MCInit ==
    /\ part \in {"files", "packages", "profiles"}
    /\ Init
    /\ K!Init
    /\ part # "packages" => package = <<OfLog("add", 2)>>
    /\ D!Init

MCNext ==
    \/ part = "files" /\ Next /\ UNCHANGED <<part, packageVars, profileVars>>
    \/ part = "packages" /\ K!Next /\ UNCHANGED <<part, fileVars, profileVars>>
    \/ part = "profiles" /\ D!Next /\ UNCHANGED <<part, fileVars, packageVars>>

MCSpec == MCInit /\ [][MCNext]_<<part, fileVars, packageVars, profileVars>>

MCCaller == {{g1}, {g2}}
Symmetry == Permutations({g1, g2}) \cup Permutations(Request)

-----------------------------------------------------------------------------
(***************************************************************************)
(* A mission travels whole: an archive that is imported gives the mission   *)
(* back, offline changes are applied as sent and only over older ones, and  *)
(* contacts that are sent an archive can fetch it; with the exceptions that *)
(* MissionPackages names.                                                   *)
(***************************************************************************)
PackagesTrue ==
    part = "packages" =>
        K!TypeOK /\ K!RoundTrip /\ K!AppliedAsSent /\ K!OfflineYields /\ K!SharedIsFetchable

(***************************************************************************)
(* A device asks again for whatever profile it lacks, every file of a       *)
(* profile has its bytes, and no bytes stay without one; with the           *)
(* exceptions that Profiles names.                                          *)
(***************************************************************************)
ProfilesDelivered ==
    part = "profiles" =>
        D!TypeOK /\ D!NothingMissed /\ D!FilesHaveContent /\ D!NoContentLeftBehind
============================================================================
