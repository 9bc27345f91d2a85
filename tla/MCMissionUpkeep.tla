--------------------------- MODULE MCMissionUpkeep ---------------------------
(***************************************************************************)
(* For TLC: a mission's members, a mission's records and the lists of       *)
(* missions, one of the three in each behaviour.  They are kept by the same *)
(* store under the same lock and have no state in common; `part` says which *)
(* of them a behaviour is about.                                            *)
(*                                                                          *)
(* Members are two devices of one user.  One device with two overlapping    *)
(* requests and enough faults for a failed append and what it leaves after  *)
(* a restart; one device in an invite-only mission, named by uid in two     *)
(* spellings or by user; and both devices, for role changes by user.        *)
(* Records are changed by two overlapping requests, a few at a time.  Lists *)
(* are of three missions, with one change or deletion; each query is read   *)
(* while what it may show changes.                                          *)
(***************************************************************************)
EXTENDS TLC, MissionRecords

CONSTANTS
    Device, User, NoDevice, NoUser, NoRole, DefaultRole,
    d1, d2, u1

VARIABLES
    part,
    roster, rosterStored, memberReq, memberFaults, memberMode, live, conn, told, past,   \* of the members
    missions, pending, clock, reader, edits, hist                            \* of the lists

MemberVars == <<roster, rosterStored, memberReq, memberFaults, memberMode, live, conn, told, past>>
ListVars == <<missions, pending, clock, reader, edits, hist>>
Vars == <<part, MemberVars, recordVars, ListVars>>

MemberMode(only, ds, n, faulty, cs, invitees) ==
    [inviteOnly |-> only, devices |-> ds, overlap |-> n, maxFaults |-> faulty, maxConn |-> cs,
     invitees |-> invitees]

MemberModes == {
    MemberMode(FALSE, {d1}, 2, 2, 1, {}),
    MemberMode(TRUE, {d1}, 1, 0, 2, [kind: {"ClientUid"}, who: {d1}, upper: BOOLEAN]
                                       \cup [kind: {"UserName"}, who: {u1}, upper: {FALSE}]),
    MemberMode(FALSE, {d1, d2}, 1, 0, 1, {})}

RecordModes ==
    {[attrs |-> as, maxFaults |-> 1] : as \in {{"password", "role"}, {"keywords"}, {"marks", "logs"}}}
    \cup {[attrs |-> as, maxFaults |-> 0] : as \in {{"fields"}, {"role", "groups"}}}

Search(sort, ascending, filter, shown, limit, byCount, scope) ==
    [sort |-> sort, ascending |-> ascending, filter |-> filter, names |-> {1, 2},
     shown |-> shown, limit |-> limit, byCount |-> byCount, scope |-> scope]

Scope(names, callers, attrs, kinds) ==
    [names |-> names, callers |-> callers, attrs |-> attrs, edits |-> kinds]

Searches == {
    Search("", TRUE, "", {"role"}, 1, FALSE, Scope({1, 3}, {"x"}, {{}}, {"delete"})),
    Search("", TRUE, "tool", {"password", "role"}, 2, TRUE,
           Scope({1}, {"x", "y"}, {{}, {"invite"}}, {"delete"})),
    Search("", TRUE, "tool", {"password", "role"}, 2, TRUE,
           Scope({1, 2}, {"x"}, {{}, {"password"}}, {})),
    Search("last_edited", FALSE, "", {"password", "role"}, 1, FALSE,
           Scope({1}, {"x"}, {{}}, {"fields", "groups"})),
    Search("name", TRUE, "name", {"role"}, 1, FALSE, Scope({1, 3}, {"x"}, {{}}, {"password"})),
    Search("tool", FALSE, "uid", {"password", "role"}, 1, FALSE,
           Scope({1}, {"x"}, {{}}, {"uids"}))}

Owners == [d \in Device |-> u1]

M == INSTANCE MissionMembers WITH
        Modes <- MemberModes, UserOf <- Owners,
        mem <- roster, stored <- rosterStored, req <- memberReq, faults <- memberFaults, mode <- memberMode
L == INSTANCE MissionList WITH
        Name <- 1 .. 3, Group <- {"g", "h"}, Caller <- {"x", "y"},
        GroupsOf <- [x |-> {"g"}, y |-> {"h"}], Mine <- {"g"}, Query <- Searches,
        MaxMissions <- 3, MaxEdits <- 1

NoMember ==
    /\ roster = 0 /\ rosterStored = 0 /\ memberReq = 0 /\ memberFaults = 0 /\ memberMode = 0
    /\ live = 0 /\ conn = 0 /\ told = 0 /\ past = 0
NoRecord == RecordsInit /\ mode = CHOOSE m \in Modes : TRUE
NoList == missions = 0 /\ pending = 0 /\ clock = 0 /\ reader = 0 /\ edits = 0 /\ hist = 0

Init ==
    \/ part = "members" /\ M!Init /\ NoRecord /\ NoList
    \/ part = "records" /\ RecordsInit /\ NoMember /\ NoList
    \/ part = "lists" /\ L!Init /\ NoMember /\ NoRecord

Next ==
    /\ UNCHANGED part
    /\ \/ part = "members" /\ M!Next /\ UNCHANGED <<recordVars, ListVars>>
       \/ part = "records" /\ RecordsNext /\ UNCHANGED <<MemberVars, ListVars>>
       \/ part = "lists" /\ L!Next /\ UNCHANGED <<MemberVars, recordVars>>

Spec == Init /\ [][Next]_Vars

Symmetry == Permutations(Slot)

-----------------------------------------------------------------------------
(***************************************************************************)
(* The mission store and the notifier agree on who takes part: live         *)
(* subscribers are subscribed, connected ones were told the role that they  *)
(* have, who has unsubscribed stays so after a restart, and nobody has two  *)
(* invitations of one kind; with the exceptions that MissionMembers names.  *)
(***************************************************************************)
MembersKept ==
    part = "members" =>
        /\ M!TypeOK
        /\ M!LiveAreSubscribed /\ M!RolesTold
        /\ M!UnsubscribedStays /\ M!OneInvitationEach

(***************************************************************************)
(* A client that reads the paged list has every mission that stayed on it,  *)
(* none of them twice, and the list by name and the lookup by name agree;   *)
(* with the exceptions that MissionList names.                              *)
(***************************************************************************)
ListsRead ==
    part = "lists" => L!TypeOK /\ L!PagesComplete /\ L!PagesDistinct /\ L!ListFollowsNames
=============================================================================
