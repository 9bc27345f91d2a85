--------------------------- MODULE MissionMembers ---------------------------
(***************************************************************************)
(* Who takes part in a mission: subscriptions with roles, and invitations,  *)
(* in the mission store (src/missions.rs); the live subscribers that the    *)
(* notifier keeps beside it (src/marti/mission_notify.rs); and the requests *)
(* that change both (src/marti/missions.rs).                                *)
(*                                                                          *)
(* A request takes the store's lock once for each call on the store, and    *)
(* the notifier's for each call on that: one step each, interleaved with    *)
(* those of other requests and with connections that end.  There is one     *)
(* mission, it stays, and it has no password.  Who may make a request is    *)
(* left out: whoever the checks let through with the most permissions.      *)
(***************************************************************************)
EXTENDS Naturals, Sequences, FiniteSets, SequencesExt

CONSTANTS
    Device, User,      \* client uids, and the names in certificates
    UserOf,            \* whose each device is
    NoDevice, NoUser,  \* an empty parameter
    NoRole,            \* an absent role parameter, or nothing told
    DefaultRole,       \* the mission's effective_default_role
    Modes,             \* bounds: what each run of the mission is like, see mode
    Slot               \* requests in progress

VARIABLES
    mem,         \* MissionStore.state: subscriptions and invitations
    stored,      \* what a replay of the event log would give
    live,        \* MissionNotifier.live
    conn,        \* how many connections each device has
    mode,        \* constant: invite_only, who takes part, who may be invited
                 \* (and how they are spelled), how many requests overlap,
                 \* and how many connections and faults there may be
    req,         \* the requests in progress
    faults,      \* how many faults there were
    told,        \* history: the role that each device was told last
    past         \* history: sets of devices, see below

vars == <<mem, stored, live, conn, mode, req, faults, told, past>>

(***************************************************************************)
(* Roles.                                                                   *)
(***************************************************************************)
Permissions == [
    MISSION_OWNER |-> {"READ", "WRITE", "DELETE", "SET_ROLE", "SET_PASSWORD",
                       "UPDATE_GROUPS", "MANAGE_FEEDS", "MANAGE_LAYERS"},
    MISSION_SUBSCRIBER |-> {"READ", "WRITE"},
    MISSION_READONLY_SUBSCRIBER |-> {"READ"}]

Owner == "MISSION_OWNER"
Role == DOMAIN Permissions

HasAll(r, other) == Permissions[other] \subseteq Permissions[r]

\* may_assign, for an owner.
MayAssign(r) == HasAll(Owner, r) /\ HasAll(r, DefaultRole)

-----------------------------------------------------------------------------
(***************************************************************************)
(* The store.  A subscription has a random id; it is enough that it is not  *)
(* in use.  An invitee keeps its spelling; apply ignores the case.          *)
(***************************************************************************)
Id == 1 .. 2 * Cardinality(Device)

SubscriptionRecord == [id: Id, uid: Device, role: Role]
Invitee == [kind: {"ClientUid", "UserName"}, who: Device \cup User, upper: BOOLEAN]
InvitationRecord == [to: Invitee, role: Role]

SameName(a, b) == a.kind = b.kind /\ a.who = b.who

\* The event Subscribed, as apply has it.
Subscribed(s, sub) == [s EXCEPT !.subs = Append(@, sub)]

\* SubscriptionRoleSet
RoleSet(s, id, role) ==
    [s EXCEPT !.subs = [i \in DOMAIN @ |-> IF @[i].id = id THEN [@[i] EXCEPT !.role = role] ELSE @[i]]]

\* Unsubscribed
Unsubscribed(s, id) == [s EXCEPT !.subs = SelectSeq(@, LAMBDA x : x.id # id)]

\* Invited
Invited(s, inv) ==
    [s EXCEPT !.invitations = {i \in @ : ~SameName(i.to, inv.to)} \cup {inv}]

\* Uninvited
Uninvited(s, to) == [s EXCEPT !.invitations = {i \in @ : ~SameName(i.to, to)}]

SubscriptionsOf(s, d) == SelectSeq(s.subs, LAMBDA x : x.uid = d)
Ids(subs) == [i \in DOMAIN subs |-> subs[i].id]
RoleOf(s, d) == IF SubscriptionsOf(s, d) = <<>> THEN NoRole ELSE Head(SubscriptionsOf(s, d)).role

Fault == faults < mode.maxFaults /\ faults' = faults + 1

\* record, for one event after another under one lock; ms is what memory is
\* before, between and after them, ss what is stored.  All are in the file and
\* in memory, or the append of one fails, with or without its line in the file,
\* and the rest is not tried.
RecordEach(ms, ss) ==
    \/ mem' = Last(ms) /\ stored' = Last(ss) /\ UNCHANGED faults
    \/ /\ Fault
       /\ \E n \in 1 .. Len(ms) - 1 : mem' = ms[n] /\ stored' \in {ss[n], ss[n + 1]}

\* One event.
Record(m, s) == RecordEach(<<mem, m>>, <<stored, s>>)

\* What s is before, between and after a change of each of these subscriptions.
RolesSet(s, ids, role) ==
    [n \in 1 .. Len(ids) + 1 |->
        FoldLeft(LAMBDA t, id : RoleSet(t, id, role), s, SubSeq(ids, 1, n - 1))]
AllUnsubscribed(s, ids) ==
    [n \in 1 .. Len(ids) + 1 |-> FoldLeft(Unsubscribed, s, SubSeq(ids, 1, n - 1))]

Ok == faults' = faults   \* what was recorded in this step was recorded in full

-----------------------------------------------------------------------------
(***************************************************************************)
(* Requests.  `owes` holds the devices whose role the request has stored    *)
(* and not yet told, `stale` those of them whose role another request has   *)
(* stored since.  In `past`, `untold` holds devices that were told nothing  *)
(* of a change of theirs, or a role that was not the one stored last;       *)
(* `crossed` those whose unsubscription met a subscription half-way;        *)
(* `gone` those that have unsubscribed for good; and `torn` those whose     *)
(* subscription failed and left its line in the file.                       *)
(***************************************************************************)
Idle == [pc |-> "idle", dev |-> NoDevice, user |-> NoUser, role |-> NoRole,
         owes |-> {}, stale |-> {}]

Free(r) == req[r] = Idle /\ Cardinality({s \in Slot : req[s] # Idle}) < mode.overlap

Begin(r, pc, d, u, role) ==
    /\ Free(r)
    /\ req' = [req EXCEPT ![r] = [Idle EXCEPT !.pc = pc, !.dev = d, !.user = u, !.role = role]]
    /\ UNCHANGED <<mem, stored, live, conn, mode, faults, told, past>>

Goto(r, pc) == req' = [req EXCEPT ![r].pc = pc]
End(r) == req' = [req EXCEPT ![r] = Idle]

\* r has stored the roles that it owes and goes on as q, or it has failed: what
\* others owe to a device whose role has changed is stale.
Stores(r, q) ==
    LET changed == {d \in Device : RoleOf(mem', d) # RoleOf(mem, d)}
    IN  req' = [s \in Slot |->
            IF s = r THEN IF Ok THEN q ELSE Idle
            ELSE [req[s] EXCEPT !.owes = @ \ changed, !.stale = @ \cup (changed \cap req[s].owes)]]

Joining(r, d) == req[r].pc = "connect" /\ req[r].dev = d
Leaving(r, d) == req[r].pc \in {"unsubscribe", "remove"} /\ req[r].dev = d
Settled(d) == {x \in {d} : \A r \in Slot : ~Joining(r, d)}

\* The roles that a token still gives d: an invitation's or a subscription's.
TokenRoles(d) ==
    {i.role : i \in {j \in mem.invitations : j.to.who \in {d, UserOf[d]}}}
        \cup {x.role : x \in ToSet(SubscriptionsOf(mem, d))}

\* subscribe_impl, to the call of subscribe: the role is the token's; without
\* one, the user's invitation counts if the mission is invite-only.
Subscribe(r, d) ==
    \E role \in TokenRoles(d) \cup
                (IF mode.inviteOnly
                 THEN {i.role : i \in {j \in mem.invitations : j.to.kind = "UserName" /\ j.to.who = UserOf[d]}}
                 ELSE {DefaultRole}) :
        Begin(r, "subscribe", d, NoUser, role)

\* MissionStore::subscribe: a subscription that exists is kept, its role
\* raised if the new one has all of its permissions.
StoreSubscribe(r) ==
    LET d    == req[r].dev
        role == req[r].role
        mine == SubscriptionsOf(mem, d)
        raised == IF Head(mine).role # role /\ HasAll(role, Head(mine).role) THEN <<Head(mine).id>> ELSE <<>>
        new  == CHOOSE id \in Id : \A s \in {mem, stored} : \A x \in ToSet(s.subs) : x.id # id
        sub  == [id |-> new, uid |-> d, role |-> role]
    IN  /\ req[r].pc = "subscribe"
        /\ IF mine # <<>>
           THEN RecordEach(RolesSet(mem, raised, role), RolesSet(stored, raised, role))
           ELSE Record(Subscribed(mem, sub), Subscribed(stored, sub))
        /\ past' = [past EXCEPT !.gone = IF Ok THEN @ \ {d} ELSE @,
                                !.crossed = IF Ok THEN @ \ Settled(d) ELSE @,
                                !.torn = IF Len(stored'.subs) > Len(mem'.subs) THEN @ \cup {d} ELSE @]
        /\ Stores(r, [req[r] EXCEPT !.pc = "connect", !.owes = {d}, !.role = RoleOf(mem', d)])
        /\ UNCHANGED <<live, conn, mode, told>>

Connect(r) ==
    LET d == req[r].dev
    IN  /\ req[r].pc = "connect"
        /\ live' = live \cup {d}
        /\ past' = [past EXCEPT !.crossed =
                       @ \cup {x \in {d} : \E s \in Slot : Leaving(s, d)}]
        /\ Goto(r, "uninvite")
        /\ UNCHANGED <<mem, stored, conn, mode, faults, told>>

\* d is told `role` by r, unless it hears nothing.  It knows its role now if
\* that is what r stored and nobody has stored another since.
Tells(r, d, role, hears) ==
    /\ told' = IF hears THEN [told EXCEPT ![d] = role] ELSE told
    /\ past' = [past EXCEPT !.untold =
                   (@ \cup req[r].owes \cup req[r].stale \cup {d})
                       \ (IF hears THEN {d} \cap req[r].owes ELSE {})]

\* The client's own invitation is consumed; the answer has the role.
SubscribeEnds(r) ==
    LET d == req[r].dev
        own == [kind |-> "ClientUid", who |-> d]
    IN  /\ req[r].pc = "uninvite"
        /\ Record(Uninvited(mem, own), Uninvited(stored, own))
        /\ Tells(r, d, req[r].role, Ok)
        /\ End(r)
        /\ UNCHANGED <<live, conn, mode>>

\* notifier.disconnect, in unsubscribe_impl and, for pc "remove", in set_role
\* without a role.  With disconnectOnly that is all.
Disconnect(r, d, u, pc) ==
    /\ Free(r)
    /\ live' = live \ {d}
    /\ req' = [req EXCEPT ![r] = IF pc = "idle" THEN Idle
                                 ELSE [Idle EXCEPT !.pc = pc, !.dev = d, !.user = u]]
    /\ past' = [past EXCEPT !.crossed = @ \ Settled(d)]
    /\ UNCHANGED <<mem, stored, conn, mode, faults, told>>

\* MissionStore::unsubscribe, then: a client's own request is done, set_role
\* goes on to tell.
Unsubscribes(r, subs) ==
    LET d == req[r].dev
    IN  /\ req[r].pc \in {"unsubscribe", "remove"}
        /\ RecordEach(AllUnsubscribed(mem, Ids(subs)), AllUnsubscribed(stored, Ids(subs)))
        /\ past' = [past EXCEPT
              !.gone = IF Ok THEN @ \cup ({d} \cap Device) ELSE @,
              !.crossed = @ \cup {x \in {d} : \E s \in Slot : Joining(s, d)}]
        /\ Stores(r, IF req[r].pc = "remove" THEN [req[r] EXCEPT !.pc = "tell"] ELSE Idle)
        /\ UNCHANGED <<live, conn, mode, told>>

\* mutant: the first match only
StoreUnsubscribe_First(r) ==
    LET mine == SubscriptionsOf(mem, req[r].dev)
    IN  Unsubscribes(r, IF mine = <<>> THEN mine ELSE <<Head(mine)>>)

StoreUnsubscribe(r) == Unsubscribes(r, SubscriptionsOf(mem, req[r].dev))

\* The subscriptions that a role change is about: the user's, if one is given.
Meant(q) ==
    SelectSeq(mem.subs, LAMBDA x : IF q.user # NoUser THEN UserOf[x.uid] = q.user ELSE x.uid = q.dev)

\* MissionStore::set_subscription_role, for the request q in slot r.
StoreSetRole(r, q) ==
    LET ds  == {x.uid : x \in ToSet(Meant(q))}
        ids == Ids(Meant(q))
    IN  /\ RecordEach(RolesSet(mem, ids, q.role), RolesSet(stored, ids, q.role))
        /\ past' = [past EXCEPT !.untold =
                       IF Ok THEN @ ELSE @ \cup {d \in ds : RoleOf(mem', d) # RoleOf(mem, d)}]
        /\ Stores(r, [q EXCEPT !.pc = "tell", !.owes = ds])
        /\ UNCHANGED <<live, conn, mode, told>>

\* role_set_impl with a role, to the point where set_role has stored it.
SetRole(r, d, u) ==
    /\ Free(r)
    /\ \E role \in {x \in Role : MayAssign(x)} :
          StoreSetRole(r, [Idle EXCEPT !.dev = d, !.user = u, !.role = role])

\* The devices that set_role may tell: some connection of the user, if there
\* is one, else the device that was given.
Targets(q) ==
    LET theirs == {d \in Device : conn[d] > 0 /\ UserOf[d] = q.user}
    IN  IF theirs # {} THEN theirs ELSE {q.dev} \cap Device

\* The end of set_role: a device without a connection hears nothing.
Tell(r) ==
    /\ req[r].pc = "tell"
    /\ IF Targets(req[r]) = {}
       THEN past' = [past EXCEPT !.untold = @ \cup req[r].owes \cup req[r].stale] /\ UNCHANGED told
       ELSE \E d \in Targets(req[r]) : Tells(r, d, req[r].role, conn[d] > 0)
    /\ End(r)
    /\ UNCHANGED <<mem, stored, live, conn, mode, faults>>

\* The invitee that set_subscription_roles_impl would invite.
NamedInvitee(d, u) ==
    IF u # NoUser THEN [kind |-> "UserName", who |-> u, upper |-> FALSE]
    ELSE [kind |-> "ClientUid", who |-> d, upper |-> FALSE]

\* set_subscription_roles_impl, for one entry: whether someone is meant is
\* looked up; if nobody is, an invitation is made instead of a change.
InviteOrUpdate(r, d, u) ==
    /\ NamedInvitee(d, u) \in mode.invitees
    /\ \E role \in {x \in Role : MayAssign(x)} :
          Begin(r, IF Meant([dev |-> d, user |-> u]) # <<>> THEN "setRole" ELSE "invite", d, u, role)

\* ... and then set_role.
UpdateInstead(r) == req[r].pc = "setRole" /\ StoreSetRole(r, req[r])

\* MissionStore::invite: nothing is stored for an invitee that is there with
\* the same spelling.  What is then sent to the invitee is left out.
StoreInvite(to, role) ==
    \/ (\E i \in mem.invitations : i.to = to) /\ UNCHANGED <<mem, stored, faults>>
    \/ /\ \A i \in mem.invitations : i.to # to
       /\ LET inv == [to |-> to, role |-> role] IN Record(Invited(mem, inv), Invited(stored, inv))

\* invite_record, for an entry of set_subscription_roles_impl.
InviteInstead(r) ==
    /\ req[r].pc = "invite"
    /\ StoreInvite(NamedInvitee(req[r].dev, req[r].user), req[r].role)
    /\ End(r)
    /\ UNCHANGED <<live, conn, mode, told, past>>

\* invite_impl
Invite(to) ==
    /\ \E role \in Role : MayAssign(role) /\ StoreInvite(to, role)
    /\ UNCHANGED <<live, conn, mode, req, told, past>>

\* uninvite_impl
Uninvite(to) ==
    /\ Record(Uninvited(mem, to), Uninvited(stored, to))
    /\ UNCHANGED <<live, conn, mode, req, told, past>>

-----------------------------------------------------------------------------
(***************************************************************************)
(* Connections, and restarts.                                               *)
(***************************************************************************)
Connects(d) ==
    /\ conn[d] < mode.maxConn
    /\ conn' = [conn EXCEPT ![d] = @ + 1]
    /\ UNCHANGED <<mem, stored, live, mode, req, faults, told, past>>

\* LeaveMissions is dropped: the device leaves the live subscribers, whether
\* or not it has another connection by now.
ConnectionEnds(d) ==
    /\ conn[d] > 0
    /\ conn' = [conn EXCEPT ![d] = @ - 1]
    /\ live' = live \ {d}
    /\ past' = [past EXCEPT !.crossed = @ \ Settled(d)]
    /\ UNCHANGED <<mem, stored, mode, req, faults, told>>

\* A crash, and the replay at the next start.
Restart ==
    /\ Fault
    /\ mem' = stored /\ live' = {} /\ conn' = [d \in Device |-> 0]
    /\ req' = [r \in Slot |-> Idle]
    /\ past' = [past EXCEPT !.crossed = {}, !.torn = {},
          !.gone = @ \ past.torn,
          !.untold = @ \cup UNION {req[r].owes \cup req[r].stale : r \in Slot}
                       \cup {d \in Device : RoleOf(mem, d) # RoleOf(stored, d)}]
    /\ UNCHANGED <<stored, mode, told>>

\* Some device has created the mission and is its owner.
Init ==
    /\ mode \in Modes
    /\ \E d \in mode.devices :
          /\ mem = [subs |-> <<[id |-> 1, uid |-> d, role |-> Owner]>>, invitations |-> {}]
          /\ live = {d}
          /\ told = [x \in Device |-> IF x = d THEN Owner ELSE NoRole]
    /\ stored = mem
    /\ conn = [d \in Device |-> IF d \in mode.devices THEN 1 ELSE 0]
    /\ req = [r \in Slot |-> Idle]
    /\ past = [untold |-> {}, crossed |-> {}, gone |-> {}, torn |-> {}]
    /\ faults = 0

\* Role changes name a device or a user; a removal by user names no device.
Named == {<<d, NoUser>> : d \in mode.devices} \cup {<<NoDevice, u>> : u \in User}

Step(r) ==
    \/ StoreSubscribe(r) \/ Connect(r) \/ SubscribeEnds(r)
    \/ StoreUnsubscribe(r) \/ UpdateInstead(r) \/ Tell(r) \/ InviteInstead(r)

Request(r) ==
    \/ \E d \in mode.devices :
          Subscribe(r, d) \/ \E pc \in {"idle", "unsubscribe"} : Disconnect(r, d, NoUser, pc)
    \/ \E n \in Named :
          SetRole(r, n[1], n[2]) \/ InviteOrUpdate(r, n[1], n[2]) \/ Disconnect(r, n[1], n[2], "remove")

Next ==
    \/ \E r \in Slot : Step(r) \/ Request(r)
    \/ \E to \in mode.invitees : Invite(to) \/ Uninvite(to)
    \/ \E d \in mode.devices : Connects(d) \/ ConnectionEnds(d)
    \/ Restart

Spec == Init /\ [][Next]_vars

-----------------------------------------------------------------------------
TypeOK ==
    /\ \A s \in {mem, stored} :
          /\ s.subs \in Seq(SubscriptionRecord) /\ IsInjective(Ids(s.subs))
          /\ s.invitations \subseteq InvitationRecord
    /\ live \subseteq Device /\ conn \in [Device -> 0 .. mode.maxConn]
    /\ \A r \in Slot : req[r].owes \cap req[r].stale = {}
    /\ told \in [Device -> Role \cup {NoRole}]
    /\ past \in [{"untold", "crossed", "gone", "torn"} -> SUBSET Device]
    /\ faults \in 0 .. mode.maxFaults

\* Who gets the mission's changes live is subscribed, except where an
\* unsubscription (disconnect, then the store) and a subscription (the store,
\* then connect) of the same device went on at the same time.
LiveAreSubscribed == \A d \in live \ past.crossed : SubscriptionsOf(mem, d) # <<>>

\* A subscriber that is connected and to whom no request in progress owes a
\* message was told the role that it has, by an answer or by a message of
\* set_role.  The exceptions are in past.untold: two changes were told in
\* another order than they were stored in, a change by user was told to one of
\* the user's devices, the device was away, the request or the server failed,
\* or set_role told a role that it had not found a subscription to store in.
RolesTold ==
    \A d \in Device \ past.untold :
        conn[d] > 0 /\ RoleOf(mem, d) # NoRole /\ (\A r \in Slot : d \notin req[r].owes \cup req[r].stale)
            => told[d] = RoleOf(mem, d)

\* A device that has unsubscribed, and has not subscribed again, has no
\* subscription, and none comes back after a restart, twins included that a
\* failed append has left behind, unless the server has not restarted since
\* that append.
UnsubscribedStays ==
    \A d \in past.gone :
        /\ SubscriptionsOf(mem, d) = <<>>
        /\ d \notin past.torn => SubscriptionsOf(stored, d) = <<>>

\* No one has two invitations of one kind, however they are spelled: the
\* duplicate check minds the case and apply does not.
OneInvitationEach ==
    \A s \in {mem, stored} : \A i, j \in s.invitations : SameName(i.to, j.to) => i = j
=============================================================================
