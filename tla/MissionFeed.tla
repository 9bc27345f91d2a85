---------------------------- MODULE MissionFeed ----------------------------
(***************************************************************************)
(* The content side of the missions: what a mission holds, the changes     *)
(* recorded about it, and the announcements its live subscribers get.      *)
(* Store: src/missions.rs; handlers: src/marti/missions.rs; notifier:      *)
(* src/marti/mission_notify.rs.                                            *)
(*                                                                         *)
(* A store operation appends one event and applies it under the store's    *)
(* lock: one step.  A handler is the sequence of such steps it takes, and  *)
(* other requests run between two of them; reading the newest changes and  *)
(* announcing them are steps of their own, after the write's lock was      *)
(* released.  An append may fail, with or without leaving its line in the  *)
(* file, and ends the request there.                                       *)
(*                                                                         *)
(* Left out: who may do what, requests that are refused (they change       *)
(* nothing), times (the clock is taken never to go back, and offline       *)
(* changes older than their mission are refused), names (a request finds   *)
(* its mission by guid, or creates one), the layers that items are filed   *)
(* in, broadcasts to everyone, and the descriptive fields.                 *)
(***************************************************************************)
EXTENDS Naturals, Sequences, FiniteSets, SequencesExt

CONSTANTS
    Client,        \* client uids
    Content,       \* hashes and CoT uids
    Item,          \* uids of map layers, external data and mission feeds
    Request,       \* requests that may be in progress at once
    MaxLog,        \* a bound: events in the file
    MaxFaults,     \* a bound: appends that fail
    MaxMixed       \* a bound: events in a file that is about both Content and
                   \* Item, in one that overlapping requests write to, and in
                   \* one that an append to fails

VARIABLES
    log,           \* the event log's file
    mem,           \* MissionStore.state
    gone,          \* missions that were deleted before this start
    live,          \* MissionNotifier.live, with the changes known at connect
    req,           \* the requests in progress
    told,          \* history: the changes sent to each client since it connected
    lost,          \* history: changes of requests that ended with an error
    faults         \* the appends that failed

vars == <<log, mem, gone, live, req, told, lost, faults>>

None == "none"
NoId == MaxLog + 1
Guid == 1 .. MaxLog

(***************************************************************************)
(* Events and the reducer.  The change an event records is determined by   *)
(* the event, so state.changes is a sequence of events; the id is in the   *)
(* event, and next_change_id follows it.                                   *)
(***************************************************************************)
Kind == {"Created", "Deleted", "ContentAdded", "ContentRemoved",
         "MapLayerSaved", "ExternalDataSet", "ExternalDataChange",
         "MissionFeedAdded", "MissionFeedRemoved"}

\* flag: defaultLayer of a map layer, remove of an external data change.
Event ==
    [kind: Kind, guid: Guid, key: Content \cup Item \cup {None},
     creator_uid: Client, change_id: 0 .. NoId, flag: BOOLEAN]

IsAdd(e) == e.kind = "ContentAdded"
OfContent(e) == e.kind \in {"ContentAdded", "ContentRemoved"}
OfExternal(e) == e.kind \in {"ExternalDataSet", "ExternalDataChange"}

Empty == [x \in {} |-> None]
With(f, x, v) == [y \in DOMAIN f \cup {x} |-> IF y = x THEN v ELSE f[y]]
Without(f, x) == [y \in DOMAIN f \ {x} |-> f[y]]
Greater(a, b) == IF a > b THEN a ELSE b

Mission == [contents: Seq(Content), deleted: BOOLEAN]
MapLayer == [guid: Guid, default: BOOLEAN]

Default ==
    [missions |-> Empty, changes |-> <<>>, next_change_id |-> 0,
     external_data |-> Empty, map_layers |-> Empty, mission_feeds |-> Empty]

\* state.changes.push, and the next id; updating a map layer records none.
PushChange(m, e) ==
    IF e.change_id = NoId THEN m
    ELSE [m EXCEPT !.changes = Append(@, e),
                   !.next_change_id = Greater(@, e.change_id + 1)]

ApplyCreated(m, e) ==
    [m EXCEPT !.missions =
        With(@, e.guid, [contents |-> <<>>, deleted |-> FALSE])]

ApplyDeleted(m, e) == [m EXCEPT !.missions[e.guid].deleted = TRUE]

ContentsWithout(m, e) ==
    SelectSeq(m.missions[e.guid].contents, LAMBDA c : c # e.key)

ApplyContentAdded_KeepsPlace(m, e) ==
    IF e.key \in ToSet(m.missions[e.guid].contents) THEN m
    ELSE [m EXCEPT !.missions[e.guid].contents = Append(@, e.key)]

\* "An item shows its latest ADD_CONTENT change, ordered by it."
ApplyContentAdded(m, e) ==
    [m EXCEPT !.missions[e.guid].contents = Append(ContentsWithout(m, e), e.key)]

ApplyContentRemoved(m, e) ==
    [m EXCEPT !.missions[e.guid].contents = ContentsWithout(m, e)]

\* A new default layer ends every other one's, whatever its mission.
ApplyMapLayerSaved(m, e) ==
    LET others == [u \in DOMAIN m.map_layers |->
            [m.map_layers[u] EXCEPT !.default = @ /\ ~e.flag]]
    IN  [m EXCEPT !.map_layers =
            With(others, e.key, [guid |-> e.guid, default |-> e.flag])]

ApplyExternalData(m, e) ==
    CASE e.kind = "ExternalDataSet" ->
            [m EXCEPT !.external_data = With(@, e.key, e.guid)]
      [] e.kind = "ExternalDataChange" /\ e.flag ->
            [m EXCEPT !.external_data = Without(@, e.key)]
      [] OTHER -> m

ApplyMissionFeed(m, e) ==
    [m EXCEPT !.mission_feeds =
        IF e.kind = "MissionFeedAdded" THEN With(@, e.key, e.guid)
        ELSE Without(@, e.key)]

Apply(m, e) ==
    LET p == PushChange(m, e)
    IN  CASE e.kind = "Created" -> ApplyCreated(p, e)
          [] e.kind = "Deleted" -> ApplyDeleted(p, e)
          [] e.kind = "ContentAdded" -> ApplyContentAdded(p, e)
          [] e.kind = "ContentRemoved" -> ApplyContentRemoved(p, e)
          [] e.kind = "MapLayerSaved" -> ApplyMapLayerSaved(p, e)
          [] OfExternal(e) -> ApplyExternalData(p, e)
          [] OTHER -> ApplyMissionFeed(p, e)

Replayed(l) == FoldLeft(Apply, Default, l)

(***************************************************************************)
(* What a client reads.                                                    *)
(***************************************************************************)
Mine(m, g) == SelectSeq(m.changes, LAMBDA e : e.guid = g)

\* changes(guid, ALL, false): a stable sort, the highest id first.
Changes(m, g) ==
    LET mine == Mine(m, g)
        Before(i, j) == \/ mine[i].change_id > mine[j].change_id
                        \/ mine[i].change_id = mine[j].change_id /\ i < j
        order == SetToSortSeq(DOMAIN mine, Before)
    IN  [i \in DOMAIN mine |-> mine[order[i]]]

\* announce_latest_changes: the `count` newest, oldest first.
Newest(m, g, count) ==
    LET all == Changes(m, g)
    IN  Reverse(SubSeq(all, 1, IF count < Len(all) THEN count ELSE Len(all)))

Squashed_NoPresence(m, g, n) ==
    {e \in ToSet(Mine([m EXCEPT !.changes = SubSeq(@, n + 1, Len(@))], g)) : TRUE}

\* changes(guid, window, true) for a window that starts after the first n
\* changes: of the rows in the window, adds of content that is there and
\* removes of content that is not, one for each content and creator (as for
\* external data), with the group's highest id.
Squashed(m, g, n) ==
    LET present == ToSet(m.missions[g].contents)
        kept == {e \in ToSet(SubSeq(m.changes, n + 1, Len(m.changes))) :
                    e.guid = g /\ (OfContent(e) => (IsAdd(e) <=> e.key \in present))}
        SameGroup(d, e) == [d EXCEPT !.change_id = 0] = [e EXCEPT !.change_id = 0]
    IN  {e \in kept : OfContent(e) \/ OfExternal(e) =>
            \A d \in kept : SameGroup(d, e) => d.change_id <= e.change_id}

(***************************************************************************)
(* Handlers as the steps they take.                                        *)
(***************************************************************************)
Step(do, key, flag) == [do |-> do, key |-> key, flag |-> flag, count |-> 0]
StoreOther == <<Step("Other", None, FALSE)>>
Connect == <<Step("Connect", None, FALSE)>>
Disconnect == <<Step("Disconnect", None, FALSE)>>
Announce == <<Step("Announce", None, FALSE)>>
AnnounceLatest(n) ==
    <<[Step("Latest", None, FALSE) EXCEPT !.count = n]>> \o Announce
Each(do, cs) == [i \in DOMAIN cs |-> Step(do, cs[i], FALSE)]
OneByOne(do, cs) ==
    FlattenSeq([i \in DOMAIN cs |-> <<Step(do, cs[i], FALSE)>> \o AnnounceLatest(1)])

CreateImpl == <<Step("Created", None, FALSE)>> \o StoreOther \o Connect

DeleteImpl == <<Step("Deleted", None, FALSE)>>

AddContentsImpl_AnnouncesFirst(cs) ==
    AnnounceLatest(Len(cs)) \o Each("ContentAdded", cs)

\* The hashes and uids of the request, then one announcement of as many.
AddContentsImpl(cs) == Each("ContentAdded", cs) \o AnnounceLatest(Len(cs))

\* The `paths` of a request, a package's files, an event streamed to the
\* mission: each item is added and announced before the next.
AddOneByOne(cs) == OneByOne("ContentAdded", cs)

RemoveContentImpl(cs) == Each("ContentRemoved", cs) \o AnnounceLatest(Len(cs))

\* Offline changes of a package, and the items of a deleted layer.
RemoveOneByOne(cs) == OneByOne("ContentRemoved", cs)

SaveNewMapLayer(i, default) == <<Step("MapLayerSaved", i, default)>> \o Announce

UpdateMapLayer(i, default) == <<Step("UpdateMapLayer", i, default)>>

SaveExternal(i) == <<Step("ExternalDataSet", i, FALSE)>> \o Announce

ExternalChangeImpl(i, remove) ==
    <<Step("ExternalDataChange", i, remove)>> \o Announce

AddMissionFeed(i) == <<Step("MissionFeedAdded", i, FALSE)>> \o Announce

RemoveMissionFeed(i) == <<Step("MissionFeedRemoved", i, FALSE)>> \o Announce

\* createMission, subscribe, connect, keywords, then the map layers and the
\* external data of the original, and its contents as they were looked up
\* (the code takes the hashes before the uids; Content does not tell them
\* apart).  The log entries that are copied last are left out.
CopyMission(contents) ==
    CreateImpl \o StoreOther \o <<Step("CopyMapLayers", None, FALSE),
                                  Step("CopyExternalData", None, FALSE)>>
        \o AddOneByOne(contents)

\* The stored subscription and the invitation that is used up are left out.
SubscribeImpl == Connect

UnsubscribeImpl == Disconnect

(***************************************************************************)
(* The steps of a request q on slot r.                                     *)
(***************************************************************************)
Idle == [todo |-> <<>>, guid |-> 0, from |-> 0, who |-> None, news |-> <<>>,
         mine |-> {}]
Busy(r) == req[r].todo # <<>>
Doing(q) == Head(q.todo)
Done(q) == IF Len(q.todo) = 1 THEN Idle ELSE [q EXCEPT !.todo = Tail(@)]

NewGuid == 1 + Cardinality({i \in DOMAIN log : log[i].kind = "Created"})

EventOf(q) ==
    LET s == Doing(q)
        update == s.do = "UpdateMapLayer"
    IN  [kind |-> IF update THEN "MapLayerSaved" ELSE s.do,
         guid |-> IF s.do = "Created" THEN NewGuid ELSE q.guid,
         key |-> s.key, creator_uid |-> q.who, flag |-> s.flag,
         change_id |-> IF update THEN NoId ELSE mem.next_change_id]

\* Removing an unknown feed or changing unknown external data does nothing.
Unknown(s) ==
    \/ s.do = "MissionFeedRemoved" /\ s.key \notin DOMAIN mem.mission_feeds
    \/ s.do = "ExternalDataChange" /\ s.key \notin DOMAIN mem.external_data

Writes(q) == Doing(q).do \in Kind \cup {"UpdateMapLayer"} /\ ~Unknown(Doing(q))

HasRoom(e) ==
    LET next == Append(log, e)
        About(keys) == \E i \in DOMAIN next : next[i].key \in keys
    IN  /\ Len(next) <= MaxLog
        /\ About(Content) /\ About(Item) => Len(next) <= MaxMixed

MayOverlap == (\E r \in Request : Busy(r)) => Len(log) < MaxMixed

\* The slots are alike: a new request takes one of those that are free.
FreeSlot ==
    LET free == {r \in Request : ~Busy(r)}
    IN  IF free = {} THEN {} ELSE {CHOOSE r \in free : TRUE}

\* Operations that return the change they recorded, to be announced.
Returned(e) == ~OfContent(e) /\ e.kind \notin {"Created", "Deleted"}

Record(r, q) ==
    /\ Writes(q) /\ HasRoom(EventOf(q))
    /\ \E e \in {EventOf(q)} :
           /\ log' = Append(log, e)
           /\ mem' = Apply(mem, e)
           /\ req' = [req EXCEPT ![r] = Done([q EXCEPT
                    !.guid = e.guid, !.mine = @ \cup {e},
                    !.news = IF Returned(e) THEN <<e>> ELSE @])]
    /\ UNCHANGED <<gone, live, told, lost, faults>>

\* An append fails, and its line may be in the file all the same.
AppendFails(r, q) ==
    /\ \/ Doing(q).do = "Other" /\ log' = log
       \/ /\ Writes(q) /\ HasRoom(EventOf(q))
          /\ log' \in {log, Append(log, EventOf(q))}
    /\ req' = [req EXCEPT ![r] = Idle]
    /\ lost' = lost \cup q.mine
    /\ faults < MaxFaults /\ Len(log) < MaxMixed /\ faults' = faults + 1
    /\ UNCHANGED <<mem, gone, live, told>>

\* An event of the store that this module does not follow.
RecordOther(r, q) ==
    /\ Doing(q).do = "Other"
    /\ req' = [req EXCEPT ![r] = Done(q)]
    /\ UNCHANGED <<log, mem, gone, live, told, lost, faults>>

ReadLatest(r, q) ==
    /\ Doing(q).do = "Latest"
    /\ req' = [req EXCEPT ![r] =
            Done([q EXCEPT !.news = Newest(mem, q.guid, Doing(q).count)])]
    /\ UNCHANGED <<log, mem, gone, live, told, lost, faults>>

Subscribers(g) == {l.uid : l \in {l \in live : l.guid = g}}

\* announce: one notification to the live subscribers.
AnnounceNews(r, q) ==
    /\ Doing(q).do = "Announce"
    /\ told' = [u \in Client |->
            IF u \in Subscribers(q.guid) THEN told[u] \cup {Head(q.news)} ELSE told[u]]
    /\ req' = [req EXCEPT ![r] =
            IF Len(q.news) = 1 THEN Done([q EXCEPT !.news = <<>>])
            ELSE [q EXCEPT !.news = Tail(@)]]
    /\ UNCHANGED <<log, mem, gone, live, lost, faults>>

ConnectStep(r, q) ==
    /\ Doing(q).do = "Connect"
    /\ live' = IF q.who \in Subscribers(q.guid) THEN live
               ELSE live \cup {[guid |-> q.guid, uid |-> q.who,
                                since |-> Len(mem.changes)]}
    /\ req' = [req EXCEPT ![r] = Done(q)]
    /\ UNCHANGED <<log, mem, gone, told, lost, faults>>

DisconnectStep(r, q) ==
    /\ Doing(q).do = "Disconnect"
    /\ live' = {l \in live : l.guid # q.guid \/ l.uid # q.who}
    /\ told' = [told EXCEPT ![q.who] = {e \in @ : e.guid # q.guid}]
    /\ req' = [req EXCEPT ![r] = Done(q)]
    /\ UNCHANGED <<log, mem, gone, lost, faults>>

\* Uids that no layer or feed was given; the code takes random ones.
Fresh == Item \ ({log[i].key : i \in DOMAIN log}
                 \cup UNION {{s.key : s \in ToSet(req[r].todo)} : r \in Request})

\* A copy reads the original's map layers, and later its external data.
ReadOriginal(r, q) ==
    LET layers == SetToSeq({i \in DOMAIN mem.map_layers :
                                mem.map_layers[i].guid = q.from})
        data == SetToSeq({i \in DOMAIN mem.external_data :
                                mem.external_data[i] = q.from})
        new == SetToSeq(Fresh)
        steps == IF Doing(q).do = "CopyMapLayers"
                 THEN [k \in DOMAIN layers |->
                        SaveNewMapLayer(new[k], mem.map_layers[layers[k]].default)]
                 ELSE [k \in DOMAIN data |-> SaveExternal(data[k])]
        todo == FlattenSeq(steps) \o Tail(q.todo)
    IN  /\ Doing(q).do \in {"CopyMapLayers", "CopyExternalData"}
        /\ Len(layers) <= Len(new)
        /\ req' = [req EXCEPT ![r] =
                IF todo = <<>> THEN Idle ELSE [q EXCEPT !.todo = todo]]
        /\ UNCHANGED <<log, mem, gone, live, told, lost, faults>>

Advance(r, q) ==
    \/ Record(r, q) \/ AppendFails(r, q) \/ RecordOther(r, q)
    \/ ReadLatest(r, q) \/ AnnounceNews(r, q)
    \/ ConnectStep(r, q) \/ DisconnectStep(r, q) \/ ReadOriginal(r, q)

(***************************************************************************)
(* The requests.  A request looks its mission up and takes its first step; *)
(* a mission that is deleted between the two was still found.  Refused     *)
(* requests, and those with nothing to do, are left out.                   *)
(***************************************************************************)
Existing == {g \in DOMAIN mem.missions : ~mem.missions[g].deleted}
Found == DOMAIN mem.missions \ gone

Begin(r, u, g, todo) ==
    \E q \in {[Idle EXCEPT !.todo = todo, !.guid = g, !.who = u]} : Advance(r, q)

Lists == {cs \in SeqOf(Content, 2) : cs # <<>> /\ IsInjective(cs)}

Create(r, u) == Begin(r, u, 0, CreateImpl)
Delete(r, u) == \E g \in Found : Begin(r, u, g, DeleteImpl)
AddContents(r, u) ==
    \E g \in Found, cs \in Lists : Begin(r, u, g, AddContentsImpl(cs))
AddFiled(r, u) ==
    \E g \in Found, c \in Content : Begin(r, u, g, AddOneByOne(<<c>>))
RemoveContent(r, u) ==
    \E g \in Found, cs \in Lists : Begin(r, u, g, RemoveContentImpl(cs))
RemoveFiled(r, u) ==
    \E g \in Found, c \in Content : Begin(r, u, g, RemoveOneByOne(<<c>>))
AddMapLayer(r, u) ==
    \E g \in Found, i \in Fresh, d \in BOOLEAN :
        Begin(r, u, g, SaveNewMapLayer(i, d))
ChangeMapLayer(r, u) ==
    \E i \in DOMAIN mem.map_layers, d \in BOOLEAN :
        Begin(r, u, mem.map_layers[i].guid, UpdateMapLayer(i, d))
SetExternalData(r, u) ==
    \E g \in Found, i \in Item : Begin(r, u, g, SaveExternal(i))
ChangeExternalData(r, u) ==
    \E g \in Found, i \in Item, remove \in BOOLEAN :
        Begin(r, u, g, ExternalChangeImpl(i, remove))
AddFeed(r, u) == \E g \in Found, i \in Fresh : Begin(r, u, g, AddMissionFeed(i))
RemoveFeed(r, u) == \E g \in Found, i \in Item : Begin(r, u, g, RemoveMissionFeed(i))
Subscribe(r, u) == \E g \in Found : Begin(r, u, g, SubscribeImpl)
Unsubscribe(r, u) == \E g \in Found : Begin(r, u, g, UnsubscribeImpl)

\* The contents are those of the lookup; the copy's guid is known later.
Copy(r, u) ==
    \E g \in Existing :
        /\ Len(log) < MaxLog
        /\ req' = [req EXCEPT ![r] = [Idle EXCEPT
                !.todo = CopyMission(mem.missions[g].contents), !.from = g, !.who = u]]
        /\ UNCHANGED <<log, mem, gone, live, told, lost, faults>>

ClientDisconnected(u) ==
    /\ u \in {l.uid : l \in live}
    /\ live' = {l \in live : l.uid # u}
    /\ told' = [told EXCEPT ![u] = {}]
    /\ UNCHANGED <<log, mem, gone, req, lost, faults>>

\* A crash and the next start: load_or_create replays the file.
Restart ==
    /\ mem' = Replayed(log)
    /\ gone' = {g \in DOMAIN mem'.missions : mem'.missions[g].deleted}
    /\ live' = {}
    /\ req' = [r \in Request |-> Idle]
    /\ told' = [u \in Client |-> {}]
    /\ lost' = {}
    /\ UNCHANGED <<log, faults>>

Init ==
    /\ log = <<>>
    /\ mem = Default
    /\ gone = {}
    /\ live = {}
    /\ req = [r \in Request |-> Idle]
    /\ told = [u \in Client |-> {}]
    /\ lost = {}
    /\ faults = 0

Handle(r, u) ==
    \/ Create(r, u) \/ Delete(r, u) \/ Copy(r, u)
    \/ AddContents(r, u) \/ AddFiled(r, u)
    \/ RemoveContent(r, u) \/ RemoveFiled(r, u)
    \/ AddMapLayer(r, u) \/ ChangeMapLayer(r, u)
    \/ SetExternalData(r, u) \/ ChangeExternalData(r, u)
    \/ AddFeed(r, u) \/ RemoveFeed(r, u)
    \/ Subscribe(r, u) \/ Unsubscribe(r, u)

Next ==
    \/ \E r \in Request : Busy(r) /\ Advance(r, req[r])
    \/ \E r \in FreeSlot, u \in Client : MayOverlap /\ Handle(r, u)
    \/ \E u \in Client : ClientDisconnected(u)
    \/ Restart

Spec == Init /\ [][Next]_vars

(***************************************************************************)
(* Properties.                                                             *)
(***************************************************************************)
\* Types; a mission lists no content twice, and ids stay below next_change_id.
TypeOK ==
    /\ log \in Seq(Event) /\ Len(log) <= MaxLog
    /\ DOMAIN mem.missions \subseteq Guid
    /\ \A g \in DOMAIN mem.missions :
            mem.missions[g] \in Mission /\ IsInjective(mem.missions[g].contents)
    /\ mem.changes \in Seq(Event) /\ mem.next_change_id \in 0 .. MaxLog
    /\ \A e \in ToSet(mem.changes) : e.change_id < mem.next_change_id
    /\ \A f \in {mem.external_data, mem.mission_feeds} :
            DOMAIN f \subseteq Item /\ \A x \in DOMAIN f : f[x] \in Guid
    /\ DOMAIN mem.map_layers \subseteq Item
    /\ \A x \in DOMAIN mem.map_layers : mem.map_layers[x] \in MapLayer
    /\ live \subseteq [guid: Guid, uid: Client, since: 0 .. MaxLog]
    /\ told \in [Client -> SUBSET Event]
    /\ lost \subseteq Event
    /\ faults \in 0 .. MaxFaults

\* The position of the last change about `key`, 0 if there is none.
LastAbout(g, n, Is(_), key) ==
    LET at == {i \in 1 .. n : /\ Is(mem.changes[i]) /\ mem.changes[i].key = key
                             /\ g \in {0, mem.changes[i].guid}}
    IN  IF at = {} THEN 0 ELSE CHOOSE i \in at : \A j \in at : j <= i

\* The contents of mission g after its first n changes, read off the changes.
ContentAfter(g, n) ==
    {c \in Content : LET i == LastAbout(g, n, OfContent, c)
                     IN  i # 0 /\ IsAdd(mem.changes[i])}

\* The recorded changes tell the whole story: contents (in their order),
\* external data and mission feeds are what the change list says they are,
\* through errors, crashes and replays.
ContentFollowsChanges ==
    LET n == Len(mem.changes)
        \* a change notice leaves the record alone
        Decides(e) == OfExternal(e) /\ (e.kind = "ExternalDataSet" \/ e.flag)
        IsFeed(e) == e.kind \in {"MissionFeedAdded", "MissionFeedRemoved"}
    IN  /\ \A g \in DOMAIN mem.missions :
             LET cs == mem.missions[g].contents
             IN  /\ ToSet(cs) = ContentAfter(g, n)
                 /\ \A i, j \in DOMAIN cs : i < j =>
                        LastAbout(g, n, OfContent, cs[i])
                            < LastAbout(g, n, OfContent, cs[j])
        /\ \A x \in Item :
             LET i == LastAbout(0, n, Decides, x)
                 j == LastAbout(0, n, IsFeed, x)
             IN  /\ x \in DOMAIN mem.external_data <=>
                        i # 0 /\ mem.changes[i].kind = "ExternalDataSet"
                 /\ x \in DOMAIN mem.mission_feeds <=>
                        j # 0 /\ mem.changes[j].kind = "MissionFeedAdded"

\* Incremental synchronisation: a client that holds the contents as of any
\* earlier change and applies the squashed changes since then, adds and
\* removes in any order, has today's contents.
SquashedIsEnough ==
    \A g \in DOMAIN mem.missions, n \in 0 .. Len(mem.changes) :
        LET rows == {e \in Squashed(mem, g, n) : OfContent(e)}
            added == {e.key : e \in {e \in rows : IsAdd(e)}}
            removed == {e.key : e \in {e \in rows : ~IsAdd(e)}}
        IN  /\ added \cap removed = {}
            /\ (ContentAfter(g, n) \ removed) \cup added
                    = ToSet(mem.missions[g].contents)

AtRest(g) == \A r \in Request : Busy(r) => req[r].guid # g /\ req[r].from # g

\* When no request is working on a mission, each of its live subscribers has
\* been told of its newest change, unless that is older than the
\* subscription or its request ended with an error.
NewestTold ==
    \A l \in live :
        LET mine == {i \in DOMAIN mem.changes : mem.changes[i].guid = l.guid}
        IN  AtRest(l.guid) /\ ~mem.missions[l.guid].deleted =>
                \A i \in mine : (\A j \in mine : j <= i) /\ i > l.since
                    => mem.changes[i] \in told[l.uid] \cup lost

\* At most one map layer of the server is the default layer, whichever
\* missions and copies they belong to.
OneDefaultLayer ==
    \A i, j \in DOMAIN mem.map_layers :
        mem.map_layers[i].default /\ mem.map_layers[j].default => i = j

\* What the store has of missions, their contents and their layers is what the
\* list of changes says, and one layer at most is the default.
StateFollowsChanges == TypeOK /\ ContentFollowsChanges /\ OneDefaultLayer
============================================================================
