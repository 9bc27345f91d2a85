----------------------------- MODULE MissionList -----------------------------
(***************************************************************************)
(* How clients find missions (src/marti/missions.rs, over the store of      *)
(* src/missions.rs): the list by name, the paged list with its filters and  *)
(* orders, the count, and the lookup by name that creating a mission does.  *)
(*                                                                          *)
(* One client reads the paged list page by page while others create, change *)
(* and delete missions; each page is cut from the missions as they are at   *)
(* that moment.  Creating looks the name up first and adds the mission      *)
(* later, with the time of the lookup, so that two may create one name and  *)
(* ids need not follow times.                                               *)
(*                                                                          *)
(* A mission's id is its place in `missions`.  Names are numbers, of which  *)
(* 2k - 1 and 2k are one word in lower and in upper case, in the order of   *)
(* collate.  Times of lookups and edits differ.                             *)
(***************************************************************************)
EXTENDS Naturals, Sequences, FiniteSets, SequencesExt

CONSTANTS
    Name,
    Group,
    Caller,       \* who creates missions
    GroupsOf,     \* of each caller
    Mine,         \* the groups of the client that reads
    Query,        \* what this client may ask for, and meanwhile happens: query.scope
                  \* bounds the names, creators and attributes of new missions and
                  \* the kinds of changes
    MaxMissions,  \* a bound: missions ever created
    MaxEdits      \* a bound: changes and deletions

VARIABLES
    missions,     \* the store's missions in the order of their ids
    pending,      \* creations that have looked their name up
    clock,        \* one more than the last time taken
    reader,       \* the client: [pc, query, page, pages, got]
    edits,        \* how many changes and deletions there were
    hist          \* history, of the reading in progress; see TypeOK

vars == <<missions, pending, clock, reader, edits, hist>>

Attr == {"password", "role", "invite"}   \* what may keep a mission off the lists

MissionRecord ==
    [name: Name, groups: SUBSET Group, tool: {"public", "other"}, attrs: SUBSET Attr,
     uids: 0 .. 2, time: Nat, edited: Nat, deleted: BOOLEAN]

Id == DOMAIN missions

-----------------------------------------------------------------------------
(***************************************************************************)
(* The lists.                                                               *)
(***************************************************************************)
List == {i \in Id : ~missions[i].deleted}

Visible(groups, i) == missions[i].groups \cap groups # {}

\* q.shown: what passwordProtected and defaultRole ask for.
Listed(q, i) == missions[i].attrs \subseteq q.shown \ {"invite"}

\* What `order by <column>` compares, and how.
Column(column, i) ==
    CASE column = "name" -> missions[i].name
      [] column = "create_time" -> missions[i].time
      [] column = "last_edited" -> missions[i].edited
      [] column = "tool" -> IF missions[i].tool = "other" THEN 1 ELSE 2
      [] OTHER -> i

Before_ByName(q, i, j) ==   \* mutant: without a column, the order of list()
    LET c == IF q.sort = "" THEN "name" ELSE q.sort
    IN  IF q.ascending THEN Column(c, i) < Column(c, j) \/ (Column(c, i) = Column(c, j) /\ i < j)
        ELSE Column(c, i) > Column(c, j) \/ (Column(c, i) = Column(c, j) /\ i > j)

\* By id without a column; a stable sort of that by the column; for a
\* descending order all of it reversed.
Before(q, i, j) ==
    LET a == Column(q.sort, i)
        b == Column(q.sort, j)
        less == a < b \/ (a = b /\ i < j)
    IN  IF q.sort = "" \/ q.ascending THEN less ELSE ~less

\* Of tool, nameFilter and uidFilter, the first that is given.
Matches(q, i) ==
    CASE q.filter = "tool" -> missions[i].tool = "public"
      [] q.filter = "name" -> missions[i].name \in q.names
      [] OTHER -> TRUE

\* paged_missions before it skips and takes: ids, with a uidFilter one for
\* each matching uid of the mission.
Rows(q) ==
    LET shown == {i \in List : Listed(q, i) /\ Visible(Mine, i) /\ Matches(q, i)}
        order == SetToSortSeq(shown, LAMBDA i, j : i # j /\ Before(q, i, j))
        Copies(i) == [k \in 1 .. (IF q.filter = "uid" THEN missions[i].uids ELSE 1) |-> i]
    IN  FoldLeft(LAMBDA rows, i : rows \o Copies(i), <<>>, order)

PagedMissions(rows, page, limit) ==
    LET last == (page + 1) * limit
    IN  SubSeq(rows, page * limit + 1, IF last < Len(rows) THEN last ELSE Len(rows))

MissionCount(q) == Cardinality({i \in List : Listed(q, i)})

Lower(n) == (n + 1) \div 2

Newest(S) == CHOOSE i \in S : \A j \in S : missions[j].time <= missions[i].time

Candidate(q, i) == i \in List /\ Listed(q, i) /\ missions[i].tool = "public"

\* list_missions: of the candidates with one name but for case the newest,
\* if this client may see it.
ListMissions(q) ==
    LET Named(n) == {i \in List : Candidate(q, i) /\ Lower(missions[i].name) = n}
        newest == {Newest(Named(n)) : n \in {Lower(missions[i].name) : i \in {j \in List : Candidate(q, j)}}}
    IN  {i \in newest : Visible(Mine, i)}

\* The missions that by_name chooses from, for a caller with these groups.
Called(groups, n) == {i \in List : missions[i].name = n /\ Visible(groups, i)}

ByName(groups, n) == Newest(Called(groups, n))

-----------------------------------------------------------------------------
(***************************************************************************)
(* The client reads.                                                        *)
(***************************************************************************)
ReaderRows == Rows(reader.query)

\* The rows of the pages that it has read, as they would be read now.
Behind(rows) ==
    SubSeq(rows, 1, IF reader.page * reader.query.limit < Len(rows)
                    THEN reader.page * reader.query.limit ELSE Len(rows))

Times(i, rows) == Cardinality({k \in DOMAIN rows : rows[k] = i})

\* It reads until a page is short, or as many pages as the count asks for.
StartReading(q) ==
    LET pages == (MissionCount(q) + q.limit - 1) \div q.limit
    IN  /\ reader.pc # "reading"
        /\ reader' = [pc |-> IF q.byCount /\ pages = 0 THEN "done" ELSE "reading",
                      query |-> q, page |-> 0, pages |-> pages, got |-> <<>>]
        /\ hist' = [first |-> Rows(q), old |-> Len(missions),
                    changed |-> {}, gone |-> {}, come |-> {}]
        /\ UNCHANGED <<missions, pending, clock, edits>>

ReadPage ==
    LET q == reader.query IN
    /\ reader.pc = "reading"
    /\ \E rows \in {PagedMissions(ReaderRows, reader.page, q.limit)} :
        LET last == IF q.byCount THEN reader.page + 1 = reader.pages ELSE Len(rows) < q.limit
        IN  reader' = [reader EXCEPT !.page = @ + 1, !.got = @ \o rows,
                                    !.pc = IF last THEN "done" ELSE @]
    /\ UNCHANGED <<missions, pending, clock, edits, hist>>

\* History: mission i has changed; it may have left the pages behind the
\* client or come into them.
Note(i) ==
    \/ /\ reader.pc # "reading"
       /\ UNCHANGED <<reader, hist>>
    \/ /\ reader.pc = "reading"
       /\ UNCHANGED reader
       /\ \E now \in {ReaderRows}, next \in {ReaderRows'} :
            LET before == Times(i, Behind(now))
                after  == Times(i, Behind(next))
                If(c)  == IF c THEN {i} ELSE {}
            IN  hist' = [hist EXCEPT !.changed = @ \cup {i}, !.gone = @ \cup If(after < before),
                                     !.come = @ \cup If(after > before)]

(***************************************************************************)
(* Others create, change and delete missions.                               *)
(***************************************************************************)
\* mission_groups: the caller's own groups, or some of them.
MissionGroups(c) == SUBSET GroupsOf[c] \ {{}}

\* create_impl goes on to create if the caller sees no mission of the name;
\* otherwise it changes that mission (SetFields and the others below).
LookUp(c, n, groups, attrs) ==
    /\ Len(missions) + Cardinality(pending) < MaxMissions
    /\ Called(GroupsOf[c], n) = {}
    /\ pending' = pending \cup {[name |-> n, groups |-> groups, attrs |-> attrs, time |-> clock]}
    /\ clock' = clock + 1
    /\ UNCHANGED <<missions, reader, edits, hist>>

Create(p) ==
    /\ pending' = pending \ {p}
    /\ missions' = Append(missions,
            [name |-> p.name, groups |-> p.groups, attrs |-> p.attrs, time |-> p.time,
             edited |-> p.time, tool |-> "public", uids |-> 1, deleted |-> FALSE])
    /\ Note(Len(missions) + 1)
    /\ UNCHANGED <<clock, edits>>

Edit(i, m) ==
    /\ edits < MaxEdits /\ i \in List
    /\ edits' = edits + 1 /\ clock' = clock + 1
    /\ missions' = [missions EXCEPT ![i] = m]
    /\ Note(i)
    /\ UNCHANGED pending

SetFields(i) == Edit(i, [missions[i] EXCEPT !.edited = clock])

SetPassword(i, attrs) ==
    Edit(i, [missions[i] EXCEPT !.attrs = (@ \ {"password"}) \cup attrs, !.edited = clock])

SetGroups(i, groups) == Edit(i, [missions[i] EXCEPT !.groups = groups, !.edited = clock])

\* A uid that the filter matches is added or removed; last_edited stays.
SetUids(i, n) == Edit(i, [missions[i] EXCEPT !.uids = n])

Delete(i) == Edit(i, [missions[i] EXCEPT !.deleted = TRUE])

Init ==
    /\ missions = <<>> /\ pending = {} /\ clock = 1 /\ edits = 0
    /\ \E q \in Query :
            reader = [pc |-> "idle", query |-> q, page |-> 0, pages |-> 0, got |-> <<>>]
    /\ hist = [first |-> <<>>, old |-> 0, changed |-> {}, gone |-> {}, come |-> {}]

Next ==
    LET scope == reader.query.scope
        Change(kind) == kind \in scope.edits
    IN  \/ StartReading(reader.query) \/ ReadPage
        \/ \E c \in scope.callers, n \in scope.names, attrs \in scope.attrs :
                \E groups \in MissionGroups(c) : LookUp(c, n, groups, attrs)
        \/ \E p \in pending : Create(p)
        \/ \E i \in List :
            \/ Change("fields") /\ SetFields(i)
            \/ Change("delete") /\ Delete(i)
            \/ Change("password") /\ \E attrs \in {{}, {"password"}} : SetPassword(i, attrs)
            \/ Change("groups") /\ \E groups \in SUBSET Group \ {{}} : SetGroups(i, groups)
            \/ Change("uids") /\ \E n \in 0 .. 2 : SetUids(i, n)

Spec == Init /\ [][Next]_vars

-----------------------------------------------------------------------------
(***************************************************************************)
(* hist: the rows when the reading began (first) and how many missions      *)
(* there were (old); missions that changed since (changed), that left the   *)
(* pages already read (gone) or came into them (come).                      *)
(***************************************************************************)
TypeOK ==
    /\ missions \in Seq(MissionRecord)
    /\ clock <= MaxMissions + MaxEdits + 1
    /\ \A i \in Id : missions[i].time < clock /\ missions[i].edited < clock
    /\ \A p \in pending : p.name \in Name /\ p.groups \subseteq Group
    /\ reader.query \in Query /\ reader.got \in Seq(Id)
    /\ hist.first \in Seq(Id)
    /\ hist.changed \cup hist.gone \cup hist.come \subseteq Id

Steady == ToSet(hist.first) \ hist.changed

\* A client that has read page after page has every mission that was on the
\* list from the first page to the last.  Except if a mission meanwhile left
\* the pages that it had already read, and, for a client that reads as many
\* pages as the count says, if anything changed or it filters by uid (the
\* count is of missions, not of rows).
PagesComplete ==
    reader.pc = "done" =>
        \A i \in Steady :
            \/ Times(i, reader.got) >= Times(i, hist.first)
            \/ hist.gone # {}
            \/ reader.query.byCount /\ (hist.changed # {} \/ reader.query.filter = "uid")

\* It has no mission twice.  Except if a mission meanwhile came into the
\* pages that it had already read; in the order of ids, which is the default,
\* a new mission does not.
PagesDistinct ==
    \A i \in Steady :
        \/ Times(i, reader.got) <= Times(i, hist.first)
        \/ \E x \in hist.come : reader.query.sort = "" => x <= hist.old

\* The list by name and the lookup by name agree: the name of a mission on
\* the list finds that mission, unless it finds a newer one that the list
\* leaves out; and a mission that is not on the list, though it could be,
\* has a newer one with its name but for case.
ListFollowsNames ==
    LET q == reader.query
        list == ListMissions(q)
    IN  /\ \A i \in list :
                LET found == ByName(Mine, missions[i].name)
                IN  found = i \/ (missions[found].time > missions[i].time /\ ~Candidate(q, found))
        /\ \A i \in List \ list :
                Candidate(q, i) /\ Visible(Mine, i) =>
                    \E j \in List : /\ Lower(missions[j].name) = Lower(missions[i].name)
                                    /\ missions[j].time > missions[i].time
=============================================================================
