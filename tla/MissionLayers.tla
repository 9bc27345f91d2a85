--------------------------- MODULE MissionLayers ---------------------------
(***************************************************************************)
(* The layer tree of one mission (src/src/missions.rs) and the handlers    *)
(* that edit it (src/src/marti/missions.rs).  A layer has a parent and the *)
(* sibling it comes after; the order of siblings is not stored but worked  *)
(* out by sort_layers from these chains.                                   *)
(*                                                                         *)
(* A store operation is a list of events, each appended and applied in     *)
(* turn under the store's lock.  A crash or a failed append cuts the list. *)
(* One request, in todo, is interrupted by others between its lookups and  *)
(* its operations; the others run in one step.  Names, types and the       *)
(* contents filed in layers are left out (MissionFeed has the contents).   *)
(***************************************************************************)
EXTENDS Integers, Sequences, SequencesExt, FiniteSets

CONSTANTS Uid,          \* layer uids
          None,         \* Option::None
          MaxLayers,    \* bound: layers of the mission
          MaxStray      \* bound: operations that are cut or name no sibling

ASSUME LayersAssumption == None \notin Uid /\ MaxLayers \in Nat /\ MaxStray \in Nat

VARIABLES
  layers,    \* state.layers[guid], in insertion order
  stored,    \* the layers that a replay of the file gives
  todo,      \* what the interrupted request still does
  order,     \* history: the lists of layers that were asked for, while stray = 0
  stray      \* history: how many operations named no sibling, or were cut

vars == <<layers, stored, todo, order, stray>>

Opt == Uid \cup {None}

LayerRecord == [uid: Uid, parent: Opt, after: Opt]

-----------------------------------------------------------------------------
(***************************************************************************)
(* Events.                                                                  *)
(***************************************************************************)
Event(kind, u, p, a) == [kind |-> kind, uid |-> u, parent |-> p, after |-> a]

LayerSaved(u, p, a)  == Event("Saved", u, p, a)
LayerParentSet(u, p) == Event("ParentSet", u, p, None)
LayerAfterSet(u, a)  == Event("AfterSet", u, None, a)
LayerDeleted(u)      == Event("Deleted", u, None, None)

Has(ls, u) == \E i \in DOMAIN ls : ls[i].uid = u

\* layer_mut, and every `find`: the first with the uid.
LayerMut(ls, u) == CHOOSE i \in DOMAIN ls : ls[i].uid = u /\ \A j \in 1..(i-1) : ls[j].uid # u

Apply(ls, e) ==
  CASE e.kind = "Saved" ->
         Append(ls, [uid |-> e.uid, parent |-> e.parent, after |-> e.after])
    [] e.kind = "Deleted" -> SelectSeq(ls, LAMBDA l : l.uid # e.uid)
    [] e.kind = "ParentSet" /\ Has(ls, e.uid) ->
         [ls EXCEPT ![LayerMut(ls, e.uid)].parent = e.parent,
                    ![LayerMut(ls, e.uid)].after = None]
    [] e.kind = "AfterSet" /\ Has(ls, e.uid) ->
         [ls EXCEPT ![LayerMut(ls, e.uid)].after = e.after]
    [] OTHER -> ls

ApplyAll(ls, es) == FoldLeft(Apply, ls, es)

-----------------------------------------------------------------------------
(***************************************************************************)
(* Store operations, as the events that they record.                        *)
(***************************************************************************)
FixupAfter_AnyParent(ls, u, p, a) ==    \* mutant: the parent is not compared
  LET targets == SelectSeq(ls, LAMBDA l : l.uid # u /\ l.after = a)
  IN  [i \in DOMAIN targets |-> LayerAfterSet(targets[i].uid, u)]

FixupAfter(ls, u, p, a) ==
  LET targets == SelectSeq(ls, LAMBDA l : l.uid # u /\ l.parent = p /\ l.after = a)
  IN  [i \in DOMAIN targets |-> LayerAfterSet(targets[i].uid, u)]

AddLayer(ls, u, p, a) == FixupAfter(ls, u, p, a) \o <<LayerSaved(u, p, a)>>

MoveLayer(ls, u, p, a) ==
  LET l     == ls[LayerMut(ls, u)]
      one   == FixupAfter(ls, l.after, l.parent, u)
      two   == FixupAfter(ApplyAll(ls, one), u, p, a)
      three == IF l.parent # p \/ l.parent = None THEN <<LayerParentSet(u, p)>> ELSE <<>>
      moved == ApplyAll(ls, one \o two \o three)
      four  == IF moved[LayerMut(moved, u)].parent = p THEN <<LayerAfterSet(u, a)>> ELSE <<>>
  IN  one \o two \o three \o four

DeleteLayer(ls, u) ==
  LET l == ls[LayerMut(ls, u)]
  IN  IF ~Has(ls, u) THEN <<>>
      ELSE FixupAfter(ls, l.after, l.parent, u) \o <<LayerDeleted(u)>>

-----------------------------------------------------------------------------
(***************************************************************************)
(* sort_layers.                                                             *)
(***************************************************************************)
Level(ls, p) == SelectSeq(ls, LAMBDA l : l.parent = p)

\* has_cycle: following `after` from l comes back to a layer seen before.
HasCycle(l, ls) ==
  LET Prev(u) == ls[LayerMut(ls, u)].after
      walk[n \in 0 .. Len(ls)] ==
        IF n = 0 THEN l.after
        ELSE IF Has(ls, walk[n - 1]) THEN Prev(walk[n - 1]) ELSE None
  IN  Has(ls, walk[Len(ls)])

Unsortable(ls) ==
  \/ \E i, j \in DOMAIN ls : i < j /\ (ls[i].after = ls[j].after \/ ls[i].uid = ls[j].uid)
  \/ \E i \in DOMAIN ls : \/ HasCycle(ls[i], ls)
                          \/ ls[i].after # None /\ ~Has(ls, ls[i].after)

\* The first pair, in the order of the two loops, that is out of place.
Misplaced(ls) ==
  {q \in (DOMAIN ls) \X (DOMAIN ls) :
     q[1] # q[2] /\ ls[q[2]].after = ls[q[1]].uid /\ q[2] # q[1] + 1}

FirstPair(S) == CHOOSE q \in S : \A r \in S : q[1] < r[1] \/ (q[1] = r[1] /\ q[2] <= r[2])

Swapped(ls, i, j) == [ls EXCEPT ![i] = ls[j], ![j] = ls[i]]

OneMove(ls) ==
  LET q == FirstPair(Misplaced(ls))
  IN  IF q[1] = Len(ls) THEN RemoveAt(ls, q[2]) \o <<ls[q[2]]>>
      ELSE Swapped(ls, q[2], q[1] + 1)

Moves[ls \in Seq(LayerRecord)] == IF Misplaced(ls) = {} THEN ls ELSE Moves[OneMove(ls)]

SortLayers(ls) == IF Unsortable(ls) THEN ls ELSE Moves[ls]

\* layer_tree, as the order in which remove_layer_tree deletes: children first.
RECURSIVE Tree(_, _)
Tree(ls, u) ==
  LET children == SortLayers(Level(ls, u))
  IN  FlattenSeq([i \in DOMAIN children |-> Tree(ls, children[i].uid)]) \o <<u>>

\* The recursion ends: going up from any layer below u meets no cycle.
Ends(ls, u) ==
  LET step(S) == S \cup {ls[i].uid : i \in {i \in DOMAIN ls : ls[i].parent \in S}}
      below[n \in 0 .. Len(ls)] ==
        IF n = 0 THEN {ls[i].uid : i \in {i \in DOMAIN ls : ls[i].parent = u}}
        ELSE step(below[n - 1])
  IN  \A v \in below[Len(ls)] \cup {u} :
        LET under[n \in 0 .. Len(ls)] ==
              IF n = 0 THEN {ls[i].uid : i \in {i \in DOMAIN ls : ls[i].parent = v}}
              ELSE step(under[n - 1])
        IN  v \notin under[Len(ls)]

-----------------------------------------------------------------------------
(***************************************************************************)
(* Requests.  An operation is looked up - create adds a new uid and moves a *)
(* known one, a move needs its layer and its parent - and then written.     *)
(***************************************************************************)
Op(do, u, p, a) == [do |-> do, uid |-> u, parent |-> p, after |-> a]

Refused(op) ==
  /\ op.do = "setParent" \/ Has(layers, op.uid)
  /\ ~Has(layers, op.uid) \/ (op.parent # None /\ ~Has(layers, op.parent))

LookedUp(op) ==
  [op EXCEPT !.do = IF op.do = "create" /\ ~Has(layers, op.uid) THEN "add" ELSE "move"]

\* A layer that is gone by now cannot be moved; a known uid is added again.
EventsOf(op) ==
  CASE op.do = "add" -> AddLayer(layers, op.uid, op.parent, op.after)
    [] op.do = "move" /\ Has(layers, op.uid) ->
         MoveLayer(layers, op.uid, op.parent, op.after)
    [] op.do = "delete" -> DeleteLayer(layers, op.uid)
    [] OTHER -> <<>>

\* The predecessor that the operation names is there, and its uid is not.
Clean(op) ==
  LET siblings == {l.uid : l \in ToSet(Level(layers, op.parent))}
  IN  CASE op.do = "add" -> ~Has(layers, op.uid) /\ op.after \in siblings \cup {None}
        [] op.do = "move" -> op.after \in (siblings \ {op.uid}) \cup {None}
        [] OTHER -> TRUE

HasRoom(op) == op.do = "add" => Len(layers) < MaxLayers /\ Len(stored) < MaxLayers

(***************************************************************************)
(* What was asked for, as lists: a new layer is inserted behind the sibling *)
(* that it names, a moved one is taken out first, a deleted one taken out.  *)
(***************************************************************************)
Inserted(s, u, a) ==
  LET k == IF a = None THEN 0 ELSE CHOOSE i \in DOMAIN s : s[i] = a
  IN  SubSeq(s, 1, k) \o <<u>> \o SubSeq(s, k + 1, Len(s))

Asked(op) ==
  LET rest == [p \in Opt |-> SelectSeq(order[p], LAMBDA v : v # op.uid)]
  IN  CASE op.do = "delete" -> rest
        [] op.do = "move" /\ ~Has(layers, op.uid) -> order
        [] OTHER -> [rest EXCEPT ![op.parent] = Inserted(@, op.uid, op.after)]

NoLists == [p \in Opt |-> <<>>]

\* The lists follow an operation; one that is odd in some way is counted.
Follow(op, odd) ==
  /\ stray' = IF odd THEN stray + 1 ELSE stray
  /\ order' = IF odd \/ stray > 0 THEN NoLists ELSE Asked(op)

Write(op, es, rest) ==
  /\ Follow(op, ~Clean(op))
  /\ layers' = ApplyAll(layers, es)
  /\ stored' = ApplyAll(stored, es)
  /\ todo' = rest

\* An append fails, and its line may be in the file all the same.
AppendFails(op, es, rest) ==
  \E k \in 0 .. (Len(es) - 1), left \in {0, 1} :
    /\ Follow(op, TRUE)
    /\ layers' = ApplyAll(layers, SubSeq(es, 1, k))
    /\ stored' = ApplyAll(stored, SubSeq(es, 1, k + left))
    /\ todo' = rest

\* The process dies with some of the events in the file, and starts again.
CrashIn(op, es) ==
  \E k \in 1 .. (Len(es) - 1) :
    /\ Follow(op, TRUE)
    /\ stored' = ApplyAll(stored, SubSeq(es, 1, k))
    /\ layers' = stored'
    /\ todo' = <<>>

Perform(op, mayStray, done, failed) ==
  /\ HasRoom(op) /\ (Clean(op) \/ mayStray)
  /\ \E es \in {EventsOf(op)} :
       \/ Write(op, es, done)
       \/ mayStray /\ (AppendFails(op, es, failed) \/ CrashIn(op, es))

(***************************************************************************)
(* Requests that run in one step.  A known uid is moved, which is also what *)
(* setLayerParent does.  While another request is under way they keep to    *)
(* the siblings that are there, and so only its operations can be odd.      *)
(***************************************************************************)
MayStray == todo = <<>> /\ stray < MaxStray

CreateLayer(u, p, a) ==
  /\ ~Refused(Op("create", u, p, a))
  /\ \E op \in {LookedUp(Op("create", u, p, a))} : Perform(op, MayStray, todo, todo)

DeleteLeaf(u) ==
  Has(layers, u) /\ Level(layers, u) = <<>> /\ Perform(Op("delete", u, None, None), MayStray, todo, todo)

\* The request that others interrupt, from its first lookup on.
Begin(ops) ==
  /\ todo = <<>> /\ stray < MaxStray
  /\ todo' = ops
  /\ UNCHANGED <<layers, stored, order, stray>>

BeginCreate(u, p, a) ==
  \E op \in {Op("create", u, p, a)} : ~Refused(op) /\ Begin(<<LookedUp(op)>>)

BeginSetParent(u, v, p, a) ==
  \E op \in {Op("setParent", u, p, a)} :
    ~Refused(op) /\ Begin(<<LookedUp(op), Op("setParent", v, p, u)>>)

BeginDelete(u) ==
  /\ Has(layers, u) /\ Ends(layers, u)
  /\ \E us \in {Tree(layers, u)} :
       Begin([i \in DOMAIN us |-> Op("delete", us[i], None, None)])

LookUpNext ==
  /\ todo # <<>> /\ Head(todo).do = "setParent"
  /\ todo' = IF Refused(Head(todo)) THEN <<>> ELSE <<LookedUp(Head(todo))>> \o Tail(todo)
  /\ UNCHANGED <<layers, stored, order, stray>>

\* A layer that is gone ends the request; an unknown one is not deleted.
Continue ==
  /\ todo # <<>> /\ Head(todo).do # "setParent"
  /\ \E op \in {Head(todo)} :
       Perform(op, stray < MaxStray,
               IF op.do = "move" /\ ~Has(layers, op.uid) THEN <<>> ELSE Tail(todo), <<>>)

\* Also what becomes of a request for the tree below a layer that is its own
\* ancestor: its recursion does not end before the stack does.
Restart ==
  /\ layers' = stored
  /\ todo' = <<>>
  /\ UNCHANGED <<stored, order, stray>>

Init ==
  /\ layers = <<>>
  /\ stored = <<>>
  /\ todo = <<>>
  /\ order = NoLists
  /\ stray = 0

Next ==
  \/ \E u \in Uid :
       \/ DeleteLeaf(u) \/ BeginDelete(u)
       \/ \E p, a \in Opt :
            \/ CreateLayer(u, p, a) \/ BeginCreate(u, p, a)
            \/ \E v \in Uid \ {u} : BeginSetParent(u, v, p, a)
  \/ LookUpNext \/ Continue \/ Restart

Spec == Init /\ [][Next]_vars

-----------------------------------------------------------------------------
TypeOK ==
  /\ layers \in Seq(LayerRecord) /\ Len(layers) <= MaxLayers
  /\ stored \in Seq(LayerRecord)
  /\ todo \in Seq([do: {"add", "move", "delete", "setParent"}, uid: Uid,
                   parent: Opt, after: Opt])
  /\ order \in [Opt -> Seq(Uid)]
  /\ stray \in 0 .. MaxStray

\* s is the chain of its `after`s: the first has none, each names the one before.
IsChain(s) == \A i \in DOMAIN s : s[i].after = IF i = 1 THEN None ELSE s[i - 1].uid

(***************************************************************************)
(* sort_layers, on every level that requests, races and cuts can leave:     *)
(* each layer is there once, siblings that form one chain come in its       *)
(* order, and any others "as they are".                                     *)
(***************************************************************************)
SortedLevels ==
  \A p \in Opt :
    LET level  == Level(layers, p)
        sorted == SortLayers(level)
        chains == {s \in SetToSeqs(ToSet(level)) : IsChain(s)}
        unique == Cardinality({l.uid : l \in ToSet(level)}) = Len(level)
    IN  IF unique /\ chains # {} THEN sorted \in chains ELSE sorted = level

(***************************************************************************)
(* The levels, as sort_layers gives them, are the lists that were asked     *)
(* for: add_layer inserts, move_layer takes out and inserts, delete_layer   *)
(* closes the gap.  Holds with requests that interrupt each other, until    *)
(* one names a predecessor that is not there (any more) or is cut.          *)
(***************************************************************************)
LevelsAreLists ==
  stray = 0 => \A p \in Opt : \E sorted \in {SortLayers(Level(layers, p))} :
                 order[p] = [i \in DOMAIN sorted |-> sorted[i].uid]

(***************************************************************************)
(* Levels are shown whole, and in the order that was asked for.             *)
(***************************************************************************)
LayersOrdered == TypeOK /\ SortedLevels /\ LevelsAreLists
=============================================================================
