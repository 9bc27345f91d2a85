------------------------------- MODULE Feeds -------------------------------
(***************************************************************************)
(* Data feeds: the store (src/datafeeds.rs), the requests that change it    *)
(* (src/marti/datafeeds.rs) and the task that keeps one listener for each   *)
(* streaming feed (src/transport/feeds.rs).                                *)
(*                                                                         *)
(* The task learns of changes by a watch channel: it looks at the store,   *)
(* stops and starts listeners one by one, and waits for the next tick.     *)
(* Changes may come at any point of this.  An aborted listener keeps its   *)
(* port until the runtime drops its task, which takes a step of its own.   *)
(*                                                                         *)
(* A feed is its uuid, its name and its port (NoPort: not a streaming      *)
(* feed, or no usable port or protocol).  The name stands for all that a   *)
(* listener marks its events with.  Left out: the validation of the posted *)
(* body and who may see or change a feed.                                  *)
(***************************************************************************)
EXTENDS Naturals, FiniteSets

CONSTANTS
    Uuid, Name,    \* of feeds
    Port, NoPort,  \* ports to listen on, and none
    MaxFaults      \* a bound: failed appends, listeners that fail, crashes

ASSUME FeedsAssumption == MaxFaults \in Nat

VARIABLES
    feeds,         \* DataFeedStore.feeds
    stored,        \* the feeds that a replay of the event log would give
    update,        \* the name in the update request in progress, if any
    tick,          \* the watch channel has a change that run has not seen
    run,           \* where run is: [pc, todo]
    running,       \* its map of listeners; `ended` if the task has ended
    closing,       \* ports of aborted listeners that are not dropped yet
    failed,        \* history: feeds that run could not start in this pass
    faults         \* how many faults there were

store == <<feeds, stored, tick>>
runner == <<run, running, closing, failed>>
vars == <<store, update, runner, faults>>

DataFeed == [uuid: Uuid, name: Name, port: Port \cup {NoPort}]
ListenerSpec == [uuid: Uuid, name: Name, port: Port]

Waiting == [pc |-> "wait", todo |-> {}]

(***************************************************************************)
(* The store.  Names are unique, and so are uuids: the order of the feeds  *)
(* does not matter and they are a set.                                     *)
(***************************************************************************)
\* apply, DataFeedEvent::Saved.
Saved(fs, f) == {g \in fs : g.uuid # f.uuid /\ g.name # f.name} \cup {f}

\* apply, DataFeedEvent::Deleted.
Deleted(fs, n) == {g \in fs : g.name # n}

\* parse and validation_errors let through a body with any name, uuid (its
\* own or a random one) and port (usable by a listener or not).
Posted == DataFeed

Names(fs) == {f.name : f \in fs}

Fault == faults < MaxFaults /\ faults' = faults + 1

\* record, for an event that makes fs of the feeds and gs of what is stored:
\* the line is in the file and in memory and the channel ticks, or the append
\* fails, with or without the line in the file.
Recorded(fs, gs) == feeds' = fs /\ stored' = gs /\ tick' = TRUE /\ UNCHANGED faults

NotRecorded(gs) == Fault /\ stored' \in {stored, gs} /\ UNCHANGED <<feeds, tick>>

Record(fs, gs) == Recorded(fs, gs) \/ NotRecorded(gs)

Create(f) ==
    /\ f.name \notin Names(feeds)
    /\ Record(Saved(feeds, f), Saved(stored, f))
    /\ UNCHANGED <<update, runner>>

Delete(n) ==
    /\ n \in Names(feeds)
    /\ Record(Deleted(feeds, n), Deleted(stored, n))
    /\ UNCHANGED <<update, runner>>

\* update looks the feed up; replace comes later, under another lock.
UpdateLooks(n) ==
    /\ update = {} /\ n \in Names(feeds)
    /\ update' = {n}
    /\ UNCHANGED <<store, runner, faults>>

\* f is the posted feed; without a uuid it has that of the feed looked up,
\* so it may have any.  Two events under one lock: if the append of the
\* second fails, the feed is gone.
Replace(n, f) ==
    LET refused == n \notin Names(feeds) \/ (f.name # n /\ f.name \in Names(feeds))
    IN  /\ update' = {}
        /\ \/ refused /\ UNCHANGED <<store, faults>>
           \/ ~refused /\ Recorded(Saved(Deleted(feeds, n), f), Saved(Deleted(stored, n), f))
           \/ ~refused /\ NotRecorded(Deleted(stored, n))
           \/ /\ ~refused /\ Fault
              /\ feeds' = Deleted(feeds, n) /\ tick' = TRUE
              /\ stored' \in {Deleted(stored, n), Saved(Deleted(stored, n), f)}
        /\ UNCHANGED runner

-----------------------------------------------------------------------------
(***************************************************************************)
(* The task that runs the listeners.                                       *)
(***************************************************************************)
\* spec: the feeds that have a listener, and what it is started for.
Wanted == {f \in feeds : f.port # NoPort}

\* mutant: a changed feed keeps its listener
Kept_ByUuid == {r \in running : ~r.ended /\ \E s \in Wanted : s.uuid = r.spec.uuid}

\* The listeners that run leaves alone.
Kept == {r \in running : r.spec \in Wanted /\ ~r.ended}

\* run, from the top of its loop to the first start: the other listeners
\* are aborted and leave the map.
Look ==
    /\ run.pc = "look"
    /\ running' = Kept
    /\ closing' = closing \cup {r.spec.port : r \in {x \in running \ Kept : ~x.ended}}
    /\ run' = [pc |-> "start", todo |-> {s \in Wanted : \A r \in Kept : r.spec.uuid # s.uuid}]
    /\ failed' = {}
    /\ UNCHANGED <<store, update, faults>>

Held(p) == p \in closing \/ \E r \in running : ~r.ended /\ r.spec.port = p

\* mutant: a failed start is tried again at once, before anything else is done.
Start_Retries(s) ==
    /\ run.pc = "start" /\ s \in run.todo
    /\ ~Held(s.port)
    /\ run' = [run EXCEPT !.todo = @ \ {s}]
    /\ running' = running \cup {[spec |-> s, ended |-> FALSE]}
    /\ UNCHANGED <<store, update, closing, failed, faults>>

\* start: bind fails while another socket listens on the port, or for a
\* reason of its own.
Start(s) ==
    /\ run.pc = "start" /\ s \in run.todo
    /\ run' = [run EXCEPT !.todo = @ \ {s}]
    /\ \/ /\ ~Held(s.port)
          /\ running' = running \cup {[spec |-> s, ended |-> FALSE]}
          /\ UNCHANGED <<failed, faults>>
       \/ /\ (Held(s.port) /\ UNCHANGED faults) \/ Fault
          /\ failed' = failed \cup {s}
          /\ UNCHANGED running
    /\ UNCHANGED <<store, update, closing>>

PassDone ==
    /\ run.pc = "start" /\ run.todo = {}
    /\ run' = Waiting
    /\ UNCHANGED <<store, update, running, closing, failed, faults>>

\* changes.changed(): what has ticked is seen, then run looks.
Changed ==
    /\ run = Waiting /\ tick
    /\ run' = [Waiting EXCEPT !.pc = "look"] /\ tick' = FALSE
    /\ UNCHANGED <<feeds, stored, update, running, closing, failed, faults>>

\* The runtime drops an aborted task and, with it, its socket.
Dropped(p) ==
    /\ p \in closing
    /\ closing' = closing \ {p}
    /\ UNCHANGED <<store, update, run, running, failed, faults>>

\* accept fails: the relay's run returns the error and the task is over.
AcceptFails(r) ==
    /\ ~r.ended
    /\ Fault
    /\ running' = (running \ {r}) \cup {[r EXCEPT !.ended = TRUE]}
    /\ UNCHANGED <<store, update, run, closing, failed>>

\* A crash; the next start replays the log and starts run anew.
Restart ==
    /\ Fault
    /\ feeds' = stored /\ tick' = FALSE
    /\ update' = {}
    /\ run' = [Waiting EXCEPT !.pc = "look"]
    /\ running' = {} /\ closing' = {} /\ failed' = {}
    /\ UNCHANGED stored

Init ==
    /\ feeds = {} /\ stored = {} /\ tick = FALSE
    /\ update = {}
    /\ run = [Waiting EXCEPT !.pc = "look"]
    /\ running = {} /\ closing = {} /\ failed = {}
    /\ faults = 0

Run == Look \/ (\E s \in run.todo : Start(s)) \/ PassDone \/ Changed

Next ==
    \/ \E f \in Posted : Create(f) \/ \E n \in update : Replace(n, f)
    \/ \E n \in Name : Delete(n) \/ UpdateLooks(n)
    \/ Run
    \/ \E p \in Port : Dropped(p)
    \/ \E r \in running : AcceptFails(r)
    \/ Restart

\* run is a task of its own and the runtime drops what was aborted.
Fairness == WF_vars(Run) /\ \A p \in Port : WF_vars(Dropped(p))

Spec == Init /\ [][Next]_vars /\ Fairness

-----------------------------------------------------------------------------
TypeOK ==
    /\ feeds \subseteq DataFeed /\ stored \subseteq DataFeed
    /\ tick \in BOOLEAN
    /\ update \subseteq Name
    /\ run \in [pc: {"look", "start", "wait"}, todo: SUBSET ListenerSpec]
    /\ running \subseteq [spec: ListenerSpec, ended: BOOLEAN]
    /\ closing \subseteq Port /\ failed \subseteq ListenerSpec
    /\ faults \in 0 .. MaxFaults

\* No two feeds share a name or a uuid, in memory or after a restart: run's
\* map of listeners, and by_name, rest on it.
FeedsDistinct ==
    \A fs \in {feeds, stored} : \A f, g \in fs :
        f.uuid = g.uuid \/ f.name = g.name => f = g

\* While run waits with no tick pending, the listeners that it has, and the
\* feeds that it could not start, are exactly the streaming feeds as they
\* are now: no change falls between a look at the store and the next wait.
SettledMatchesStore ==
    run = Waiting /\ ~tick => {r.spec : r \in running} \cup failed = Wanted

Listens(s) == [spec |-> s, ended |-> FALSE] \in running

\* A listener of a feed that is deleted or changed stops.
StaleListenersStop ==
    \A s \in ListenerSpec :
        (Listens(s) /\ s \notin Wanted) ~> (s \in Wanted \/ ~Listens(s))

\* Every change is followed by a look at the store, also one that comes
\* while run starts listeners for an earlier one: by SettledMatchesStore a
\* new feed then gets its listener, unless that could not be started.
EveryChangeIsSeen == tick ~> run.pc = "look"

\* When it is quiet, there is one listener for each streaming feed as it is
\* now, or the feed could not be started.
ListenersMatch == TypeOK /\ FeedsDistinct /\ SettledMatchesStore

\* And it gets quiet: what a change makes wrong is put right.
ChangesTakeEffect == StaleListenersStop /\ EveryChangeIsSeen
=============================================================================
