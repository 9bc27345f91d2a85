----------------------------- MODULE DurableLog -----------------------------
(***************************************************************************)
(* What the event-sourced stores rely on in their log, without files: a     *)
(* sequence of events that operations extend one at a time.  An operation   *)
(* that was acknowledged stays; one that failed or was cut off by a crash   *)
(* may or may not have taken effect, and which of the two can still change  *)
(* until it is followed by an acknowledged one.                             *)
(***************************************************************************)
EXTENDS Integers, Sequences

CONSTANT Event    \* events, numbered in the order of their operations

VARIABLES log,     \* the events that a start would replay
          view,    \* the events applied to memory
          acked,   \* the events whose operations returned Ok
          up       \* whether the server serves requests

vars == <<log, view, acked, up>>

Init ==
  /\ log = << >>
  /\ view = << >>
  /\ acked = {}
  /\ up = FALSE

\* An operation's event reaches the log.
TakeEffect ==
  /\ up
  /\ \E e \in Event : /\ \A i \in 1..Len(log) : log[i] < e
                      /\ log' = Append(log, e)
  /\ UNCHANGED <<view, acked, up>>

\* The operation that reached the log last returns Ok.
Acknowledge ==
  /\ up
  /\ log # << >>
  /\ LET e == log[Len(log)]
     IN  /\ e \notin acked
         /\ view' = Append(view, e)
         /\ acked' = acked \cup {e}
  /\ UNCHANGED <<log, up>>

\* The server stops; the end of the log that was not acknowledged can go.
Stop ==
  /\ \E n \in 0..Len(log) :
       /\ log' = SubSeq(log, 1, n)
       /\ \A i \in n+1..Len(log) : log[i] \notin acked
  /\ view' = << >>
  /\ up' = FALSE
  /\ UNCHANGED acked

Start ==
  /\ ~up
  /\ view' = log
  /\ up' = TRUE
  /\ UNCHANGED <<log, acked>>

Next == TakeEffect \/ Acknowledge \/ Stop \/ Start

Spec == Init /\ [][Next]_vars
=============================================================================
