---------------------------- MODULE Negotiation ----------------------------
(***************************************************************************)
(* How a connection changes from XML to protobuf (handle_client of          *)
(* src/src/transport/tls.rs with announcement, requested_version and        *)
(* response of transport/takproto.rs): the server announces, the client may *)
(* ask, and after the answer both sides change over, while events go both   *)
(* ways.                                                                    *)
(*                                                                          *)
(* The two directions of the connection are queues of messages, each        *)
(* [enc, kind, n].  A read of the server may hold several.  The client is   *)
(* external: it asks once after the announcement, and reads and writes by   *)
(* what the answer says; until then it waits, or goes on in XML, or is      *)
(* ahead and sends protobuf.                                                *)
(***************************************************************************)
EXTENDS Naturals, Sequences, SequencesExt

CONSTANTS TakProtocol,   \* BOOLEAN: the server has tak_protocol
          MaxEvents      \* bound: events in each direction

VARIABLES
  server,    \* [pc, protobuf]: "hello", "loop", "closed"
  client,    \* [pc, protobuf, meanwhile, confused]
  up, down,  \* messages on their way
  batch,     \* the items of the read that the server works on
  sentUp, gotUp, sentDown, gotDown   \* events, in each direction

neg == <<server, client, up, down, batch>>
counts == <<sentUp, gotUp, sentDown, gotDown>>
vars == <<neg, counts>>

Enc(protobuf) == IF protobuf THEN "proto" ELSE "xml"
Msg(enc, kind, n) == [enc |-> enc, kind |-> kind, n |-> n]

Init ==
  /\ server = [pc |-> "hello", protobuf |-> FALSE]
  /\ client \in [pc: {"xml"}, protobuf: {FALSE}, meanwhile: {"waits", "xml", "proto"}, confused: {FALSE}]
  /\ up = << >> /\ down = << >> /\ batch = << >>
  /\ sentUp = 0 /\ gotUp = 0 /\ sentDown = 0 /\ gotDown = 0

-----------------------------------------------------------------------------
\* The announcement, if the server is set up for it.
Announce ==
  /\ server.pc = "hello"
  /\ server' = [server EXCEPT !.pc = "loop"]
  /\ down' = IF TakProtocol THEN Append(down, Msg("xml", "announce", 0)) ELSE down
  /\ UNCHANGED <<client, up, batch, counts>>

\* The read branch: n messages have come.  As XML, a frame among them ends
\* the stream, and with it this read's items; as protobuf, what follows a
\* byte that is not magic is dropped.
Read(n) ==
  LET new == SubSeq(up, 1, n)
      other == {i \in 1..n : new[i].enc # Enc(server.protobuf)}
      good == IF other = {} THEN new ELSE SubSeq(new, 1, (CHOOSE i \in other : \A j \in other : i <= j) - 1)
  IN  /\ server.pc = "loop" /\ batch = << >> /\ n \in 1..Len(up)
      /\ up' = SubSeq(up, n + 1, Len(up))
      /\ IF other # {} /\ ~server.protobuf
         THEN server' = [server EXCEPT !.pc = "closed"] /\ UNCHANGED batch
         ELSE batch' = good /\ UNCHANGED server
      /\ UNCHANGED <<client, down, counts>>

Item_SwitchesFirst ==    \* mutant: the answer is written in the new protocol
  LET i == Head(batch)
      asks == TakProtocol /\ ~server.protobuf /\ i.kind = "ask"
  IN  /\ server.pc = "loop" /\ batch # << >>
      /\ batch' = Tail(batch)
      /\ \/ /\ asks
            /\ server' = [server EXCEPT !.protobuf = i.n = 1]
            /\ down' = Append(down, Msg(Enc(i.n = 1), "answer", i.n))
            /\ UNCHANGED gotUp
         \/ ~asks /\ gotUp' = (IF i.kind = "event" /\ i.n = gotUp + 1 THEN i.n ELSE gotUp) /\ UNCHANGED <<server, down>>
      /\ UNCHANGED <<client, up, sentUp, sentDown, gotDown>>

\* One item: a request is answered and, for version 1, changes over; other
\* control messages are consumed; an event is relayed.
Item ==
  LET i == Head(batch)
      asks == TakProtocol /\ ~server.protobuf /\ i.kind = "ask"
  IN  /\ server.pc = "loop" /\ batch # << >>
      /\ batch' = Tail(batch)
      /\ \/ /\ asks
            /\ down' = Append(down, Msg("xml", "answer", i.n))
            /\ server' = [server EXCEPT !.protobuf = i.n = 1]
            /\ UNCHANGED gotUp
         \/ ~asks /\ gotUp' = (IF i.kind = "event" /\ i.n = gotUp + 1 THEN i.n ELSE gotUp) /\ UNCHANGED <<server, down>>
      /\ UNCHANGED <<client, up, sentUp, sentDown, gotDown>>

\* The receive branch: an event for this client, by encode.
Send ==
  /\ server.pc = "loop" /\ batch = << >> /\ sentDown < MaxEvents
  /\ sentDown' = sentDown + 1
  /\ down' = Append(down, Msg(Enc(server.protobuf), "event", sentDown'))
  /\ UNCHANGED <<server, client, up, batch, sentUp, gotUp, gotDown>>

-----------------------------------------------------------------------------
\* The client sends an event.
ClientSends ==
  /\ client.pc = "asked" => client.meanwhile # "waits"
  /\ sentUp < MaxEvents
  /\ sentUp' = sentUp + 1
  /\ up' = Append(up, Msg(IF client.pc = "asked" THEN client.meanwhile ELSE Enc(client.protobuf),
                          "event", sentUp'))
  /\ UNCHANGED <<server, client, down, batch, gotUp, sentDown, gotDown>>

\* The client reads; it asks for version v after the announcement.
ClientReads(v) ==
  LET i == Head(down)
      c == [client EXCEPT !.confused = @ \/ i.enc # Enc(client.protobuf)]
  IN  /\ down # << >>
      /\ down' = Tail(down)
      /\ \/ /\ i.kind = "announce"
            /\ client' = [c EXCEPT !.pc = "asked"]
            /\ up' = Append(up, Msg("xml", "ask", v))
            /\ UNCHANGED gotDown
         \/ /\ i.kind = "answer"
            /\ client' = [c EXCEPT !.pc = "settled", !.protobuf = i.n = 1]
            /\ UNCHANGED <<up, gotDown>>
         \/ /\ i.kind = "event"
            /\ client' = c
            /\ gotDown' = IF i.n = gotDown + 1 THEN i.n ELSE gotDown
            /\ UNCHANGED up
      /\ UNCHANGED <<server, batch, sentUp, gotUp, sentDown>>

Next == Announce \/ (\E n \in 1..Len(up) : Read(n)) \/ Item \/ Send
        \/ ClientSends \/ \E v \in {1, 2} : ClientReads(v)

Spec == Init /\ [][Next]_vars

-----------------------------------------------------------------------------
TypeOK ==
  /\ server \in [pc: {"hello", "loop", "closed"}, protobuf: BOOLEAN]
  /\ client \in [pc: {"xml", "asked", "settled"}, protobuf: BOOLEAN,
                 meanwhile: {"waits", "xml", "proto"}, confused: BOOLEAN]

(***************************************************************************)
(* The change-over loses nothing: the client never reads a message in a     *)
(* protocol that it does not expect, and with nothing on its way each side  *)
(* has all events of the other - for the events of the client, if it waits  *)
(* for the answer.  One that goes on in XML is at least not disconnected.   *)
(***************************************************************************)
ChangeOverClean ==
  /\ ~client.confused
  /\ down = << >> => gotDown = sentDown
  /\ client.meanwhile = "waits" /\ up = << >> /\ batch = << >> => gotUp = sentUp
  /\ client.meanwhile # "proto" => server.pc # "closed"
=============================================================================
