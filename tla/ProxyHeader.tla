---------------------------- MODULE ProxyHeader ----------------------------
(***************************************************************************)
(* The PROXY protocol header in front of a TLS connection                   *)
(* (src/src/transport/proxy_protocol.rs): read_header looks at the first    *)
(* bytes without taking them, and then takes exactly the header, while the  *)
(* bytes arrive in pieces of any size.                                      *)
(*                                                                          *)
(* Lengths are scaled down, in the same order: the v1 prefix (6) is shorter *)
(* than the v2 signature (12), which is shorter than the fixed part of a v2 *)
(* header (16), and that is shorter than V1_MAX (107).  A byte is a number, *)
(* an address is one byte.                                                  *)
(***************************************************************************)
EXTENDS Naturals, Sequences, SequencesExt

CONSTANTS Streams      \* what clients may send: [text, header, client, bad]

VARIABLES
  client_sends, \* the stream of this connection
  coming,       \* bytes on their way
  socket,       \* bytes that have arrived and were not taken
  line,         \* what read_header has taken
  header        \* where it is: "peek", "v1", "v2", or how it ended; with result

vars == <<client_sends, coming, socket, line, header>>

CR == 1
LF == 2
V1_PREFIX == <<7, 8>>
V2_SIGNATURE == <<CR, LF, CR>>
V2_FIXED == 5          \* signature, version and command, length
V1_MAX == 7
OwnAddress == 0        \* "use the connection's own address"

Looks(prefix) == IsPrefix(SubSeq(socket, 1, IF Len(socket) < Len(prefix) THEN Len(socket) ELSE Len(prefix)), prefix)

Init ==
  /\ client_sends \in Streams
  /\ coming = client_sends.text
  /\ socket = << >> /\ line = << >>
  /\ header = [pc |-> "peek", result |-> OwnAddress]

Arrive(n) ==
  /\ n \in 1..Len(coming)
  /\ socket' = socket \o SubSeq(coming, 1, n)
  /\ coming' = SubSeq(coming, n + 1, Len(coming))
  /\ UNCHANGED <<client_sends, line, header>>

\* read_header_inner, one turn of the loop that peeks.
Peek ==
  LET v1 == Looks(V1_PREFIX)
      v2 == Looks(V2_SIGNATURE)
  IN  /\ header.pc = "peek" /\ socket # << >>
      /\ \/ ~v1 /\ ~v2 /\ header' = [header EXCEPT !.pc = "done"]
         \/ /\ v2 /\ Len(socket) >= V2_FIXED
            /\ header' = [header EXCEPT !.pc = "v2"]
         \/ /\ v1 /\ Len(socket) >= Len(V1_PREFIX)
            /\ header' = [header EXCEPT !.pc = "v1"]
      /\ UNCHANGED <<client_sends, coming, socket, line>>

\* parse_v1: address, UNKNOWN (OwnAddress), or malformed (anything but one byte).
ParseV1(l) ==
  IF Len(l) = Len(V1_PREFIX) + 3
  THEN [pc |-> "done", result |-> l[Len(V1_PREFIX) + 1]]
  ELSE [pc |-> "error", result |-> OwnAddress]

ReadV1_Buffered ==    \* mutant: takes all that has arrived
  /\ header.pc = "v1" /\ socket # << >>
  /\ line' = line \o socket
  /\ socket' = << >>
  /\ header' = IF \E k \in 1..Len(line')-1 : SubSeq(line', k, k+1) = <<CR, LF>>
               THEN ParseV1(SubSeq(line', 1, Len(V1_PREFIX) + 3))
               ELSE header
  /\ UNCHANGED <<client_sends, coming>>

\* read_header_inner, the loop of read_u8.
ReadV1 ==
  /\ header.pc = "v1" /\ socket # << >>
  /\ line' = Append(line, Head(socket))
  /\ socket' = Tail(socket)
  /\ header' = IF IsSuffix(<<CR, LF>>, line') THEN ParseV1(line')
               ELSE IF Len(line') >= V1_MAX THEN [header EXCEPT !.pc = "error"]
               ELSE header
  /\ UNCHANGED <<client_sends, coming>>

\* parse_v2: LOCAL (0), PROXY (1) with an address, or malformed.
ParseV2(head, payload) ==
  LET command == head[4]
  IN  IF command = 0 THEN [pc |-> "done", result |-> OwnAddress]
      ELSE IF command = 1 /\ payload # << >> THEN [pc |-> "done", result |-> payload[1]]
      ELSE [pc |-> "error", result |-> OwnAddress]

\* The two read_exact; the second one needs all of the payload.
ReadV2 ==
  LET length == socket[V2_FIXED]
      rest == SubSeq(socket, V2_FIXED + 1, Len(socket))
  IN  /\ header.pc = "v2"
      /\ Len(rest) >= length
      /\ line' = SubSeq(socket, 1, V2_FIXED + length)
      /\ socket' = SubSeq(rest, length + 1, Len(rest))
      /\ header' = ParseV2(socket, SubSeq(rest, 1, length))
      /\ UNCHANGED <<client_sends, coming>>

\* read_header: the timeout; the connection is refused.
Timeout ==
  /\ header.pc \in {"peek", "v1", "v2"}
  /\ header' = [header EXCEPT !.pc = "timeout"]
  /\ UNCHANGED <<client_sends, coming, socket, line>>

Next == (\E n \in 1..Len(coming) : Arrive(n)) \/ Peek \/ ReadV1 \/ ReadV2 \/ Timeout

Spec == Init /\ [][Next]_vars

-----------------------------------------------------------------------------
TypeOK ==
  /\ client_sends \in Streams
  /\ header.pc \in {"peek", "v1", "v2", "done", "error", "timeout"}
  /\ line \o socket \o coming = client_sends.text

(***************************************************************************)
(* "Consume exactly that header", "without a header, nothing is consumed":  *)
(* wherever the bytes are cut, when read_header returns an address, it is   *)
(* that of the header and what is left for TLS starts right after it.       *)
(***************************************************************************)
HeaderExact ==
  header.pc = "done" =>
    /\ ~client_sends.bad
    /\ line = client_sends.header
    /\ header.result = client_sends.client

(***************************************************************************)
(* Only a malformed header is refused as one, at any cut of the bytes.      *)
(***************************************************************************)
RefusedIfBad == header.pc = "error" => client_sends.bad
=============================================================================
