------------------------------ MODULE Framing ------------------------------
(***************************************************************************)
(* The two stream decoders: StreamDecoder of transport/codec.rs (XML        *)
(* documents one after the other) and FrameDecoder of transport/takproto.rs *)
(* (magic byte, size, message).  A client sends items; the bytes arrive in  *)
(* reads of any size, and each read is fed to the decoder, whose loop takes *)
(* one item off the buffer at each turn.                                    *)
(*                                                                          *)
(* Bytes are numbers.  The XML markers are shorter than the real ones but   *)
(* overlap in the same ways: "<" starts both prefixes and the closing tag,  *)
(* and ">" ends all three markers.  A varint has one bit of the size in a   *)
(* byte, not seven.                                                         *)
(***************************************************************************)
EXTENDS Naturals, Sequences, SequencesExt

CONSTANTS Decoders,      \* which decoders are used: {"xml", "proto"}
          max_buffered,  \* of StreamDecoder
          MaxItems       \* bound: items that the client sends

VARIABLES
  decoder,   \* which of the two this connection has
  wire,      \* bytes sent and not read
  buf,       \* StreamDecoder.buf, or FrameDecoder.leftovers and the read
  scanned,   \* StreamDecoder.scanned
  items,     \* what this call of feed has decoded
  out,       \* what earlier calls of feed returned
  reader,    \* "read", "feed", "closed"
  items_sent,\* history: the items that the client sent
  arrived    \* history: how many bytes were read

vars == <<decoder, wire, buf, scanned, items, out, reader, items_sent, arrived>>

\* The bytes  < ? / > blank  and a letter; the markers  <?e  ?>  <ee  </>
LT == 0
QM == 1
SL == 2
GT == 3
SP == 4
CH == 5
XML_DECL_PREFIX == <<LT, QM, CH>>
DECL_CLOSE == <<QM, GT>>
EVENT_PREFIX == <<LT, CH, CH>>
EVENT_CLOSE == <<LT, SL, GT>>

MAGIC == 4

-----------------------------------------------------------------------------
(***************************************************************************)
(* What a client sends: declarations, events, blanks, garbage.              *)
(***************************************************************************)
Plain(text) == [kind |-> "item", text |-> text]
Quiet(text) == [kind |-> "quiet", text |-> text]
Garbage(text) == [kind |-> "garbage", text |-> text]

XmlItems ==
  {Quiet(<<SP>>), Quiet(XML_DECL_PREFIX \o DECL_CLOSE),
   Plain(EVENT_PREFIX \o EVENT_CLOSE),
   Plain(EVENT_PREFIX \o <<QM, GT, LT>> \o EVENT_CLOSE),
   Garbage(<<CH>>), Garbage(<<LT, SL>>)}

\* encode_varint, for the sizes that occur.
Varint(n) == CASE n = 0 -> <<0>> [] n = 1 -> <<1>> [] n = 2 -> <<2, 1>> [] n = 3 -> <<3, 1>>

\* frame: magic, size, message.
Frame(body) == <<MAGIC>> \o Varint(Len(body)) \o body

\* The messages; decode refuses the last one.
Unparseable == <<3>>
Bodies == {<< >>, <<MAGIC>>, <<0, MAGIC, 1>>, Unparseable}

ProtoItems ==
  {[kind |-> IF b = Unparseable THEN "garbage" ELSE "item", text |-> Frame(b)] : b \in Bodies}
  \cup {Garbage(<<0>>)}

Items(d) == IF d = "xml" THEN XmlItems ELSE ProtoItems

\* After garbage, what is decoded depends on where the reads are cut: the
\* streams that are considered end with it.
Send(i) ==
  /\ reader # "closed" /\ Len(items_sent) < MaxItems
  /\ \A k \in DOMAIN items_sent : items_sent[k].kind # "garbage"
  /\ wire' = wire \o i.text
  /\ items_sent' = Append(items_sent, i)
  /\ UNCHANGED <<decoder, buf, scanned, items, out, reader, arrived>>

\* feed, its first lines: n more bytes have come.
Read(n) ==
  /\ reader = "read" /\ n <= Len(wire)
  /\ buf' = buf \o SubSeq(wire, 1, n)
  /\ wire' = SubSeq(wire, n + 1, Len(wire))
  /\ arrived' = arrived + n
  /\ reader' = "feed"
  /\ UNCHANGED <<decoder, scanned, items, out, items_sent>>

-----------------------------------------------------------------------------
(***************************************************************************)
(* StreamDecoder.                                                           *)
(***************************************************************************)
StartsWith(s, t) == Len(s) >= Len(t) /\ SubSeq(s, 1, Len(t)) = t
IsStrictPrefixOf(s, t) == Len(s) < Len(t) /\ SubSeq(t, 1, Len(s)) = s

Classify(s) ==
  CASE StartsWith(s, XML_DECL_PREFIX) -> "Declaration"
    [] StartsWith(s, EVENT_PREFIX) -> "Event"
    [] IsStrictPrefixOf(s, XML_DECL_PREFIX) \/ IsStrictPrefixOf(s, EVENT_PREFIX) -> "AmbiguousPrefix"
    [] OTHER -> "Unknown"

\* trim_leading_whitespace, and what is left of scanned.
Trimmed(s) ==
  LET blank == {n \in 0..Len(s) : \A k \in 1..n : s[k] = SP}
      n == CHOOSE m \in blank : \A k \in blank : k <= m
  IN  SubSeq(s, n + 1, Len(s))

\* find: the places where needle starts.
Finds(s, from, needle) ==
  {p \in from + 1 .. Len(s) + 1 - Len(needle) : SubSeq(s, p, p + Len(needle) - 1) = needle}

FindTerminator_Exact(s, done, needle) ==    \* mutant: not backed off
  Finds(s, done, needle)

\* find_terminator, from where the last search stopped.
FindTerminator(s, done, needle) ==
  Finds(s, IF done >= Len(needle) - 1 THEN done - (Len(needle) - 1) ELSE 0, needle)

\* feed fails: what this call has decoded is not returned.
Fail ==
  /\ reader' = "closed" /\ items' = << >>
  /\ UNCHANGED out

\* feed returns.
Return ==
  /\ reader' = "read" /\ items' = << >>
  /\ out' = out \o items

\* check_size_limit.
TooLarge(s) == Len(s) > max_buffered

Unfinished == IF TooLarge(buf') THEN Fail ELSE Return

\* One turn of feed's loop.
Turn ==
  LET s == Trimmed(buf)
      done == IF Len(s) < Len(buf) THEN 0 ELSE scanned
      shape == Classify(s)
      needle == IF shape = "Declaration" THEN DECL_CLOSE ELSE EVENT_CLOSE
      ends == FindTerminator(s, done, needle)
      end == (CHOOSE p \in ends : \A q \in ends : p <= q) + Len(needle) - 1
  IN  /\ decoder = "xml" /\ reader = "feed"
      /\ \/ /\ s = << >>
            /\ buf' = s /\ scanned' = done /\ Return
         \/ /\ shape \in {"Declaration", "Event"} /\ ends # {}
            /\ buf' = SubSeq(s, end + 1, Len(s)) /\ scanned' = 0
            /\ items' = IF shape = "Event" THEN Append(items, SubSeq(s, 1, end)) ELSE items
            /\ UNCHANGED <<out, reader>>
         \/ /\ shape \in {"Declaration", "Event"} /\ ends = {}
            /\ buf' = s /\ scanned' = Len(s) /\ Unfinished
         \/ /\ s # << >> /\ shape = "AmbiguousPrefix"
            /\ buf' = s /\ scanned' = done /\ Unfinished
         \/ /\ shape = "Unknown"
            /\ buf' = << >> /\ scanned' = done /\ Fail
      /\ UNCHANGED <<decoder, wire, items_sent, arrived>>

-----------------------------------------------------------------------------
(***************************************************************************)
(* FrameDecoder.                                                            *)
(***************************************************************************)
\* readSize, from position 2: the size and the bytes it took, of a varint
\* that ends at its first byte without the continuation bit.
SizeEnds(s) == {p \in 2..Len(s) : s[p] % 4 < 2 /\ \A q \in 2..p-1 : s[q] % 4 >= 2}
SizeOf(s, p) ==
  LET bits == [k \in 1..p-1 |-> (s[k + 1] % 2) * 2^(k - 1)]
  IN  FoldSeq(+, 0, bits)

\* One turn of feed's loop: a byte that is not magic drops what is left, a
\* frame that is not complete stays for the next read.
TakeFrame ==
  LET ends == SizeEnds(buf)
      at == CHOOSE p \in ends : TRUE
      last == at + SizeOf(buf, at)
      magic == buf # << >> /\ buf[1] = MAGIC
      whole == magic /\ ends # {} /\ last <= Len(buf)
  IN  /\ decoder = "proto" /\ reader = "feed"
      /\ \/ ~magic /\ buf' = << >> /\ Return
         \/ magic /\ ~whole /\ UNCHANGED buf /\ Return
         \/ /\ whole
            /\ IF SubSeq(buf, at + 1, last) = Unparseable
               THEN UNCHANGED buf /\ Fail
               ELSE /\ buf' = SubSeq(buf, last + 1, Len(buf))
                    /\ items' = Append(items, SubSeq(buf, 1, last))
                    /\ UNCHANGED <<out, reader>>
      /\ UNCHANGED <<decoder, wire, scanned, items_sent, arrived>>

Init ==
  /\ decoder \in Decoders
  /\ wire = << >> /\ buf = << >> /\ scanned = 0
  /\ items = << >> /\ out = << >>
  /\ reader = "read" /\ items_sent = << >> /\ arrived = 0

Next ==
  \/ \E i \in Items(decoder) : Send(i)
  \/ \E n \in 1..Len(wire) : Read(n)
  \/ Turn \/ TakeFrame

Spec == Init /\ [][Next]_vars

-----------------------------------------------------------------------------
TypeOK ==
  /\ decoder \in Decoders
  /\ reader \in {"read", "feed", "closed"}
  /\ scanned \in 0..Len(buf)
  /\ arrived \in Nat

\* How many bytes the first k items are.
Bytes(k) == FoldSeq(LAMBDA i, n : n + Len(i.text), 0, SubSeq(items_sent, 1, k))

\* The texts of the items that have arrived to their last byte.
Arrived ==
  LET whole == SelectSeq([k \in DOMAIN items_sent |-> [i |-> items_sent[k], end |-> Bytes(k)]],
                         LAMBDA x : x.i.kind = "item" /\ x.end <= arrived)
  IN  [k \in DOMAIN whole |-> whole[k].i.text]

\* Garbage has begun to arrive.
GarbageCame ==
  \E k \in DOMAIN items_sent : items_sent[k].kind = "garbage" /\ Bytes(k - 1) < arrived

\* Some item is longer than the buffer may become.
Oversize == \E k \in DOMAIN items_sent : Len(items_sent[k].text) > max_buffered

(***************************************************************************)
(* "A needle split across reads is still found", "a frame split across      *)
(* reads is kept for the next one": however the bytes are cut into reads,   *)
(* between reads the decoder has returned exactly the items whose last byte *)
(* has arrived, in order, each with its exact text.                         *)
(***************************************************************************)
ItemsDecoded == reader = "read" => out = Arrived

(***************************************************************************)
(* A stream is ended only for garbage or for an item over the limit, and    *)
(* everything returned before that was sent.                                *)
(***************************************************************************)
ClosedForCause ==
  reader = "closed" => IsPrefix(out, Arrived) /\ (GarbageCame \/ (decoder = "xml" /\ Oversize))
=============================================================================
