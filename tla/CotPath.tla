------------------------------ MODULE CotPath ------------------------------
(***************************************************************************)
(* One event on its way through a relay (src/src/cot.rs and                 *)
(* transport/takproto.rs, as handle_client of transport/tls.rs uses them):  *)
(* it comes as XML or as a protobuf message, is parsed for its addressees,  *)
(* loses its marti element, may be marked with its data feed, and goes out  *)
(* as XML or as a protobuf message.                                         *)
(*                                                                          *)
(* An event is its time and the elements of its detail; an element has a    *)
(* name, attributes and perhaps children.  Of values only this matters:     *)
(* "num" and "loose" are numbers as printed by the server or otherwise,     *)
(* "zero" and "none" are 0 and the empty string.  A protobuf client builds  *)
(* and reads messages as the server does.                                   *)
(***************************************************************************)
EXTENDS Naturals, Sequences, SequencesExt, FiniteSets

CONSTANTS Elements,    \* elements that a sender may put into a detail
          MaxElements, \* bound: of a detail
          MaxSize      \* MAX_SIZE: how many elements a message may have

VARIABLES
  sent,      \* the event as the sender has it
  from,      \* "xml" or "proto": what the sender speaks
  feed,      \* the listener is that of a data feed
  path,      \* "sent", "decoded", "skipped", "relayed"
  event,     \* the event as the relay has it
  dest       \* whom it is addressed to

vars == <<sent, from, feed, path, event, dest>>

\* The elements that a message has fields for, in the order proto_to_cot
\* writes them, and their attributes.
Typed == <<"contact", "__group", "precisionlocation", "status", "takv", "track">>
TypedAttrs(name) ==
  CASE name = "contact"           -> {{"callsign"}, {"callsign", "endpoint"}}
    [] name = "__group"           -> {{"name", "role"}}
    [] name = "precisionlocation" -> {{"geopointsrc", "altsrc"}}
    [] name = "status"            -> {{"battery"}}
    [] name = "takv"              -> {{"device", "platform", "os", "version"}}
    [] name = "track"             -> {{"speed", "course"}}
    [] OTHER                      -> {}

IsTyped(e) == e.name \in ToSet(Typed)
Fits(e) == DOMAIN e.attrs \in TypedAttrs(e.name)
Numbers == {"status", "track"}

\* double_or and the parse of the battery, with java_double or to_string.
Printed(v) == IF v \in {"num", "loose"} THEN "num" ELSE "zero"

\* cot_millis and cot_time: seconds only.
CotTime(t) == "seconds"

\* The first element of that name, as Element::element finds it.
Firsts(d, name) == {i \in DOMAIN d : d[i].name = name /\ \A j \in 1..i-1 : d[j].name # name}

\* The elements of d at the places in is, in order.
Only(d, is) ==
  LET at == SetToSortSeq(is, <)
  IN  [k \in DOMAIN at |-> d[at[k]]]

-----------------------------------------------------------------------------
CotToProto_AnyAttrs(e) ==    \* mutant: an element with more attributes fits as well
  LET taken == {i \in DOMAIN e.detail : /\ i \in Firsts(e.detail, e.detail[i].name)
                                        /\ \E a \in TypedAttrs(e.detail[i].name) :
                                              a \subseteq DOMAIN e.detail[i].attrs}
      fields(i) == LET as == CHOOSE a \in TypedAttrs(e.detail[i].name) : a \subseteq DOMAIN e.detail[i].attrs
                   IN  [k \in as |-> e.detail[i].attrs[k]]
  IN  [time |-> e.time,
       typed |-> {[name |-> e.detail[i].name, attrs |-> fields(i)] : i \in taken},
       rest |-> Only(e.detail, DOMAIN e.detail \ taken),
       has_detail |-> e.has_detail]

\* cot_to_proto: a first element with exactly the attributes of its field
\* goes into the field, without its children; the others stay XML.
CotToProto(e) ==
  LET taken == {i \in DOMAIN e.detail : i \in Firsts(e.detail, e.detail[i].name) /\ Fits(e.detail[i])}
      field(x) == [name |-> x.name,
                   attrs |-> [k \in DOMAIN x.attrs |->
                               IF x.name \in Numbers THEN Printed(x.attrs[k]) ELSE x.attrs[k]]]
  IN  [time |-> e.time,
       typed |-> {field(e.detail[i]) : i \in taken},
       rest |-> Only(e.detail, DOMAIN e.detail \ taken),
       has_detail |-> e.has_detail]

\* proto_to_cot: the fields, then the rest; there, an element that could be
\* a field replaces the one of its name that is there already.
ProtoToCot(p) ==
  LET elem(x) == [name |-> x.name,
                  attrs |-> [k \in {k \in DOMAIN x.attrs : k # "endpoint" \/ x.attrs[k] # "none"} |-> x.attrs[k]],
                  kids |-> FALSE]
      last(i) == \A j \in i+1..Len(p.rest) : p.rest[j].name # p.rest[i].name
      order == SelectSeq(Typed, LAMBDA n : /\ \E x \in p.typed : x.name = n
                                           /\ \A i \in DOMAIN p.rest : p.rest[i].name # n)
  IN  [time |-> CotTime(p.time), has_detail |-> p.has_detail,
       detail |-> [k \in DOMAIN order |-> elem(CHOOSE x \in p.typed : x.name = order[k])]
                  \o Only(p.rest, {i \in DOMAIN p.rest : IsTyped(p.rest[i]) => last(i)})]

\* Event::from_xml refuses a second element of one that the model has once.
Once == {"contact", "__chat", "marti", "remarks"}
Accepted(e) ==
  \A i, j \in DOMAIN e.detail : i # j /\ e.detail[i].name = e.detail[j].name
                                  => e.detail[i].name \notin Once

\* addressed_uids: of marti, and of a chat that is not for all rooms.
AddressedUids(e) ==
  UNION {e.detail[i].to : i \in {i \in DOMAIN e.detail :
                                   \/ e.detail[i].name = "marti"
                                   \/ e.detail[i].name = "__chat" /\ ~e.detail[i].all_rooms}}

\* strip_marti: the event without its first marti element.
StripMarti(e) == [e EXCEPT !.detail = Only(@, DOMAIN @ \ Firsts(@, "marti"))]

Source == [name |-> "source", attrs |-> << >>, kids |-> TRUE]

\* add_feed_source: appended to the detail, which is made if there is none.
AddFeedSource(e) == [e EXCEPT !.detail = Append(@, Source), !.has_detail = TRUE]

-----------------------------------------------------------------------------
Details == UNION {[1..n -> Elements] : n \in 0..MaxElements}

Init ==
  /\ sent \in {[time |-> "millis", detail |-> d, has_detail |-> h] : d \in Details, h \in BOOLEAN}
  /\ sent.detail # << >> => sent.has_detail
  /\ from \in {"xml", "proto"} /\ feed \in BOOLEAN
  /\ path = "sent" /\ event = sent /\ dest = {}

\* handle_client, the read branch: an event that does not parse is skipped.
Decode ==
  LET e == IF from = "proto" THEN ProtoToCot(CotToProto(sent)) ELSE sent
  IN  /\ path = "sent"
      /\ event' = e
      /\ path' = IF Accepted(e) THEN "decoded" ELSE "skipped"
      /\ UNCHANGED <<sent, from, feed, dest>>

\* handle_client: strip_marti, the feed's mark, the addressees.
Relay ==
  /\ path = "decoded"
  /\ event' = IF feed THEN AddFeedSource(StripMarti(event)) ELSE StripMarti(event)
  /\ dest' = AddressedUids(event)
  /\ path' = "relayed"
  /\ UNCHANGED <<sent, from, feed>>

Next == Decode \/ Relay

Spec == Init /\ [][Next]_vars

\* encode_outbound: what a receiver that speaks protobuf has in the end: the
\* event, or for one that is too large a pointer to it.
ForProto(e) ==
  IF Cardinality(CotToProto(e).typed) + Len(CotToProto(e).rest) <= MaxSize
  THEN [whole |-> TRUE, event |-> ProtoToCot(CotToProto(e))]
  ELSE [whole |-> FALSE, event |-> e]

-----------------------------------------------------------------------------
TypeOK ==
  /\ from \in {"xml", "proto"} /\ feed \in BOOLEAN
  /\ path \in {"sent", "decoded", "skipped", "relayed"}
  /\ event.has_detail \in BOOLEAN /\ (event.detail # << >> => event.has_detail)

\* What a conversion to protobuf and back leaves of an element.
Normal(x) ==
  IF Fits(x)
  THEN [x EXCEPT !.kids = FALSE,
                 !.attrs = [k \in {k \in DOMAIN @ : k # "endpoint" \/ @[k] # "none"} |->
                              IF x.name \in Numbers THEN Printed(@[k]) ELSE @[k]]]
  ELSE x

\* The elements a receiver should have after conversions: of several that
\* could be the same field the last, of others all.
Kept(d) ==
  {Normal(d[i]) : i \in {i \in DOMAIN d :
       /\ d[i].name # "marti"
       /\ IsTyped(d[i]) => \A j \in i+1..Len(d) : d[j].name # d[i].name}}

Received(d) == {Normal(d[i]) : i \in DOMAIN d}

(***************************************************************************)
(* "Relays forward each event's original XML": between clients that speak   *)
(* XML everything but marti arrives as it was, in order; with one or two    *)
(* conversions to protobuf on the way, every element arrives too - but the  *)
(* children of one that became a field, other forms of numbers, and all but *)
(* the last of several that could be the same field are lost.               *)
(***************************************************************************)
NothingStripped ==
  path = "relayed" =>
    LET source == IF feed THEN {Source} ELSE {}
        proto == ForProto(event)
        clean == SelectSeq(sent.detail, LAMBDA x : x.name # "marti")
    IN  /\ from = "xml" => event.detail = IF feed THEN Append(clean, Source) ELSE clean
        /\ from = "proto" => Received(event.detail) = Kept(sent.detail) \cup source
        /\ proto.whole => Received(proto.event.detail) = Kept(sent.detail) \cup source

(***************************************************************************)
(* Whom an event goes to does not depend on the protocol its sender speaks. *)
(***************************************************************************)
AddressedAlike == path = "relayed" => dest = AddressedUids(sent)

(***************************************************************************)
(* The addressing of an event is not passed on.                             *)
(***************************************************************************)
MartiIsGone == path = "relayed" => \A i \in DOMAIN event.detail : event.detail[i].name # "marti"
=============================================================================
