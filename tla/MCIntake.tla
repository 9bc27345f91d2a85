------------------------------ MODULE MCIntake ------------------------------
(***************************************************************************)
(* For TLC: how connections, logins and events get in.  Seven components    *)
(* that share no state, one of them in each behaviour: `part` says which,   *)
(* and the others stay as they were initially.                              *)
(***************************************************************************)
EXTENDS TLC, Connections, SeenStore, AuthLimiter

CONSTANTS a1, a2, a3, max_buffered, MaxItems

VARIABLES
  part,
  decoder, wire, buf, scanned, items, out, reader, items_sent, arrived,
  client_sends, coming, socket, line, header,
  original, from, feed, path, event, dest,
  server, client, up, down, batch, sentUp, gotUp, sentDown, gotDown

F == INSTANCE Framing WITH Decoders <- {"xml", "proto"}

\* Headers of both versions, whole, LOCAL, too long, with a bad command or
\* without an address; streams without one, two of which begin like one.
Tls == <<3, 1, 2, 9>>
Sends(h, c, bad) == [text |-> h \o Tls, header |-> h, client |-> c, bad |-> bad]
MCStreams ==
  {Sends(<<7, 8, 5, 1, 2>>, 5, FALSE), Sends(<<7, 8, 0, 1, 2>>, 0, FALSE),
   Sends(<<7, 8, 5, 5, 5, 1, 2>>, 0, TRUE), Sends(<<7, 8, 5, 5, 1>>, 0, TRUE),
   Sends(<<1, 2, 1, 1, 2, 5, 1>>, 5, FALSE), Sends(<<1, 2, 1, 0, 0>>, 0, FALSE),
   Sends(<<1, 2, 1, 1, 0>>, 0, TRUE), Sends(<<1, 2, 1, 2, 1, 5>>, 0, TRUE),
   Sends(<< >>, 0, FALSE),
   [text |-> <<7, 3, 1, 2>>, header |-> << >>, client |-> 0, bad |-> FALSE],
   [text |-> <<1, 2, 9, 9>>, header |-> << >>, client |-> 0, bad |-> FALSE]}

P == INSTANCE ProxyHeader WITH Streams <- MCStreams

\* Elements with exactly the attributes of their field, with fewer or more,
\* with children, with values that do not print as they were, and others.
Elem(n, as, k) == [name |-> n, attrs |-> as, kids |-> k]
MCElements ==
  {Elem("contact", [callsign |-> "a"], FALSE),
   Elem("contact", [callsign |-> "a", endpoint |-> "e"], TRUE),
   Elem("contact", [callsign |-> "a", endpoint |-> "none"], FALSE),
   Elem("contact", [callsign |-> "a", phone |-> "p"], FALSE),
   Elem("__group", [name |-> "a", role |-> "b"], FALSE),
   Elem("__group", [name |-> "a", role |-> "b", more |-> "c"], FALSE),
   Elem("status", [battery |-> "text"], FALSE),
   Elem("track", [speed |-> "num", course |-> "loose"], FALSE),
   Elem("other", << >>, TRUE),
   [name |-> "marti", attrs |-> << >>, kids |-> TRUE, to |-> {"u1"}],
   [name |-> "__chat", attrs |-> << >>, kids |-> TRUE, to |-> {"u2"}, all_rooms |-> FALSE],
   [name |-> "__chat", attrs |-> << >>, kids |-> TRUE, to |-> {"u3"}, all_rooms |-> TRUE]}

C == INSTANCE CotPath WITH sent <- original, Elements <- MCElements, MaxElements <- 3, MaxSize <- 3

N == INSTANCE Negotiation WITH TakProtocol <- TRUE, MaxEvents <- 3

MCIp == [a \in Addr |-> IF a = a3 THEN 2 ELSE 1]
Mode(total, perIp, addrs, names, n, maxSa) ==
  [total |-> total, perIp |-> perIp, addrs |-> addrs, names |-> names,
   conns |-> n, maxSa |-> maxSa]
Modes1 == Mode(2, 1, {a1, a2, a3}, {NoName}, 3, 0)
MCModes ==
  {Modes1, Mode(1, 2, {a1, a3}, {NoName}, 3, 0), Mode(3, 3, {a1, a3}, Name, 3, 1),
   Mode(2, 2, {a1, a3}, {NoName}, 2, 3)}
Symmetry == Permutations(Conn)

connVars == vars
frameVars == <<decoder, wire, buf, scanned, items, out, reader, items_sent, arrived>>
proxyVars == <<client_sends, coming, socket, line, header>>
pathVars == <<original, from, feed, path, event, dest>>
negVars == <<server, client, up, down, batch, sentUp, gotUp, sentDown, gotDown>>
IntakeVars == <<part, connVars, seenVars, loginVars, frameVars, proxyVars, pathVars, negVars>>

IntakeInit ==
  /\ part \in {"conn", "seen", "login", "framing", "proxy", "path", "negotiation"}
  /\ Init /\ (part # "conn" => mode = Modes1)
  /\ SeenInit /\ LimiterInit
  /\ F!Init /\ (part # "framing" => decoder = "xml")
  /\ P!Init /\ (part # "proxy" => client_sends = Sends(<< >>, 0, FALSE))
  /\ N!Init /\ (part # "negotiation" => client.meanwhile = "waits")
  /\ IF part = "path" THEN C!Init
     ELSE /\ original = [time |-> "millis", detail |-> << >>, has_detail |-> FALSE]
          /\ from = "xml" /\ feed = FALSE /\ path = "sent" /\ event = original /\ dest = {}

IntakeNext ==
  /\ UNCHANGED part
  /\ \/ part = "conn" /\ Next /\ UNCHANGED <<seenVars, loginVars, frameVars, proxyVars, pathVars, negVars>>
     \/ part = "seen" /\ SeenNext /\ UNCHANGED <<connVars, loginVars, frameVars, proxyVars, pathVars, negVars>>
     \/ part = "login" /\ LimiterNext /\ UNCHANGED <<connVars, seenVars, frameVars, proxyVars, pathVars, negVars>>
     \/ part = "framing" /\ F!Next /\ UNCHANGED <<connVars, seenVars, loginVars, proxyVars, pathVars, negVars>>
     \/ part = "proxy" /\ P!Next /\ UNCHANGED <<connVars, seenVars, loginVars, frameVars, pathVars, negVars>>
     \/ part = "path" /\ C!Next /\ UNCHANGED <<connVars, seenVars, loginVars, frameVars, proxyVars, negVars>>
     \/ part = "negotiation" /\ N!Next /\ UNCHANGED <<connVars, seenVars, loginVars, frameVars, proxyVars, pathVars>>

IntakeSpec == IntakeInit /\ [][IntakeNext]_IntakeVars

\* A PROXY header is consumed exactly, wherever the bytes are cut, and only
\* a malformed one is refused.
HeaderRead == P!TypeOK /\ P!HeaderExact /\ P!RefusedIfBad

\* Between reads, exactly the items that have arrived are decoded, and a
\* stream is ended only for garbage or for an item over the limit.
StreamDecoded == F!TypeOK /\ F!ItemsDecoded /\ F!ClosedForCause

\* A receiver gets of an event what its sender sent, with and without
\* conversions, but for the addressing; and an event goes to the same
\* clients whatever its sender speaks.
EventArrives == C!TypeOK /\ C!NothingStripped /\ C!AddressedAlike /\ C!MartiIsGone

\* The change from XML to protobuf loses nothing.
ChangeOverClean == N!TypeOK /\ N!ChangeOverClean
=============================================================================
