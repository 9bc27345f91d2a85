---------------------------- MODULE Connections ----------------------------
(***************************************************************************)
(* The connections of the relays: their slots (src/src/transport/           *)
(* admission.rs), the table of connected clients (connections.rs) and the   *)
(* task that each has (tcp.rs; the mTLS relay of tls.rs does these steps in *)
(* the same order, with a name), from accept to the drop of its permit.     *)
(*                                                                          *)
(* The table is keyed by the client's address, which comes from the PROXY   *)
(* header where there is a proxy: two connections can have the same one,    *)
(* when a client is back before its old connection ended.                   *)
(*                                                                          *)
(* An event is a situation report (SA) of its sender, with a version.  All  *)
(* clients are in one group (GroupRecords has who reaches whom), no event   *)
(* is directed or control, and the stream decoder is in Framing.            *)
(***************************************************************************)
EXTENDS Naturals, Sequences, FiniteSets, FiniteSetsExt, Functions

CONSTANTS
  Conn,                      \* connections, each used once
  Addr, IpOf,                \* client addresses, and the IP of each
  Name, NoName,              \* certificate names; NoName for plain TCP
  NoConn,
  HubCapacity,               \* events that a receiver may be behind
  Modes                      \* what a behaviour is about: its limits (total,
                             \* perIp), addrs and names, and the bounds on
                             \* connections (conns) and SAs of each (maxSa)

ASSUME ConnectionsAssumption ==
  /\ IsFiniteSet(Conn) /\ NoConn \notin Conn
  /\ Addr # {}
  /\ HubCapacity \in Nat \ {0}
  /\ \A m \in Modes : /\ m.total \in Nat /\ m.perIp \in Nat /\ m.maxSa \in Nat
                      /\ m.addrs \subseteq Addr /\ m.names \subseteq Name \cup {NoName}

VARIABLES
  mode,
  conn,      \* the task of each connection: [pc, addr, cn]
  open,      \* Open: [total, per_ip]
  clients,   \* by address: the connection whose endpoint is there
  latest,    \* latest_sa, by address: [conn, ver]
  seen,      \* the names in the last-seen store
  queue,     \* the hub's receiver of each connection: <<sender, version>>
  known,     \* known[r][s]: the version of s's SA that r was sent last
  sent,      \* the last version that a connection published
  crossed,   \* history: connections that shared their address with another
  lagged     \* history: connections that lost events

tasks == <<conn, open>>
table == <<clients, latest, seen>>
hub == <<queue, known, sent, lagged>>
vars == <<mode, tasks, table, hub, crossed>>

NoSa == [conn |-> NoConn, ver |-> 0]

At(pcs) == {c \in Conn : conn[c].pc \in pcs}

Subscribed == At({"accepted", "admitted", "marked", "hello", "writing", "open", "sending"})
Registered == At({"hello", "writing", "open", "sending"})
WithPermit == At({"admitted", "marked", "hello", "writing", "open", "sending", "leaving", "left"})

TypeOK ==
  /\ mode \in Modes
  /\ conn \in [Conn -> [pc: {"new", "accepted", "admitted", "marked", "hello", "writing", "open",
                             "sending", "leaving", "left", "gone"},
                        addr: Addr, cn: Name \cup {NoName}]]
  /\ open.total \in 0..mode.total
  /\ \A ip \in DOMAIN open.per_ip : open.per_ip[ip] \in 1..mode.perIp
  /\ clients \in [Addr -> Conn \cup {NoConn}]
  /\ latest \in [Addr -> [conn: Conn \cup {NoConn}, ver: Nat]]
  /\ seen \subseteq Name
  /\ queue \in [Conn -> Seq(Conn \X Nat)] /\ \A c \in Conn : Len(queue[c]) <= HubCapacity
  /\ known \in [Conn -> [Conn -> Nat]]
  /\ sent \in [Conn -> Nat]
  /\ crossed \subseteq Conn /\ lagged \subseteq Conn

Init ==
  /\ mode \in Modes
  /\ conn = [c \in Conn |-> [pc |-> "new", addr |-> CHOOSE a \in Addr : TRUE, cn |-> NoName]]
  /\ open = [total |-> 0, per_ip |-> << >>]
  /\ clients = [a \in Addr |-> NoConn]
  /\ latest = [a \in Addr |-> NoSa]
  /\ seen = {}
  /\ queue = [c \in Conn |-> << >>]
  /\ known = [c \in Conn |-> [s \in Conn |-> 0]]
  /\ sent = [c \in Conn |-> 0]
  /\ crossed = {} /\ lagged = {}

Goes(c, from, to) == conn[c].pc = from /\ conn' = [conn EXCEPT ![c].pc = to]

-----------------------------------------------------------------------------
(***************************************************************************)
(* Admission.                                                               *)
(***************************************************************************)
\* run: accept, and the hub's receiver.
Accept(c) ==
  /\ Cardinality(Conn \ At({"new"})) < mode.conns
  /\ Goes(c, "new", "accepted")
  /\ UNCHANGED <<mode, open, table, hub, crossed>>

FromIp(ip) == IF ip \in DOMAIN open.per_ip THEN open.per_ip[ip] ELSE 0

Admit_CountsRefused(ip) ==    \* mutant: the address is counted before the check of the total
  /\ FromIp(ip) < mode.perIp
  /\ open' = [total  |-> IF open.total < mode.total THEN open.total + 1 ELSE open.total,
              per_ip |-> [i \in DOMAIN open.per_ip \cup {ip} |->
                             IF i = ip THEN FromIp(ip) + 1 ELSE open.per_ip[i]]]

Admit(ip) ==
  /\ open.total < mode.total /\ FromIp(ip) < mode.perIp
  /\ open' = [total  |-> open.total + 1,
              per_ip |-> [i \in DOMAIN open.per_ip \cup {ip} |->
                             IF i = ip THEN FromIp(ip) + 1 ELSE open.per_ip[i]]]

\* admit_stream: the address is the peer's or that of the PROXY header.
AdmitStream(c, a) ==
  /\ conn[c].pc = "accepted"
  /\ Admit(IpOf[a])
  /\ conn' = [conn EXCEPT ![c].pc = "admitted", ![c].addr = a]
  /\ UNCHANGED <<mode, table, hub, crossed>>

\* A bad or late header, or no slot.
Refused(c) ==
  /\ Goes(c, "accepted", "gone")
  /\ UNCHANGED <<mode, open, table, hub, crossed>>

\* Permit::drop.
DropPermit(c) ==
  LET ip == IpOf[conn[c].addr]
  IN  open' = [total  |-> open.total - 1,
               per_ip |-> IF open.per_ip[ip] = 1
                          THEN Restrict(open.per_ip, DOMAIN open.per_ip \ {ip})
                          ELSE [open.per_ip EXCEPT ![ip] = @ - 1]]

\* The TLS handshake fails or times out, or the name has no access.
HandshakeFails(c) ==
  /\ Goes(c, "admitted", "gone") /\ DropPermit(c)
  /\ UNCHANGED <<mode, table, hub, crossed>>

-----------------------------------------------------------------------------
(***************************************************************************)
(* handle_client: register, the SAs of the others, then its loop.           *)
(***************************************************************************)
\* Others that have something in the table at the same address.
Sharing(c) ==
  {d \in (Registered \cup At({"leaving"})) \ {c} : conn[d].addr = conn[c].addr}

\* register, up to mark_connected.
MarkConnected(c, cn) ==
  /\ conn[c].pc = "admitted"
  /\ conn' = [conn EXCEPT ![c].pc = "marked", ![c].cn = cn]
  /\ seen' = seen \cup ({cn} \ {NoName})
  /\ UNCHANGED <<mode, open, clients, latest, hub, crossed>>

\* register: the endpoint.
Register(c) ==
  /\ Goes(c, "marked", "hello")
  /\ clients' = [clients EXCEPT ![conn[c].addr] = c]
  /\ crossed' = IF Sharing(c) = {} THEN crossed ELSE crossed \cup Sharing(c) \cup {c}
  /\ UNCHANGED <<mode, open, latest, seen, hub>>

\* latest_sas_except, under the locks of all three tables.
LatestSasExcept(a) ==
  {latest[b] : b \in {b \in Addr \ {a} : clients[b] # NoConn /\ latest[b] # NoSa}}

\* The SAs to send are collected at once; writing them takes time.
SendLatest(c) ==
  /\ Goes(c, "hello", "writing")
  /\ known' = [known EXCEPT ![c] = [s \in Conn |->
                  Max({@[s]} \cup {l.ver : l \in {l \in LatestSasExcept(conn[c].addr) : l.conn = s}})]]
  /\ UNCHANGED <<mode, open, table, queue, sent, lagged, crossed>>

EnterLoop_Subscribes(c) ==    \* mutant: the hub's receiver is made only now
  /\ Goes(c, "writing", "open")
  /\ queue' = [queue EXCEPT ![c] = << >>]
  /\ UNCHANGED <<mode, open, table, known, sent, lagged, crossed>>

\* They are written: the loop begins.
EnterLoop(c) ==
  /\ Goes(c, "writing", "open")
  /\ UNCHANGED <<mode, open, table, hub, crossed>>

\* An event of the client: set_latest_sa comes before the hub.
SetLatestSa(c) ==
  /\ sent[c] < mode.maxSa
  /\ Goes(c, "open", "sending")
  /\ latest' = IF clients[conn[c].addr] = NoConn THEN latest
               ELSE [latest EXCEPT ![conn[c].addr] = [conn |-> c, ver |-> sent[c] + 1]]
  /\ UNCHANGED <<mode, open, clients, seen, hub, crossed>>

\* tx.send: a receiver that is too far behind loses its oldest event.
Publish(c) ==
  /\ Goes(c, "sending", "open")
  /\ sent' = [sent EXCEPT ![c] = @ + 1]
  /\ queue' = [r \in Conn |->
        IF r \notin Subscribed THEN queue[r]
        ELSE Append(IF Len(queue[r]) = HubCapacity THEN Tail(queue[r]) ELSE queue[r],
                    <<c, sent[c] + 1>>)]
  /\ lagged' = lagged \cup {r \in Subscribed : Len(queue[r]) = HubCapacity}
  /\ UNCHANGED <<mode, open, table, known, crossed>>

\* rx.recv: an event from its own address is not sent back.
Receive(r) ==
  /\ conn[r].pc = "open" /\ queue[r] # << >>
  /\ queue' = [queue EXCEPT ![r] = Tail(@)]
  /\ LET s == Head(queue[r])[1]
     IN  known' = IF conn[s].addr = conn[r].addr THEN known
                  ELSE [known EXCEPT ![r][s] = Head(queue[r])[2]]
  /\ UNCHANGED <<mode, tasks, table, sent, lagged, crossed>>

Leave_Later(c) ==    \* mutant: the endpoint stays
  /\ c \in At({"hello", "writing", "open"})
  /\ conn' = [conn EXCEPT ![c].pc = "leaving"]
  /\ queue' = [queue EXCEPT ![c] = << >>]
  /\ UNCHANGED <<mode, open, table, known, sent, lagged, crossed>>

(***************************************************************************)
(* The client or an error ends the task: UnregisterOnDrop, then the permit. *)
(***************************************************************************)
Leave(c) ==
  /\ c \in At({"hello", "writing", "open"})
  /\ conn' = [conn EXCEPT ![c].pc = "leaving"]
  /\ clients' = [clients EXCEPT ![conn[c].addr] = NoConn]
  /\ crossed' = crossed \cup Sharing(c)
  /\ queue' = [queue EXCEPT ![c] = << >>]
  /\ UNCHANGED <<mode, open, latest, seen, known, sent, lagged>>

Unregister(c) ==
  /\ Goes(c, "leaving", "left")
  /\ latest' = [latest EXCEPT ![conn[c].addr] = NoSa]
  /\ crossed' = crossed \cup Sharing(c)
  /\ UNCHANGED <<mode, open, clients, seen, hub>>

Closed(c) ==
  /\ Goes(c, "left", "gone") /\ DropPermit(c)
  /\ UNCHANGED <<mode, table, hub, crossed>>

Next ==
  \E c \in Conn :
    \/ Accept(c) \/ Refused(c) \/ HandshakeFails(c)
    \/ \E a \in mode.addrs : AdmitStream(c, a)
    \/ \E cn \in mode.names : MarkConnected(c, cn)
    \/ Register(c) \/ SendLatest(c) \/ EnterLoop(c) \/ SetLatestSa(c) \/ Publish(c) \/ Receive(c)
    \/ Leave(c) \/ Unregister(c) \/ Closed(c)

Spec == Init /\ [][Next]_vars

-----------------------------------------------------------------------------
(***************************************************************************)
(* Admission: the counters are those of the connections that hold a permit, *)
(* on every path that ends one, so a slot is neither lost nor given twice   *)
(* (and by TypeOK the limits hold).                                         *)
(***************************************************************************)
SlotsAreHeld ==
  /\ open.total = Cardinality(WithPermit)
  /\ \A a \in Addr :
       FromIp(IpOf[a]) = Cardinality({c \in WithPermit : IpOf[conn[c].addr] = IpOf[a]})

(***************************************************************************)
(* endpoint_views: each connected client, and "disconnected" for the names  *)
(* that were seen before and are not among them.                            *)
(***************************************************************************)
EndpointViews ==
  LET connected == {conn[clients[a]].cn : a \in {a \in Addr : clients[a] # NoConn}}
  IN  [connected |-> connected, disconnected |-> seen \ connected]

(***************************************************************************)
(* GET clientEndPoints "reflects who is actually connected right now": a    *)
(* name is shown as connected exactly while a connection of it is, unless   *)
(* that connection shared its address with another; and no name that ever   *)
(* was connected is missing.                                                *)
(***************************************************************************)
EndpointsTrue ==
  /\ EndpointViews.connected \subseteq {conn[c].cn : c \in Registered}
  /\ {conn[c].cn : c \in Registered \ crossed} \subseteq EndpointViews.connected
  /\ \A c \in Registered : conn[c].cn \in
        EndpointViews.connected \cup EndpointViews.disconnected \cup {NoName}

(***************************************************************************)
(* latest_sa is "gone with the connection": what latest_sas_except gives as *)
(* the SA of an endpoint is one that this connection sent, unless it shared *)
(* its address with another.                                                *)
(***************************************************************************)
SaIsOwn ==
  \A a \in Addr : clients[a] # NoConn /\ latest[a] # NoSa
                    => latest[a].conn = clients[a] \/ clients[a] \in crossed

\* The table of clients is true to the connections: the two together.
TableTrue == TypeOK /\ EndpointsTrue /\ SaIsOwn

(***************************************************************************)
(* A client that joins has the others' latest SA once it has read what is   *)
(* there for it: from the table or from the hub, whichever way accept,      *)
(* register and the others' events interleave.  Not after it lagged behind, *)
(* nor between connections that shared an address.                          *)
(***************************************************************************)
LatestSaKnown ==
  \A r \in At({"open"}) \ lagged, s \in Registered \ crossed :
     r # s /\ queue[r] = << >> /\ conn[r].addr # conn[s].addr => known[r][s] >= sent[s]
=============================================================================
