------------------------- MODULE ConnectionsProofs -------------------------
(***************************************************************************)
(* Proofs about the connections of the relays, for any number of            *)
(* connections and addresses, any limits and any capacity of the hub: the   *)
(* slots are those that are held, the table of clients is true to the       *)
(* connections, and a client that joins has the latest SA of the others.    *)
(***************************************************************************)
EXTENDS Connections, FiniteSetTheorems, TLAPS

\* Most steps are about sets and functions only: Zenon proves them.  The others say SMT.
USE Zenon

RegPc    == {"hello", "writing", "open", "sending"}
SubPc    == {"accepted", "admitted", "marked"} \cup RegPc
PermitPc == {"admitted", "marked", "leaving", "left"} \cup RegPc
PC       == {"new", "gone"} \cup SubPc \cup PermitPc

Connection == [pc: PC, addr: Addr, cn: Name \cup {NoName}]

Ip == {IpOf[a] : a \in Addr}

Sa == [conn: Conn \cup {NoConn}, ver: Nat]

Types ==
  /\ mode \in Modes
  /\ conn \in [Conn -> Connection]
  /\ clients \in [Addr -> Conn \cup {NoConn}] /\ latest \in [Addr -> Sa]
  /\ seen \subseteq Name
  /\ queue \in [Conn -> Seq(Conn \X Nat)] /\ \A c \in Conn : Len(queue[c]) <= HubCapacity
  /\ known \in [Conn -> [Conn -> Nat]] /\ sent \in [Conn -> Nat]
  /\ crossed \subseteq Conn /\ lagged \subseteq Conn

(***************************************************************************)
(* Slots: the counters and the limits.                                      *)
(***************************************************************************)
Held(ip) == {c \in WithPermit : IpOf[conn[c].addr] = ip}

OpenTypes ==
  /\ open = [total |-> open.total, per_ip |-> open.per_ip]
  /\ open.total \in 0..mode.total
  /\ DOMAIN open.per_ip \subseteq Ip /\ open.per_ip \in [DOMAIN open.per_ip -> 1..mode.perIp]

SlotInv ==
  /\ OpenTypes
  /\ open.total = Cardinality(WithPermit)
  /\ \A ip \in Ip : FromIp(ip) = Cardinality(Held(ip))

(***************************************************************************)
(* The table.  An endpoint is that of a registered connection at its        *)
(* address, and a connection that shared its address with none has its      *)
(* endpoint.  An SA at an address is from a connection that will remove it. *)
(***************************************************************************)
Tabled == Registered \cup At({"leaving"})

EndpointInv ==
  /\ \A a \in Addr : clients[a] # NoConn => clients[a] \in Registered /\ conn[clients[a]].addr = a
  /\ \A c \in Registered : c \in crossed \/ clients[conn[c].addr] = c
  /\ \A c \in Registered, d \in Tabled : c # d /\ conn[c].addr = conn[d].addr => c \in crossed

NameInv == \A c \in Registered \cup At({"marked"}) : conn[c].cn \in seen \cup {NoName}

SaInv ==
  /\ \A a \in Addr : latest[a] # NoSa => latest[a].conn \in Tabled /\ conn[latest[a].conn].addr = a
  /\ SaIsOwn

(***************************************************************************)
(* What is on its way: the SA in the table is the one that was published    *)
(* last or is about to be.  The last event of a sender in a receiver is the *)
(* one that it published last, and if there is none there the client that   *)
(* was sent the table has it.                                               *)
(***************************************************************************)
Quiet == {"new", "accepted", "admitted", "marked", "hello", "writing"}

Latest(s) == IF conn[s].pc = "sending" THEN sent[s] + 1 ELSE sent[s]

SentInv ==
  /\ \A c \in Conn : conn[c].pc \in Quiet => sent[c] = 0
  /\ \A s \in Registered : s \in crossed \/ Latest(s) = 0
                             \/ latest[conn[s].addr] = [conn |-> s, ver |-> Latest(s)]

Queued(q, s) == \E i \in 1..Len(q) : q[i][1] = s

Ordered(q, f) ==
  \A i \in 1..Len(q) : \E j \in i..Len(q) : q[j][1] = q[i][1] /\ q[j][2] = f[q[i][1]]

Knows(r, s) ==
  r # s /\ conn[r].addr # conn[s].addr => known[r][s] >= sent[s] \/ Queued(queue[r], s)

Told == {"writing", "open", "sending"}

QueueInv ==
  /\ \A c \in Conn : conn[c].pc = "new" => queue[c] = << >>
  /\ \A r \in Subscribed : Ordered(queue[r], sent)
  /\ \A r \in At(Told), s \in Registered : r \in lagged \/ s \in crossed \/ Knows(r, s)

TableInv == EndpointInv /\ NameInv /\ SaInv

Inv == Types /\ SlotInv /\ TableInv /\ SentInv /\ QueueInv

-----------------------------------------------------------------------------
\* The task of c goes to p, with address a and name n; the others stay.
Moves(c, p, a, n) ==
  /\ conn' \in [Conn -> Connection]
  /\ conn'[c].pc = p /\ conn'[c].addr = a /\ conn'[c].cn = n
  /\ \A d \in Conn \ {c} : conn'[d] = conn[d]

LEMMA GoesMoves ==
  ASSUME Types, NEW c \in Conn, NEW p \in PC, conn' = [conn EXCEPT ![c].pc = p]
  PROVE  Moves(c, p, conn[c].addr, conn[c].cn)
<1> DEFINE q == [conn[c] EXCEPT !.pc = p]
<1>1. conn[c] \in Connection /\ conn \in [Conn -> Connection]
  BY DEF Types
<1>2. q \in Connection /\ q.pc = p /\ q.addr = conn[c].addr /\ q.cn = conn[c].cn
  BY <1>1 DEF Connection
<1>3. conn' = [conn EXCEPT ![c] = q]
  OBVIOUS
<1> HIDE DEF q
<1> QED BY <1>1, <1>2, <1>3 DEF Moves

LEMMA ConnTypes ==
  ASSUME Types, NEW c \in Conn
  PROVE  conn[c].pc \in PC /\ conn[c].addr \in Addr /\ conn[c].cn \in Name \cup {NoName}
BY DEF Types, Connection

-----------------------------------------------------------------------------
(***************************************************************************)
(* Slots.                                                                   *)
(***************************************************************************)
LEMMA HeldFinite ==
  /\ IsFiniteSet(WithPermit) /\ Cardinality(WithPermit) \in Nat
  /\ \A ip : IsFiniteSet(Held(ip)) /\ Cardinality(Held(ip)) \in Nat
<1>1. WithPermit \subseteq Conn /\ \A ip : Held(ip) \subseteq Conn
  BY DEF WithPermit, Held, At
<1>2. \A S \in SUBSET Conn : IsFiniteSet(S) /\ Cardinality(S) \in Nat
  BY ConnectionsAssumption, FS_Subset, FS_CardinalityType
<1> QED BY <1>1, <1>2

\* A step that neither takes nor gives back a slot.
LEMMA SlotsKept ==
  ASSUME Types, SlotInv, NEW c \in Conn, NEW p, NEW a, NEW n, Moves(c, p, a, n),
         open' = open, mode' = mode,
         conn[c].pc \in PermitPc <=> p \in PermitPc,
         p \in PermitPc => a = conn[c].addr
  PROVE  SlotInv'
<1>1. WithPermit' = WithPermit
  BY SMT DEF WithPermit, At, PermitPc, RegPc, Moves
<1>2. \A ip \in Ip : Held(ip)' = Held(ip)
  BY SMT, <1>1 DEF Held, Moves, WithPermit, At, PermitPc, RegPc
<1>3. \A ip : FromIp(ip)' = FromIp(ip)
  BY DEF FromIp
<1> QED BY <1>1, <1>2, <1>3 DEF SlotInv, OpenTypes

LEMMA SlotTaken ==
  ASSUME Types, SlotInv, NEW c \in Conn, NEW a \in Addr, NEW n, Moves(c, "admitted", a, n),
         Admit(IpOf[a]), conn[c].pc = "accepted", mode' = mode
  PROVE  SlotInv'
<1> DEFINE my == IpOf[a]
           D  == DOMAIN open.per_ip
<1>0. my \in Ip /\ mode.total \in Nat /\ mode.perIp \in Nat
  BY ConnectionsAssumption DEF Ip, Types
<1>1. /\ open' = [total |-> open.total + 1, per_ip |-> [i \in D \cup {my} |->
                     IF i = my THEN FromIp(my) + 1 ELSE open.per_ip[i]]]
      /\ open.total < mode.total /\ FromIp(my) < mode.perIp
  BY DEF Admit
<1>2. /\ open.total \in 0..mode.total /\ D \subseteq Ip
      /\ \A i \in D : open.per_ip[i] \in 1..mode.perIp
  BY DEF SlotInv, OpenTypes
<1>3. FromIp(my) \in Nat
  BY SMT, <1>0, <1>2 DEF FromIp
<1>4. WithPermit' = WithPermit \cup {c} /\ c \notin WithPermit
  BY DEF WithPermit, At, Moves
<1>5. \A ip \in Ip : Held(ip)' = IF ip = my THEN Held(ip) \cup {c} ELSE Held(ip)
  BY SMT, <1>4 DEF Held, Moves, WithPermit, At
<1>6. \A ip : c \notin Held(ip)
  BY <1>4 DEF Held
<1>7. OpenTypes'
  <2>1. DOMAIN open'.per_ip = D \cup {my} /\ open'.total = open.total + 1
    BY <1>1
  <2>2. \A i \in D \cup {my} : open'.per_ip[i] \in 1..mode.perIp
    BY SMT, <1>0, <1>1, <1>2, <1>3
  <2>3. open' = [total |-> open'.total, per_ip |-> open'.per_ip]
    BY <1>1
  <2>4. open.total + 1 \in 0..mode.total
    BY SMT, <1>0, <1>1, <1>2
  <2>5. open'.per_ip \in [D \cup {my} -> 1..mode.perIp]
    <3> DEFINE f == [i \in D \cup {my} |-> IF i = my THEN FromIp(my) + 1 ELSE open.per_ip[i]]
    <3>1. open'.per_ip = f
      BY <1>1
    <3>2. \A i \in D \cup {my} : f[i] \in 1..mode.perIp
      BY <2>2, <3>1
    <3> QED BY <3>1, <3>2
  <2> HIDE DEF my
  <2> QED BY <1>0, <1>2, <2>1, <2>3, <2>4, <2>5 DEF OpenTypes
<1>8. \A ip \in Ip : FromIp(ip)' = IF ip = my THEN FromIp(ip) + 1 ELSE FromIp(ip)
  BY <1>1 DEF FromIp
<1>9. Cardinality(WithPermit') = Cardinality(WithPermit) + 1
  BY <1>4, HeldFinite, FS_AddElement
<1>10. \A ip \in Ip : Cardinality(Held(ip) \cup {c}) = Cardinality(Held(ip)) + 1
  BY <1>6, HeldFinite, FS_AddElement
<1> HIDE DEF my, D
<1>11. \A ip \in Ip : FromIp(ip)' = Cardinality(Held(ip)')
  BY <1>5, <1>8, <1>10 DEF SlotInv
<1>12. open'.total = Cardinality(WithPermit')
  BY <1>1, <1>9 DEF SlotInv
<1> QED BY <1>7, <1>11, <1>12 DEF SlotInv

LEMMA SlotGiven ==
  ASSUME Types, SlotInv, NEW c \in Conn, NEW n, Moves(c, "gone", conn[c].addr, n),
         DropPermit(c), conn[c].pc \in PermitPc, mode' = mode
  PROVE  SlotInv'
<1> DEFINE my == IpOf[conn[c].addr]
           D  == DOMAIN open.per_ip
<1>0. my \in Ip /\ mode.total \in Nat /\ mode.perIp \in Nat
  BY ConnectionsAssumption, ConnTypes DEF Ip, Types
<1>1. open' = [total |-> open.total - 1,
               per_ip |-> IF open.per_ip[my] = 1 THEN [i \in D \ {my} |-> open.per_ip[i]]
                          ELSE [open.per_ip EXCEPT ![my] = open.per_ip[my] - 1]]
  BY DEF DropPermit, Restrict
<1>2. /\ open.total \in 0..mode.total /\ D \subseteq Ip
      /\ open.per_ip \in [D -> 1..mode.perIp]
  BY DEF SlotInv, OpenTypes
<1>3. WithPermit' = WithPermit \ {c} /\ c \in WithPermit
  BY DEF WithPermit, At, Moves, PermitPc, RegPc
<1>4. \A ip \in Ip : Held(ip)' = IF ip = my THEN Held(ip) \ {c} ELSE Held(ip)
  BY SMT, <1>3 DEF Held, Moves, WithPermit, At
<1>5. c \in Held(my)
  BY <1>3 DEF Held
<1>6. Cardinality(WithPermit') = Cardinality(WithPermit) - 1 /\ Cardinality(WithPermit) # 0
  BY <1>3, HeldFinite, FS_RemoveElement, FS_EmptySet
<1>7. Cardinality(Held(my) \ {c}) = Cardinality(Held(my)) - 1 /\ Cardinality(Held(my)) # 0
  BY <1>5, HeldFinite, FS_RemoveElement, FS_EmptySet
<1>8. FromIp(my) = Cardinality(Held(my)) /\ open.total = Cardinality(WithPermit)
  BY <1>0 DEF SlotInv
<1>9. my \in D /\ FromIp(my) = open.per_ip[my] /\ open.per_ip[my] \in 1..mode.perIp
  BY <1>2, <1>7, <1>8 DEF FromIp
<1>10. OpenTypes'
  <2>1. open'.total = open.total - 1 /\ open'.total \in 0..mode.total
    BY SMT, <1>0, <1>1, <1>2, <1>6, <1>8
  <2>2. CASE open.per_ip[my] = 1
    <3>1. open'.per_ip = [i \in D \ {my} |-> open.per_ip[i]]
      BY <1>1, <2>2
    <3> QED BY <1>1, <1>2, <2>1, <3>1 DEF OpenTypes
  <2>3. CASE open.per_ip[my] # 1
    <3>1. open'.per_ip = [open.per_ip EXCEPT ![my] = open.per_ip[my] - 1]
      BY <1>1, <2>3
    <3>2. open.per_ip[my] - 1 \in 1..mode.perIp
      <4> DEFINE x == open.per_ip[my]
      <4>1. x \in 1..mode.perIp /\ x # 1 /\ mode.perIp \in Nat
        BY <1>0, <1>9, <2>3
      <4> HIDE DEF x
      <4>2. x - 1 \in 1..mode.perIp
        BY SMT, <4>1
      <4> QED BY <4>2 DEF x
    <3>3. open'.per_ip \in [D -> 1..mode.perIp]
      BY <1>2, <3>1, <3>2
    <3> QED BY <1>1, <1>2, <2>1, <3>3 DEF OpenTypes
  <2> QED BY <2>2, <2>3
<1>11. \A ip \in Ip : FromIp(ip)' = IF ip = my THEN FromIp(ip) - 1 ELSE FromIp(ip)
  <2>1. CASE open.per_ip[my] = 1
    BY SMT, <1>1, <1>2, <1>9, <2>1 DEF FromIp
  <2>2. CASE open.per_ip[my] # 1
    BY <1>1, <1>2, <1>9, <2>2 DEF FromIp
  <2> QED BY <2>1, <2>2
<1> HIDE DEF my, D
<1>12. \A ip \in Ip : FromIp(ip)' = Cardinality(Held(ip)')
  BY <1>4, <1>7, <1>11 DEF SlotInv
<1>13. open'.total = Cardinality(WithPermit')
  BY <1>1, <1>6, <1>8
<1> QED BY <1>10, <1>12, <1>13 DEF SlotInv

-----------------------------------------------------------------------------
(***************************************************************************)
(* The table.                                                               *)
(***************************************************************************)
\* A step that leaves the table and the table's connections as they are.
LEMMA TableKept ==
  ASSUME Types, TableInv, NEW c \in Conn, NEW p, NEW a, NEW n, Moves(c, p, a, n),
         UNCHANGED <<table, crossed>>,
         conn[c].pc \in RegPc <=> p \in RegPc,
         p \in RegPc => a = conn[c].addr /\ n = conn[c].cn,
         conn[c].pc # "leaving" /\ p # "leaving" /\ p # "marked"
  PROVE  TableInv'
<1> USE DEF Moves, RegPc, Registered, At, Tabled
<1>1. /\ \A d \in Conn : d \in Registered' <=> d \in Registered
      /\ \A d \in Conn : d \in Tabled' <=> d \in Tabled
      /\ \A d \in Tabled : conn'[d].addr = conn[d].addr
  OBVIOUS
<1>2. Registered \subseteq Conn /\ Tabled \subseteq Conn /\ Registered' = Registered /\ Tabled' = Tabled
      /\ Registered \subseteq Tabled
  BY <1>1
<1>3. NameInv'
  BY DEF TableInv, NameInv, table
<1> HIDE DEF Moves, Registered, Tabled
<1>4. EndpointInv' /\ SaInv'
  BY SMT, <1>1, <1>2 DEF TableInv, EndpointInv, SaInv, SaIsOwn, table
<1> QED BY <1>3, <1>4 DEF TableInv

LEMMA MarkTable ==
  ASSUME Types, TableInv, NEW c \in Conn, NEW n \in Name \cup {NoName},
         Moves(c, "marked", conn[c].addr, n), conn[c].pc = "admitted",
         seen' = seen \cup ({n} \ {NoName}), UNCHANGED <<clients, latest, crossed>>
  PROVE  TableInv'
<1> USE DEF Moves, Registered, At, Tabled
<1>1. /\ Registered' = Registered /\ Tabled' = Tabled /\ Registered \subseteq Tabled
      /\ \A d \in Tabled : conn'[d].addr = conn[d].addr
      /\ Tabled \subseteq Conn
  OBVIOUS
<1>2. NameInv'
  BY DEF TableInv, NameInv
<1> HIDE DEF Moves, Registered, Tabled
<1>3. EndpointInv' /\ SaInv'
  BY SMT, <1>1 DEF TableInv, EndpointInv, SaInv, SaIsOwn
<1> QED BY <1>2, <1>3 DEF TableInv

LEMMA RegisterTable ==
  ASSUME Types, TableInv, NEW c \in Conn, Moves(c, "hello", conn[c].addr, conn[c].cn),
         conn[c].pc = "marked", clients' = [clients EXCEPT ![conn[c].addr] = c],
         crossed' = IF Sharing(c) = {} THEN crossed ELSE crossed \cup Sharing(c) \cup {c},
         UNCHANGED <<latest, seen>>
  PROVE  TableInv'
<1> DEFINE a == conn[c].addr
<1>0. a \in Addr /\ NoConn \notin Conn
  BY ConnTypes, ConnectionsAssumption
<1>1. /\ Registered' = Registered \cup {c} /\ Tabled' = Tabled \cup {c} /\ c \notin Tabled
      /\ \A d \in Conn : conn'[d].addr = conn[d].addr /\ conn'[d].cn = conn[d].cn
      /\ Tabled \subseteq Conn /\ Registered \subseteq Tabled
  BY DEF Moves, Registered, At, Tabled
<1>2. /\ clients'[a] = c /\ \A b \in Addr : b # a => clients'[b] = clients[b]
      /\ \A d \in Tabled : conn[d].addr = a => d \in crossed' /\ c \in crossed'
      /\ crossed \subseteq crossed'
  BY <1>0, <1>1 DEF Types, Sharing, Tabled
<1>3. NameInv'
  BY DEF TableInv, NameInv, Moves, Registered, At
<1>4. EndpointInv'
  <2>1. \A b \in Addr : clients'[b] # NoConn => clients'[b] \in Registered' /\ conn'[clients'[b]].addr = b
    BY SMT, <1>0, <1>1, <1>2 DEF TableInv, EndpointInv
  <2>2. \A d \in Registered' : d \in crossed' \/ clients'[conn'[d].addr] = d
    BY SMT, <1>0, <1>1, <1>2, ConnTypes DEF TableInv, EndpointInv
  <2>3. \A d \in Registered', e \in Tabled' : d # e /\ conn'[d].addr = conn'[e].addr => d \in crossed'
    BY SMT, <1>0, <1>1, <1>2 DEF TableInv, EndpointInv
  <2> QED BY <2>1, <2>2, <2>3 DEF EndpointInv
<1>5. SaInv'
  <2>1. \A b \in Addr : latest[b] # NoSa => latest[b].conn \in Tabled' /\ conn'[latest[b].conn].addr = b
    BY <1>1 DEF TableInv, SaInv
  <2>2. latest[a] # NoSa => c \in crossed'
    BY SMT, <1>0, <1>1, <1>2 DEF TableInv, SaInv
  <2>3. SaIsOwn'
    BY <1>0, <1>2, <2>2 DEF TableInv, SaInv, SaIsOwn
  <2> QED BY <2>1, <2>3 DEF SaInv
<1> QED BY <1>3, <1>4, <1>5 DEF TableInv

LEMMA SetTable ==
  ASSUME Types, TableInv, NEW c \in Conn, Moves(c, "sending", conn[c].addr, conn[c].cn),
         conn[c].pc = "open", NEW v \in Nat,
         latest' = IF clients[conn[c].addr] = NoConn THEN latest
                   ELSE [latest EXCEPT ![conn[c].addr] = [conn |-> c, ver |-> v]],
         UNCHANGED <<clients, seen, crossed>>
  PROVE  TableInv'
<1> DEFINE a == conn[c].addr
<1>0. a \in Addr /\ NoConn \notin Conn
  BY ConnTypes, ConnectionsAssumption
<1>1. /\ Registered' = Registered /\ Tabled' = Tabled /\ c \in Registered
      /\ \A d \in Conn : conn'[d].addr = conn[d].addr /\ conn'[d].cn = conn[d].cn
      /\ Tabled \subseteq Conn /\ Registered \subseteq Tabled
  BY DEF Moves, Registered, At, Tabled
<1>2. /\ \A b \in Addr : b # a => latest'[b] = latest[b]
      /\ clients[a] # NoConn => latest'[a].conn = c
      /\ clients[a] = NoConn => latest' = latest
  BY <1>0 DEF Types
<1>3. NameInv'
  BY DEF TableInv, NameInv, Moves, Registered, At
<1>4. EndpointInv'
  BY SMT, <1>1 DEF TableInv, EndpointInv
<1>5. SaInv'
  <2>1. \A b \in Addr : latest'[b] # NoSa => latest'[b].conn \in Tabled' /\ conn'[latest'[b].conn].addr = b
    BY SMT, <1>0, <1>1, <1>2 DEF TableInv, SaInv
  <2>2. clients[a] # NoConn => clients[a] = c \/ clients[a] \in crossed
    BY SMT, <1>0, <1>1 DEF TableInv, EndpointInv
  <2>3. SaIsOwn'
    BY <1>0, <1>2, <2>2 DEF TableInv, SaInv, SaIsOwn
  <2> QED BY <2>1, <2>3 DEF SaInv
<1> QED BY <1>3, <1>4, <1>5 DEF TableInv

LEMMA LeaveTable ==
  ASSUME Types, TableInv, NEW c \in Conn, Moves(c, "leaving", conn[c].addr, conn[c].cn),
         conn[c].pc \in RegPc, clients' = [clients EXCEPT ![conn[c].addr] = NoConn],
         crossed' = crossed \cup Sharing(c), UNCHANGED <<latest, seen>>
  PROVE  TableInv'
<1> DEFINE a == conn[c].addr
<1>0. a \in Addr /\ NoConn \notin Conn
  BY ConnTypes, ConnectionsAssumption
<1>1. /\ Registered' = Registered \ {c} /\ Tabled' = Tabled /\ c \in Registered
      /\ \A d \in Conn : conn'[d].addr = conn[d].addr /\ conn'[d].cn = conn[d].cn
      /\ Tabled \subseteq Conn /\ Registered \subseteq Tabled
  BY DEF Moves, Registered, At, Tabled, RegPc
<1>2. /\ clients'[a] = NoConn /\ \A b \in Addr : b # a => clients'[b] = clients[b]
      /\ \A d \in Tabled : d # c /\ conn[d].addr = a => d \in crossed'
      /\ crossed \subseteq crossed'
  BY <1>0, <1>1 DEF Types, Sharing, Tabled
<1>3. NameInv'
  BY DEF TableInv, NameInv, Moves, Registered, At
<1>4. EndpointInv'
  <2>1. \A b \in Addr : clients'[b] # NoConn => clients'[b] \in Registered' /\ conn'[clients'[b]].addr = b
    BY SMT, <1>0, <1>1, <1>2 DEF TableInv, EndpointInv
  <2>2. \A d \in Registered' : d \in crossed' \/ clients'[conn'[d].addr] = d
    BY SMT, <1>0, <1>1, <1>2, ConnTypes DEF TableInv, EndpointInv
  <2>3. \A d \in Registered', e \in Tabled' : d # e /\ conn'[d].addr = conn'[e].addr => d \in crossed'
    BY SMT, <1>0, <1>1, <1>2 DEF TableInv, EndpointInv
  <2> QED BY <2>1, <2>2, <2>3 DEF EndpointInv
<1>5. SaInv'
  <2>1. \A b \in Addr : latest[b] # NoSa => latest[b].conn \in Tabled' /\ conn'[latest[b].conn].addr = b
    BY <1>1 DEF TableInv, SaInv
  <2>2. SaIsOwn'
    BY <1>0, <1>2 DEF TableInv, SaInv, SaIsOwn
  <2> QED BY <2>1, <2>2 DEF SaInv
<1> QED BY <1>3, <1>4, <1>5 DEF TableInv

LEMMA UnregisterTable ==
  ASSUME Types, TableInv, NEW c \in Conn, Moves(c, "left", conn[c].addr, conn[c].cn),
         conn[c].pc = "leaving", latest' = [latest EXCEPT ![conn[c].addr] = NoSa],
         crossed' = crossed \cup Sharing(c), UNCHANGED <<clients, seen>>
  PROVE  TableInv'
<1> DEFINE a == conn[c].addr
<1>0. a \in Addr /\ NoConn \notin Conn
  BY ConnTypes, ConnectionsAssumption
<1>1. /\ Registered' = Registered /\ Tabled' = Tabled \ {c}
      /\ \A d \in Conn : conn'[d].addr = conn[d].addr /\ conn'[d].cn = conn[d].cn
      /\ Tabled \subseteq Conn /\ Registered \subseteq Tabled
  BY DEF Moves, Registered, At, Tabled
<1>2. /\ latest'[a] = NoSa /\ \A b \in Addr : b # a => latest'[b] = latest[b]
      /\ crossed \subseteq crossed'
  BY <1>0 DEF Types
<1>3. NameInv'
  BY DEF TableInv, NameInv, Moves, Registered, At
<1>4. EndpointInv'
  BY SMT, <1>1, <1>2 DEF TableInv, EndpointInv
<1>5. SaInv'
  <2>1. \A b \in Addr : latest'[b] # NoSa => latest'[b].conn \in Tabled' /\ conn'[latest'[b].conn].addr = b
    BY SMT, <1>0, <1>1, <1>2 DEF TableInv, SaInv
  <2>2. SaIsOwn'
    BY <1>0, <1>2 DEF TableInv, SaInv, SaIsOwn
  <2> QED BY <2>1, <2>2 DEF SaInv
<1> QED BY <1>3, <1>4, <1>5 DEF TableInv

-----------------------------------------------------------------------------
(***************************************************************************)
(* What was sent.                                                           *)
(***************************************************************************)
LEMMA SentKept ==
  ASSUME Types, SentInv, NEW c \in Conn, NEW p, NEW a, NEW n, Moves(c, p, a, n),
         sent' = sent, crossed \subseteq crossed',
         p \in Quiet => conn[c].pc \in Quiet,
         p # "sending", conn[c].pc # "sending",
         p \in RegPc => conn[c].pc \in Quiet \/ (conn[c].pc \in RegPc /\ a = conn[c].addr),
         \A s \in Registered : s \in crossed' \/ latest'[conn[s].addr] = latest[conn[s].addr]
  PROVE  SentInv'
<1>1. ASSUME NEW d \in Conn, conn'[d].pc \in Quiet PROVE sent'[d] = 0
  BY <1>1 DEF Moves, SentInv
<1>2. ASSUME NEW s \in Registered', s \notin crossed', Latest(s)' # 0
      PROVE  latest'[conn'[s].addr] = [conn |-> s, ver |-> Latest(s)']
  <2>1. s \in Conn /\ Latest(s)' = Latest(s) /\ s \notin crossed
    BY <1>2 DEF Registered, At, Latest, Moves
  <2>2. s \in Registered /\ conn'[s].addr = conn[s].addr
    <3>1. CASE s # c
      BY <1>2, <2>1, <3>1 DEF Registered, At, Moves
    <3>2. CASE s = c
      <4>1. p \in RegPc
        BY <1>2, <3>2 DEF Registered, At, Moves, RegPc
      <4>2. conn[c].pc \notin Quiet
        BY <1>2, <2>1, <3>2 DEF SentInv, Latest
      <4> QED BY <3>2, <4>1, <4>2 DEF Registered, At, Moves, RegPc
    <3> QED BY <3>1, <3>2
  <2> QED BY <1>2, <2>1, <2>2 DEF SentInv
<1> QED BY <1>1, <1>2 DEF SentInv

LEMMA SetSent ==
  ASSUME Types, TableInv, SentInv, NEW c \in Conn, Moves(c, "sending", conn[c].addr, conn[c].cn),
         conn[c].pc = "open", UNCHANGED <<sent, crossed>>,
         latest' = IF clients[conn[c].addr] = NoConn THEN latest
                   ELSE [latest EXCEPT ![conn[c].addr] = [conn |-> c, ver |-> sent[c] + 1]]
  PROVE  SentInv'
<1> DEFINE a == conn[c].addr
<1>0. a \in Addr /\ NoConn \notin Conn /\ c \in Registered /\ Registered \subseteq Tabled
  BY ConnTypes, ConnectionsAssumption DEF Registered, At, Tabled
<1>1. /\ \A b \in Addr : b # a => latest'[b] = latest[b]
      /\ clients[a] # NoConn => latest'[a] = [conn |-> c, ver |-> sent[c] + 1]
  BY <1>0 DEF Types
<1>2. ASSUME NEW d \in Conn, conn'[d].pc \in Quiet PROVE sent'[d] = 0
  BY <1>2 DEF Moves, SentInv, Quiet
<1>3. ASSUME NEW s \in Registered', s \notin crossed, Latest(s)' # 0
      PROVE  latest'[conn'[s].addr] = [conn |-> s, ver |-> Latest(s)']
  <2>1. CASE s = c
    <3>1. clients[a] = c
      BY <1>0, <1>3, <2>1 DEF TableInv, EndpointInv
    <3>2. Latest(s)' = sent[c] + 1 /\ conn'[s].addr = a
      BY <2>1 DEF Moves, Latest
    <3> QED BY <1>0, <1>1, <2>1, <3>1, <3>2
  <2>2. CASE s # c
    <3>1. s \in Conn /\ s \in Registered /\ conn'[s] = conn[s] /\ Latest(s)' = Latest(s)
      BY <1>3, <2>2 DEF Registered, At, Moves, Latest
    <3>2. conn[s].addr \in Addr /\ conn[s].addr # a
      BY <1>0, <1>3, <2>2, <3>1, ConnTypes DEF TableInv, EndpointInv
    <3> QED BY SMT, <1>1, <1>3, <3>1, <3>2 DEF SentInv
  <2> QED BY <2>1, <2>2
<1> QED BY <1>2, <1>3 DEF SentInv

LEMMA PublishSent ==
  ASSUME Types, SentInv, NEW c \in Conn, Moves(c, "open", conn[c].addr, conn[c].cn),
         conn[c].pc = "sending", UNCHANGED <<latest, crossed>>, sent' = [sent EXCEPT ![c] = sent[c] + 1]
  PROVE  SentInv'
<1>0. \A d \in Conn : sent'[d] = IF d = c THEN sent[c] + 1 ELSE sent[d]
  BY DEF Types
<1>1. ASSUME NEW d \in Conn, conn'[d].pc \in Quiet PROVE sent'[d] = 0
  BY <1>0, <1>1 DEF Moves, SentInv, Quiet
<1>2. \A s \in Conn : /\ Latest(s)' = Latest(s) /\ conn'[s].addr = conn[s].addr
                      /\ s \in Registered' <=> s \in Registered
  BY SMT, <1>0 DEF Latest, Moves, Registered, At
<1>3. Registered \subseteq Conn /\ Registered' \subseteq Conn
  BY DEF Registered, At
<1> QED BY SMT, <1>1, <1>2, <1>3 DEF SentInv

-----------------------------------------------------------------------------
(***************************************************************************)
(* The receivers.                                                           *)
(***************************************************************************)
Message == Conn \X Nat

LEMMA EmptyQueue == \A S : << >> \in Seq(S) /\ Len(<< >>) = 0
BY SMT

LEMMA TailFacts ==
  ASSUME NEW q \in Seq(Message), q # << >>
  PROVE  /\ Tail(q) \in Seq(Message) /\ Len(Tail(q)) = Len(q) - 1 /\ Len(q) \in Nat \ {0}
         /\ \A i \in 1..Len(Tail(q)) : Tail(q)[i] = q[i + 1]
         /\ Head(q) = q[1] /\ q[1] \in Message
<1>1. Len(q) \in Nat \ {0}
  BY SMT
<1> QED BY SMT, <1>1

LEMMA AppendMessage ==
  ASSUME NEW q \in Seq(Message), NEW m \in Message
  PROVE  /\ Append(q, m) \in Seq(Message) /\ Len(Append(q, m)) = Len(q) + 1 /\ Len(q) \in Nat
         /\ \A i \in 1..Len(q) : Append(q, m)[i] = q[i]
         /\ Append(q, m)[Len(q) + 1] = m
BY SMT

LEMMA TailOrdered ==
  ASSUME NEW q \in Seq(Message), q # << >>, NEW f, Ordered(q, f)
  PROVE  Ordered(Tail(q), f)
<1> SUFFICES ASSUME NEW i \in 1..Len(Tail(q))
             PROVE  \E j \in i..Len(Tail(q)) :
                      Tail(q)[j][1] = Tail(q)[i][1] /\ Tail(q)[j][2] = f[Tail(q)[i][1]]
  BY DEF Ordered
<1>1. i + 1 \in 1..Len(q) /\ Tail(q)[i] = q[i + 1]
  BY SMT, TailFacts
<1>2. PICK j \in (i + 1)..Len(q) : q[j][1] = q[i + 1][1] /\ q[j][2] = f[q[i + 1][1]]
  BY <1>1 DEF Ordered
<1>3. j - 1 \in i..Len(Tail(q)) /\ Tail(q)[j - 1] = q[j]
  BY SMT, TailFacts
<1> QED BY <1>1, <1>2, <1>3

LEMMA AppendOrdered ==
  ASSUME NEW q \in Seq(Message), NEW f, NEW g, NEW c \in Conn, NEW v \in Nat, Ordered(q, f),
         g[c] = v, \A d \in Conn : d # c => g[d] = f[d]
  PROVE  Ordered(Append(q, <<c, v>>), g)
<1> DEFINE r == Append(q, <<c, v>>)
           n == Len(q) + 1
<1>1. <<c, v>> \in Message
  BY DEF Message
<1>2. /\ Len(r) = n /\ Len(q) \in Nat /\ r[n] = <<c, v>>
      /\ \A i \in 1..Len(q) : r[i] = q[i] /\ q[i] \in Message
  BY SMT, <1>1, AppendMessage
<1> HIDE DEF r
<1>3. ASSUME NEW i \in 1..n
      PROVE  \E j \in i..n : r[j][1] = r[i][1] /\ r[j][2] = g[r[i][1]]
  <2>1. CASE i = n \/ q[i][1] = c
    <3>1. r[i][1] = c
      BY SMT, <1>2, <2>1
    <3>2. n \in i..n /\ r[n][1] = c /\ r[n][2] = g[c]
      BY SMT, <1>2
    <3> QED BY <3>1, <3>2
  <2>2. CASE i # n /\ q[i][1] # c
    <3>1. i \in 1..Len(q) /\ r[i] = q[i] /\ q[i][1] \in Conn
      BY SMT, <1>2, <2>2 DEF Message
    <3>2. PICK j \in i..Len(q) : q[j][1] = q[i][1] /\ q[j][2] = f[q[i][1]]
      BY <3>1 DEF Ordered
    <3>3. j \in i..n /\ r[j] = q[j] /\ g[q[i][1]] = f[q[i][1]]
      BY SMT, <1>2, <2>2, <3>1
    <3> QED BY <3>1, <3>2, <3>3
  <2> QED BY <2>1, <2>2
<1>4. Ordered(r, g)
  BY <1>2, <1>3 DEF Ordered
<1> QED BY <1>4 DEF r

LEMMA QueueKept ==
  ASSUME Types, QueueInv, NEW c \in Conn, NEW p, NEW a, NEW n, Moves(c, p, a, n),
         UNCHANGED <<queue, known, sent, lagged>>, crossed \subseteq crossed', p # "new",
         p \in SubPc => conn[c].pc \in SubPc \cup {"new"},
         p \in Told => conn[c].pc \in Told /\ a = conn[c].addr,
         p \in RegPc => (conn[c].pc \in RegPc /\ a = conn[c].addr) \/ sent[c] = 0
  PROVE  QueueInv'
<1>1. ASSUME NEW d \in Conn, conn'[d].pc = "new" PROVE queue'[d] = << >>
  BY <1>1 DEF Moves, QueueInv
<1>2. ASSUME NEW r \in Subscribed' PROVE Ordered(queue[r], sent)
  <2>1. r \in Conn /\ (r \in Subscribed \/ conn[r].pc = "new")
    BY <1>2 DEF Subscribed, At, Moves, SubPc, RegPc
  <2>2. CASE conn[r].pc = "new"
    BY SMT, <2>1, <2>2 DEF QueueInv, Ordered
  <2> QED BY <2>1, <2>2 DEF QueueInv
<1>3. ASSUME NEW r \in At(Told)', NEW s \in Registered', r \notin lagged, s \notin crossed',
             r # s, conn'[r].addr # conn'[s].addr
      PROVE  known[r][s] >= sent[s] \/ Queued(queue[r], s)
  <2>1. r \in At(Told) /\ conn'[r].addr = conn[r].addr /\ r \in Conn /\ s \in Conn
    BY <1>3 DEF At, Moves, Registered
  <2>2. (s \in Registered /\ conn'[s].addr = conn[s].addr) \/ sent[s] = 0
    BY <1>3 DEF At, Moves, Registered, RegPc
  <2>3. CASE sent[s] = 0
    BY SMT, <2>1, <2>3 DEF Types
  <2>4. CASE s \in Registered /\ conn'[s].addr = conn[s].addr
    BY <1>3, <2>1, <2>4 DEF QueueInv, Knows
  <2> QED BY <2>2, <2>3, <2>4
<1> QED BY <1>1, <1>2, <1>3 DEF QueueInv, Knows

\* Leaving: the receiver is dropped.
LEMMA LeaveQueue ==
  ASSUME Types, QueueInv, NEW c \in Conn, Moves(c, "leaving", conn[c].addr, conn[c].cn),
         UNCHANGED <<known, sent, lagged>>, crossed \subseteq crossed',
         queue' = [queue EXCEPT ![c] = << >>]
  PROVE  QueueInv'
<1>0. \A d \in Conn \ {c} : queue'[d] = queue[d]
  BY DEF Types
<1>1. ASSUME NEW d \in Conn, conn'[d].pc = "new" PROVE queue'[d] = << >>
  BY <1>0, <1>1 DEF Moves, QueueInv
<1>2. ASSUME NEW r \in Subscribed' PROVE Ordered(queue'[r], sent)
  <2>1. r \in Subscribed /\ r \in Conn \ {c}
    BY <1>2 DEF Subscribed, At, Moves
  <2> QED BY <1>0, <2>1 DEF QueueInv
<1>3. ASSUME NEW r \in At(Told)', NEW s \in Registered', r \notin lagged, s \notin crossed',
             r # s, conn'[r].addr # conn'[s].addr
      PROVE  known[r][s] >= sent[s] \/ Queued(queue'[r], s)
  <2>1. /\ r \in At(Told) /\ conn'[r].addr = conn[r].addr /\ r \in Conn \ {c}
        /\ s \in Registered /\ conn'[s].addr = conn[s].addr
    BY <1>3 DEF At, Moves, Registered, Told
  <2> QED BY <1>0, <1>3, <2>1 DEF QueueInv, Knows
<1> QED BY <1>1, <1>2, <1>3 DEF QueueInv, Knows

LEMMA ReceiveQueue ==
  ASSUME Types, QueueInv, NEW r \in Conn, Receive(r)
  PROVE  QueueInv'
<1> DEFINE q == queue[r]
           h == q[1][1]
<1>1. /\ UNCHANGED <<conn, sent, lagged, crossed>> /\ conn[r].pc = "open" /\ q # << >>
      /\ queue' = [queue EXCEPT ![r] = Tail(q)]
      /\ known' = IF conn[Head(q)[1]].addr = conn[r].addr THEN known
                  ELSE [known EXCEPT ![r][Head(q)[1]] = Head(q)[2]]
      /\ q \in Seq(Message)
  BY DEF Receive, tasks, Types, Message
<1>2. /\ Len(Tail(q)) = Len(q) - 1 /\ Len(q) \in Nat \ {0} /\ Head(q) = q[1] /\ q[1] \in Message
      /\ \A i \in 1..Len(Tail(q)) : Tail(q)[i] = q[i + 1]
  BY <1>1, TailFacts
<1>3. /\ queue'[r] = Tail(q) /\ \A d \in Conn \ {r} : queue'[d] = queue[d]
      /\ h \in Conn /\ q[1][2] \in Nat
  BY <1>1, <1>2 DEF Types, Message
<1>4. /\ \A d \in Conn \ {r} : known'[d] = known[d]
      /\ \A s \in Conn \ {h} : known'[r][s] = known[r][s]
      /\ conn[h].addr # conn[r].addr => known'[r][h] = q[1][2]
  <2>1. known \in [Conn -> [Conn -> Nat]] /\ Head(q) = q[1]
    BY <1>2 DEF Types
  <2>2. CASE conn[h].addr = conn[r].addr
    BY <1>1, <2>1, <2>2
  <2>3. CASE conn[h].addr # conn[r].addr
    <3>1. known' = [known EXCEPT ![r] = [known[r] EXCEPT ![h] = q[1][2]]]
      BY <1>1, <2>1, <2>3
    <3> QED BY <1>3, <2>1, <3>1
  <2> QED BY <2>2, <2>3
<1>5. r \in Subscribed
  BY <1>1 DEF Subscribed, At
<1> HIDE DEF q, h
<1>6. ASSUME NEW d \in Conn, conn[d].pc = "new" PROVE queue'[d] = << >>
  BY <1>1, <1>3, <1>6 DEF QueueInv
<1>7. ASSUME NEW d \in Subscribed PROVE Ordered(queue'[d], sent)
  <2>1. d \in Conn
    BY DEF Subscribed, At
  <2>2. Ordered(q, sent)
    BY <1>5 DEF QueueInv, q
  <2>3. Ordered(Tail(q), sent)
    BY <1>1, <2>2, TailOrdered
  <2> QED BY <1>3, <2>1, <2>3 DEF QueueInv
<1>8. ASSUME NEW d \in At(Told), NEW s \in Registered, d \notin lagged, s \notin crossed,
             d # s, conn[d].addr # conn[s].addr
      PROVE  known'[d][s] >= sent[s] \/ Queued(queue'[d], s)
  <2>0. d \in Conn /\ s \in Conn /\ (known[d][s] >= sent[s] \/ Queued(queue[d], s))
    BY <1>8 DEF At, Registered, QueueInv, Knows
  <2>1. CASE d # r
    BY <1>3, <1>4, <2>0, <2>1
  <2>2. CASE d = r /\ s # h
    <3>1. CASE known[r][s] >= sent[s]
      BY <1>4, <2>0, <2>2, <3>1
    <3>2. ASSUME NEW i \in 1..Len(q), q[i][1] = s PROVE Queued(queue'[r], s)
      <4>1. i # 1
        BY <2>2, <3>2 DEF h
      <4>2. i - 1 \in 1..Len(Tail(q)) /\ Tail(q)[i - 1] = q[i]
        BY SMT, <1>2, <4>1
      <4> QED BY <1>3, <3>2, <4>2 DEF Queued
    <3> QED BY <2>0, <2>2, <3>1, <3>2 DEF Queued, q
  <2>3. CASE d = r /\ s = h
    <3>1. PICK j \in 1..Len(q) : q[j][1] = s /\ q[j][2] = sent[s]
      <4>1. Ordered(q, sent)
        BY <1>5 DEF QueueInv, q
      <4>2. 1 \in 1..Len(q) /\ \A j \in 1..Len(q) : j \in 1..Len(q)
        BY SMT, <1>2
      <4>3. \E j \in 1..Len(q) : q[j][1] = q[1][1] /\ q[j][2] = sent[q[1][1]]
        BY <4>1, <4>2 DEF Ordered
      <4> QED BY <2>3, <4>3 DEF h
    <3>2. CASE j = 1
      <4>1. known'[d][s] = sent[s]
        BY <1>4, <1>8, <2>3, <3>1, <3>2
      <4>2. sent[s] \in Nat
        BY <2>0 DEF Types
      <4> QED BY SMT, <4>1, <4>2
    <3>3. CASE j # 1
      <4>1. j - 1 \in 1..Len(Tail(q)) /\ Tail(q)[j - 1] = q[j]
        BY SMT, <1>2, <3>3
      <4> QED BY <1>3, <2>3, <3>1, <4>1 DEF Queued
    <3> QED BY <3>2, <3>3
  <2> QED BY <2>1, <2>2, <2>3
<1>9. Subscribed' = Subscribed /\ At(Told)' = At(Told) /\ Registered' = Registered
  BY <1>1 DEF Subscribed, At, Registered
<1> QED BY <1>1, <1>6, <1>7, <1>8, <1>9 DEF QueueInv, Knows

\* What tx.send leaves in a receiver.
Full(r) == Len(queue[r]) = HubCapacity
Room(r) == IF Full(r) THEN Tail(queue[r]) ELSE queue[r]

LEMMA RoomFacts ==
  ASSUME Types, NEW r \in Conn
  PROVE  Room(r) \in Seq(Message) /\ Len(Room(r)) \in Nat /\ Len(Room(r)) < HubCapacity
<1>1. queue[r] \in Seq(Message) /\ Len(queue[r]) <= HubCapacity /\ HubCapacity \in Nat \ {0}
  BY ConnectionsAssumption DEF Types, Message
<1>2. CASE Full(r)
  <2>1. queue[r] # << >>
    BY <1>1, <1>2, EmptyQueue DEF Full
  <2>2. Tail(queue[r]) \in Seq(Message) /\ Len(Tail(queue[r])) = Len(queue[r]) - 1
    BY <1>1, <2>1, TailFacts
  <2> QED BY SMT, <1>1, <1>2, <2>2 DEF Full, Room
<1>3. CASE ~Full(r)
  <2>1. Len(queue[r]) \in Nat
    BY SMT, <1>1
  <2> QED BY SMT, <1>1, <1>3, <2>1 DEF Full, Room
<1> QED BY <1>2, <1>3

LEMMA PublishQueue ==
  ASSUME Types, QueueInv, NEW c \in Conn, Publish(c), Moves(c, "open", conn[c].addr, conn[c].cn)
  PROVE  QueueInv' /\ queue' \in [Conn -> Seq(Message)] /\ \A r \in Conn : Len(queue'[r]) <= HubCapacity
<1> DEFINE v == sent[c] + 1
<1>1. /\ conn[c].pc = "sending" /\ sent' = [sent EXCEPT ![c] = v] /\ UNCHANGED <<known, crossed>>
      /\ queue' = [r \in Conn |-> IF r \notin Subscribed THEN queue[r] ELSE Append(Room(r), <<c, v>>)]
      /\ lagged' = lagged \cup {r \in Subscribed : Full(r)}
  BY DEF Publish, Goes, table, Room, Full
<1>2. v \in Nat /\ <<c, v>> \in Message /\ sent'[c] = v /\ \A d \in Conn : d # c => sent'[d] = sent[d]
  BY SMT, <1>1 DEF Types, Message
<1>3. Subscribed' = Subscribed /\ Registered' = Registered /\ Subscribed \subseteq Conn
      /\ Registered \subseteq Conn /\ At(Told)' = At(Told) /\ At(Told) \subseteq Subscribed
  BY <1>1 DEF Moves, Subscribed, At, Registered, Told
<1> HIDE DEF v
<1>4. ASSUME NEW r \in Subscribed
      PROVE  /\ queue'[r] \in Seq(Message) /\ Len(queue'[r]) = Len(Room(r)) + 1
             /\ Len(queue'[r]) <= HubCapacity /\ queue'[r][Len(Room(r)) + 1] = <<c, v>>
             /\ \A i \in 1..Len(Room(r)) : queue'[r][i] = Room(r)[i]
  <2>1. queue'[r] = Append(Room(r), <<c, v>>) /\ r \in Conn
    BY <1>1, <1>3
  <2>2. Room(r) \in Seq(Message) /\ Len(Room(r)) \in Nat /\ Len(Room(r)) < HubCapacity
        /\ HubCapacity \in Nat
    BY <2>1, RoomFacts, ConnectionsAssumption
  <2> QED BY SMT, <1>2, <2>1, <2>2, AppendMessage
<1>5. ASSUME NEW r \in Conn
      PROVE  queue'[r] \in Seq(Message) /\ Len(queue'[r]) <= HubCapacity
  BY <1>1, <1>4 DEF Types, Message
<1>6. ASSUME NEW d \in Conn, conn'[d].pc = "new" PROVE queue'[d] = << >>
  BY <1>1, <1>6 DEF QueueInv, Moves, Subscribed, At
<1>7. ASSUME NEW r \in Subscribed PROVE Ordered(queue'[r], sent')
  <2>1. Ordered(queue[r], sent) /\ queue[r] \in Seq(Message) /\ r \in Conn
    BY <1>3 DEF QueueInv, Types, Message
  <2>2. Ordered(Room(r), sent) /\ Room(r) \in Seq(Message)
    <3>1. CASE Full(r)
      <4>1. queue[r] # << >>
        BY <2>1, <3>1, EmptyQueue, ConnectionsAssumption DEF Full
      <4> QED BY <2>1, <3>1, <4>1, TailOrdered, RoomFacts DEF Room
    <3>2. CASE ~Full(r)
      BY <2>1, <3>2 DEF Room
    <3> QED BY <3>1, <3>2
  <2>3. Ordered(Append(Room(r), <<c, v>>), sent')
    BY <1>2, <2>2, AppendOrdered
  <2> QED BY <1>1, <2>1, <2>3
<1>8. ASSUME NEW r \in At(Told), NEW s \in Registered, r \notin lagged', s \notin crossed,
             r # s, conn[r].addr # conn[s].addr
      PROVE  known[r][s] >= sent'[s] \/ Queued(queue'[r], s)
  <2>1. r \in Subscribed /\ r \notin lagged /\ ~Full(r) /\ Room(r) = queue[r]
    BY <1>1, <1>3, <1>8 DEF Room
  <2>2. Len(Room(r)) \in Nat
    BY <1>3, <2>1, RoomFacts
  <2>3. CASE s = c
    <3>1. Len(Room(r)) + 1 \in 1..Len(queue'[r]) /\ queue'[r][Len(Room(r)) + 1][1] = c
      BY SMT, <1>4, <2>1, <2>2
    <3> QED BY <2>3, <3>1 DEF Queued
  <2>4. CASE s # c
    <3>1. sent'[s] = sent[s] /\ (known[r][s] >= sent[s] \/ Queued(queue[r], s))
      BY <1>2, <1>3, <1>8, <2>1, <2>4 DEF QueueInv, Knows
    <3>2. ASSUME NEW i \in 1..Len(queue[r]), queue[r][i][1] = s PROVE Queued(queue'[r], s)
      <4>0. Len(queue'[r]) = Len(queue[r]) + 1 /\ Len(queue[r]) \in Nat
        BY <1>4, <2>1, <2>2
      <4>1. i \in 1..Len(queue'[r]) /\ queue'[r][i] = queue[r][i]
        BY SMT, <1>4, <2>1, <4>0
      <4> QED BY <3>2, <4>1 DEF Queued
    <3> QED BY <3>1, <3>2 DEF Queued
  <2> QED BY <2>3, <2>4
<1>9. \A d \in Conn : conn'[d].addr = conn[d].addr
  BY DEF Moves
<1>10. QueueInv'
  <2>1. At(Told) \subseteq Conn
    BY <1>3
  <2>2. ASSUME NEW r \in At(Told), NEW s \in Registered
        PROVE  r \in lagged' \/ s \in crossed' \/ Knows(r, s)'
    BY <1>1, <1>3, <1>8, <1>9, <2>1 DEF Knows
  <2> QED BY <1>1, <1>3, <1>6, <1>7, <2>2 DEF QueueInv
<1>11. queue' \in [Conn -> Seq(Message)]
  BY <1>1, <1>5
<1> QED BY <1>5, <1>10, <1>11

-----------------------------------------------------------------------------
(***************************************************************************)
(* latest_sas_except: an address has one SA, so a sender has at most one.   *)
(***************************************************************************)
LEMMA GreaterOfTwo ==
  ASSUME NEW k \in Nat, NEW x \in Nat, NEW M, k \in M, M \subseteq {k, x}
  PROVE  Max(M) \in Nat /\ \A y \in M : Max(M) >= y
<1>1. \E m \in M : \A y \in M : m >= y
  <2>1. CASE x \in M /\ x > k
    BY SMT, <2>1
  <2>2. CASE x \notin M \/ x <= k
    BY SMT, <2>2
  <2> QED BY SMT, <2>1, <2>2
<1>2. Max(M) \in M /\ \A y \in M : Max(M) >= y
  BY <1>1 DEF Max
<1> QED BY <1>2

LEMMA SendLatestKnown ==
  ASSUME Types, TableInv, NEW c \in Conn, SendLatest(c)
  PROVE  /\ known' \in [Conn -> [Conn -> Nat]] /\ \A d \in Conn \ {c} : known'[d] = known[d]
         /\ \A s \in Conn : \A l \in LatestSasExcept(conn[c].addr) : l.conn = s => known'[c][s] >= l.ver
<1> DEFINE L == LatestSasExcept(conn[c].addr)
           V(s) == {l.ver : l \in {l \in L : l.conn = s}}
           M(s) == {known[c][s]} \cup V(s)
<1>1. known' = [known EXCEPT ![c] = [s \in Conn |-> Max(M(s))]]
  BY DEF SendLatest
<1>2. ASSUME NEW s \in Conn
      PROVE  Max(M(s)) \in Nat /\ \A y \in M(s) : Max(M(s)) >= y
  <2> DEFINE x == latest[conn[s].addr].ver
  <2>1. x \in Nat /\ known[c][s] \in Nat
    BY ConnTypes DEF Types, Sa
  <2>2. \A l \in L : l.conn = s => l.ver = x
    BY SMT DEF LatestSasExcept, TableInv, SaInv
  <2>3. M(s) \subseteq {known[c][s], x} /\ known[c][s] \in M(s)
    BY <2>2
  <2> HIDE DEF x, M
  <2> QED BY <2>1, <2>3, GreaterOfTwo
<1> HIDE DEF M
<1>3. known' \in [Conn -> [Conn -> Nat]] /\ (\A d \in Conn \ {c} : known'[d] = known[d])
      /\ \A s \in Conn : known'[c][s] = Max(M(s))
  BY <1>1, <1>2 DEF Types
<1>4. ASSUME NEW s \in Conn, NEW l \in L, l.conn = s PROVE l.ver \in M(s)
  BY <1>4 DEF M
<1> QED BY <1>2, <1>3, <1>4

LEMMA SendLatestQueue ==
  ASSUME Types, TableInv, SentInv, QueueInv, NEW c \in Conn, SendLatest(c),
         Moves(c, "writing", conn[c].addr, conn[c].cn)
  PROVE  QueueInv'
<1>1. conn[c].pc = "hello" /\ UNCHANGED <<queue, sent, lagged, crossed>>
  BY DEF SendLatest, Goes
<1>2. ASSUME NEW d \in Conn, conn'[d].pc = "new" PROVE queue'[d] = << >>
  BY <1>1, <1>2 DEF Moves, QueueInv
<1>3. Subscribed' = Subscribed /\ Registered' = Registered /\ Registered \subseteq Conn
      /\ At(Told)' = At(Told) \cup {c} /\ At(Told) \subseteq Conn
      /\ \A d \in Conn : conn'[d].addr = conn[d].addr
  BY <1>1 DEF Moves, Subscribed, At, Registered, Told
<1>4. ASSUME NEW r \in At(Told), r # c, NEW s \in Registered, r \notin lagged, s \notin crossed,
             r # s, conn[r].addr # conn[s].addr
      PROVE  known'[r][s] >= sent[s] \/ Queued(queue[r], s)
  BY <1>3, <1>4, SendLatestKnown DEF QueueInv, Knows
<1>5. ASSUME NEW s \in Registered, s \notin crossed, conn[c].addr # conn[s].addr
      PROVE  known'[c][s] >= sent[s]
  <2> DEFINE b == conn[s].addr
  <2>1. s \in Conn /\ b \in Addr /\ sent[s] \in Nat /\ known'[c][s] \in Nat
    <3>1. s \in Conn /\ sent[s] \in Nat
      BY <1>3 DEF Types
    <3> QED BY <3>1, ConnTypes, SendLatestKnown
  <2>2. CASE Latest(s) = 0
    BY SMTT(30), <2>1, <2>2 DEF Latest
  <2>3. CASE Latest(s) # 0
    <3>1. latest[b] = [conn |-> s, ver |-> Latest(s)] /\ clients[b] = s
      BY <1>5, <2>3 DEF SentInv, TableInv, EndpointInv
    <3>2. latest[b] \in LatestSasExcept(conn[c].addr)
      BY SMTT(30), <1>5, <2>1, <3>1, ConnectionsAssumption DEF LatestSasExcept, NoSa
    <3>3. known'[c][s] >= Latest(s)
      BY SMT, <2>1, <3>1, <3>2, SendLatestKnown
    <3> QED BY SMT, <2>1, <3>3 DEF Latest
  <2> QED BY <2>2, <2>3
<1>6. \A r \in Subscribed : Ordered(queue[r], sent)
  BY DEF QueueInv
<1> QED BY SMTT(30), <1>1, <1>2, <1>3, <1>4, <1>5, <1>6 DEF QueueInv, Knows

-----------------------------------------------------------------------------
(***************************************************************************)
(* The steps of a task.                                                     *)
(***************************************************************************)
\* A step that only moves the task, before or after it is in the table.
LEMMA TaskMoves ==
  ASSUME Inv, NEW c \in Conn, NEW p, NEW a, NEW n, Moves(c, p, a, n), SlotInv',
         UNCHANGED <<mode, table, hub, crossed>>,
         \/ conn[c].pc = "new" /\ p = "accepted"
         \/ conn[c].pc = "accepted" /\ p \in {"admitted", "gone"}
         \/ conn[c].pc \in {"admitted", "left"} /\ p = "gone"
         \/ conn[c].pc = "writing" /\ p = "open" /\ a = conn[c].addr /\ n = conn[c].cn
  PROVE  Inv'
<1>1. Types'
  BY DEF Inv, Types, Moves, table, hub
<1>2. TableInv'
  <2>1. /\ conn[c].pc \in RegPc <=> p \in RegPc
        /\ p \in RegPc => a = conn[c].addr /\ n = conn[c].cn
        /\ conn[c].pc # "leaving" /\ p # "leaving" /\ p # "marked"
    BY DEF RegPc
  <2> QED BY <2>1, TableKept DEF Inv
<1>3. SentInv'
  <2>1. /\ p \in Quiet => conn[c].pc \in Quiet
        /\ p # "sending" /\ conn[c].pc # "sending"
        /\ p \in RegPc => conn[c].pc \in Quiet \/ (conn[c].pc \in RegPc /\ a = conn[c].addr)
    BY DEF RegPc, Quiet
  <2>2. sent' = sent /\ crossed \subseteq crossed' /\ latest' = latest
    BY DEF hub, table
  <2> QED BY <2>1, <2>2, SentKept DEF Inv
<1>4. QueueInv'
  <2>1. /\ p # "new"
        /\ p \in SubPc => conn[c].pc \in SubPc \cup {"new"}
        /\ p \in Told => conn[c].pc \in Told /\ a = conn[c].addr
        /\ p \in RegPc => (conn[c].pc \in RegPc /\ a = conn[c].addr) \/ sent[c] = 0
    BY DEF RegPc, SubPc, Told
  <2>2. UNCHANGED <<queue, known, sent, lagged>> /\ crossed \subseteq crossed'
    BY DEF hub
  <2> QED BY <2>1, <2>2, QueueKept DEF Inv
<1> QED BY <1>1, <1>2, <1>3, <1>4 DEF Inv

LEMMA AcceptStep == ASSUME Inv, NEW c \in Conn, Accept(c) PROVE Inv'
<1>1. Moves(c, "accepted", conn[c].addr, conn[c].cn) /\ conn[c].pc = "new"
      /\ UNCHANGED <<mode, open, table, hub, crossed>>
  BY GoesMoves DEF Inv, Accept, Goes, PC, SubPc
<1>2. SlotInv'
  BY <1>1, SlotsKept DEF Inv, PermitPc, RegPc
<1> QED BY <1>1, <1>2, TaskMoves

LEMMA RefusedStep == ASSUME Inv, NEW c \in Conn, Refused(c) PROVE Inv'
<1>1. Moves(c, "gone", conn[c].addr, conn[c].cn) /\ conn[c].pc = "accepted"
      /\ UNCHANGED <<mode, open, table, hub, crossed>>
  BY GoesMoves DEF Inv, Refused, Goes, PC
<1>2. SlotInv'
  BY <1>1, SlotsKept DEF Inv, PermitPc, RegPc
<1> QED BY <1>1, <1>2, TaskMoves

LEMMA AdmitStep == ASSUME Inv, NEW c \in Conn, NEW a \in Addr, AdmitStream(c, a) PROVE Inv'
<1>1. /\ conn[c].pc = "accepted" /\ Admit(IpOf[a]) /\ UNCHANGED <<mode, table, hub, crossed>>
      /\ conn' = [conn EXCEPT ![c].pc = "admitted", ![c].addr = a]
  BY DEF AdmitStream
<1>2. Moves(c, "admitted", a, conn[c].cn)
  <2> DEFINE q == [conn[c] EXCEPT !.pc = "admitted", !.addr = a]
  <2>1. conn[c] \in Connection /\ conn \in [Conn -> Connection]
    BY DEF Inv, Types
  <2>2. q \in Connection /\ q.pc = "admitted" /\ q.addr = a /\ q.cn = conn[c].cn
    BY <2>1 DEF Connection, PC, SubPc
  <2>3. conn' = [conn EXCEPT ![c] = q]
    BY <1>1, <2>1
  <2> HIDE DEF q
  <2> QED BY <2>1, <2>2, <2>3 DEF Moves
<1>3. SlotInv'
  BY <1>1, <1>2, SlotTaken DEF Inv
<1> QED BY <1>1, <1>2, <1>3, TaskMoves

LEMMA FailStep == ASSUME Inv, NEW c \in Conn, HandshakeFails(c) \/ Closed(c) PROVE Inv'
<1>1. /\ Moves(c, "gone", conn[c].addr, conn[c].cn) /\ conn[c].pc \in {"admitted", "left"}
      /\ UNCHANGED <<mode, table, hub, crossed>> /\ DropPermit(c)
  BY GoesMoves DEF Inv, HandshakeFails, Closed, Goes, PC
<1>2. SlotInv'
  BY <1>1, SlotGiven DEF Inv, PermitPc
<1> QED BY <1>1, <1>2, TaskMoves

LEMMA EnterLoopStep == ASSUME Inv, NEW c \in Conn, EnterLoop(c) PROVE Inv'
<1>1. Moves(c, "open", conn[c].addr, conn[c].cn) /\ conn[c].pc = "writing"
      /\ UNCHANGED <<mode, open, table, hub, crossed>>
  BY GoesMoves DEF Inv, EnterLoop, Goes, PC, SubPc, RegPc
<1>2. SlotInv'
  BY <1>1, SlotsKept DEF Inv, PermitPc, RegPc
<1> QED BY <1>1, <1>2, TaskMoves

LEMMA MarkStep ==
  ASSUME Inv, NEW c \in Conn, NEW cn \in Name \cup {NoName}, MarkConnected(c, cn)
  PROVE  Inv'
<1>1. /\ conn[c].pc = "admitted" /\ seen' = seen \cup ({cn} \ {NoName})
      /\ conn' = [conn EXCEPT ![c].pc = "marked", ![c].cn = cn]
      /\ UNCHANGED <<mode, open, clients, latest, queue, known, sent, lagged, crossed>>
  BY DEF MarkConnected, hub
<1>2. Moves(c, "marked", conn[c].addr, cn)
  <2> DEFINE q == [conn[c] EXCEPT !.pc = "marked", !.cn = cn]
  <2>1. conn[c] \in Connection /\ conn \in [Conn -> Connection]
    BY DEF Inv, Types
  <2>2. q \in Connection /\ q.pc = "marked" /\ q.addr = conn[c].addr /\ q.cn = cn
    BY <2>1 DEF Connection, PC, SubPc
  <2>3. conn' = [conn EXCEPT ![c] = q]
    BY <1>1, <2>1
  <2> HIDE DEF q
  <2> QED BY <2>1, <2>2, <2>3 DEF Moves
<1>3. Types'
  BY <1>1, <1>2 DEF Inv, Types, Moves
<1>4. SlotInv'
  BY <1>1, <1>2, SlotsKept DEF Inv, PermitPc
<1>5. TableInv'
  BY <1>1, <1>2, MarkTable DEF Inv
<1>6. SentInv'
  BY <1>1, <1>2, SentKept DEF Inv, Quiet, RegPc
<1>7. QueueInv'
  BY <1>1, <1>2, QueueKept DEF Inv, SubPc, RegPc, Told
<1> QED BY <1>3, <1>4, <1>5, <1>6, <1>7 DEF Inv

LEMMA RegisterStep == ASSUME Inv, NEW c \in Conn, Register(c) PROVE Inv'
<1>1. /\ Moves(c, "hello", conn[c].addr, conn[c].cn) /\ conn[c].pc = "marked"
      /\ clients' = [clients EXCEPT ![conn[c].addr] = c]
      /\ crossed' = IF Sharing(c) = {} THEN crossed ELSE crossed \cup Sharing(c) \cup {c}
      /\ UNCHANGED <<mode, open, latest, seen, queue, known, sent, lagged>>
  BY GoesMoves DEF Inv, Register, Goes, PC, SubPc, RegPc, hub
<1>2. Sharing(c) \subseteq Conn /\ crossed \subseteq crossed' /\ sent[c] = 0
  BY <1>1 DEF Sharing, Registered, At, Inv, SentInv, Quiet
<1>3. Types'
  BY <1>1, <1>2, ConnTypes DEF Inv, Types, Moves
<1>4. SlotInv'
  BY <1>1, SlotsKept DEF Inv, PermitPc, RegPc
<1>5. TableInv'
  BY <1>1, RegisterTable DEF Inv
<1>6. SentInv'
  BY <1>1, <1>2, SentKept DEF Inv, Quiet, RegPc
<1>7. QueueInv'
  BY <1>1, <1>2, QueueKept DEF Inv, SubPc, RegPc, Told
<1> QED BY <1>3, <1>4, <1>5, <1>6, <1>7 DEF Inv

LEMMA SendLatestStep == ASSUME Inv, NEW c \in Conn, SendLatest(c) PROVE Inv'
<1>1. /\ Moves(c, "writing", conn[c].addr, conn[c].cn) /\ conn[c].pc = "hello"
      /\ UNCHANGED <<mode, open, table, queue, sent, lagged, crossed>>
  BY GoesMoves DEF Inv, SendLatest, Goes, PC, SubPc, RegPc
<1>2. known' \in [Conn -> [Conn -> Nat]]
  BY SendLatestKnown DEF Inv
<1>3. Types'
  BY <1>1, <1>2 DEF Inv, Types, Moves, table
<1>4. SlotInv'
  BY <1>1, SlotsKept DEF Inv, PermitPc, RegPc
<1>5. TableInv'
  BY <1>1, TableKept DEF Inv, RegPc
<1>6. SentInv'
  BY <1>1, SentKept DEF Inv, Quiet, RegPc, table
<1>7. QueueInv'
  BY <1>1, SendLatestQueue DEF Inv
<1> QED BY <1>3, <1>4, <1>5, <1>6, <1>7 DEF Inv

LEMMA SetLatestStep == ASSUME Inv, NEW c \in Conn, SetLatestSa(c) PROVE Inv'
<1>1. /\ Moves(c, "sending", conn[c].addr, conn[c].cn) /\ conn[c].pc = "open"
      /\ latest' = IF clients[conn[c].addr] = NoConn THEN latest
                   ELSE [latest EXCEPT ![conn[c].addr] = [conn |-> c, ver |-> sent[c] + 1]]
      /\ UNCHANGED <<mode, open, clients, seen, queue, known, sent, lagged, crossed>>
  BY GoesMoves DEF Inv, SetLatestSa, Goes, PC, SubPc, RegPc, hub
<1>2. sent[c] + 1 \in Nat
  BY SMT DEF Inv, Types
<1>3. Types'
  <2>1. [conn |-> c, ver |-> sent[c] + 1] \in Sa
    BY <1>2 DEF Sa
  <2>2. latest' \in [Addr -> Sa]
    BY <1>1, <2>1 DEF Inv, Types
  <2> QED BY <1>1, <2>2 DEF Inv, Types, Moves
<1>4. SlotInv'
  BY <1>1, SlotsKept DEF Inv, PermitPc, RegPc
<1>5. TableInv'
  BY <1>1, <1>2, SetTable DEF Inv
<1>6. SentInv'
  BY <1>1, SetSent DEF Inv
<1>7. QueueInv'
  BY <1>1, QueueKept DEF Inv, SubPc, RegPc, Told
<1> QED BY <1>3, <1>4, <1>5, <1>6, <1>7 DEF Inv

LEMMA PublishStep == ASSUME Inv, NEW c \in Conn, Publish(c) PROVE Inv'
<1>1. /\ Moves(c, "open", conn[c].addr, conn[c].cn) /\ conn[c].pc = "sending"
      /\ sent' = [sent EXCEPT ![c] = sent[c] + 1] /\ lagged' \subseteq Conn
      /\ UNCHANGED <<mode, open, table, known, crossed>>
  BY GoesMoves DEF Inv, Types, Publish, Goes, PC, SubPc, RegPc, Subscribed, At
<1>2. QueueInv' /\ queue' \in [Conn -> Seq(Message)] /\ \A r \in Conn : Len(queue'[r]) <= HubCapacity
  BY <1>1, PublishQueue DEF Inv
<1>3. Types'
  <2>1. sent' \in [Conn -> Nat]
    BY SMT, <1>1 DEF Inv, Types
  <2>2. queue' \in [Conn -> Seq(Conn \X Nat)]
    BY <1>2 DEF Message
  <2> QED BY <1>1, <1>2, <2>1, <2>2 DEF Inv, Types, Moves, table
<1>4. SlotInv'
  BY <1>1, SlotsKept DEF Inv, PermitPc, RegPc
<1>5. TableInv'
  BY <1>1, TableKept DEF Inv, RegPc
<1>6. SentInv'
  BY <1>1, PublishSent DEF Inv, table
<1> QED BY <1>2, <1>3, <1>4, <1>5, <1>6 DEF Inv

LEMMA ReceiveStep == ASSUME Inv, NEW r \in Conn, Receive(r) PROVE Inv'
<1>1. /\ UNCHANGED <<mode, conn, open, table, sent, lagged, crossed>> /\ conn[r].pc = "open"
      /\ queue[r] # << >> /\ queue[r] \in Seq(Message)
      /\ queue' = [queue EXCEPT ![r] = Tail(queue[r])]
      /\ known' = IF conn[Head(queue[r])[1]].addr = conn[r].addr THEN known
                  ELSE [known EXCEPT ![r][Head(queue[r])[1]] = Head(queue[r])[2]]
  BY DEF Receive, tasks, Inv, Types, Message
<1>2. QueueInv'
  BY ReceiveQueue DEF Inv
<1>3. Types'
  <2>1. /\ Tail(queue[r]) \in Seq(Message) /\ Len(Tail(queue[r])) <= HubCapacity
        /\ Head(queue[r])[1] \in Conn /\ Head(queue[r])[2] \in Nat
    <3>1. /\ Tail(queue[r]) \in Seq(Message) /\ Len(Tail(queue[r])) = Len(queue[r]) - 1
          /\ Len(queue[r]) \in Nat \ {0} /\ Head(queue[r]) \in Message
      BY <1>1, TailFacts
    <3>2. Len(queue[r]) <= HubCapacity /\ HubCapacity \in Nat
      BY ConnectionsAssumption DEF Inv, Types
    <3> QED BY SMT, <3>1, <3>2 DEF Message
  <2>2. known' \in [Conn -> [Conn -> Nat]]
    BY <1>1, <2>1 DEF Inv, Types
  <2>3. queue' \in [Conn -> Seq(Message)] /\ \A c \in Conn : Len(queue'[c]) <= HubCapacity
    BY <1>1, <2>1 DEF Inv, Types, Message
  <2> QED BY <1>1, <2>2, <2>3 DEF Inv, Types, table, Message
<1>4. Moves(r, "open", conn[r].addr, conn[r].cn)
  BY <1>1 DEF Inv, Types, Moves
<1>5. SlotInv'
  BY <1>1, <1>4, SlotsKept DEF Inv
<1>6. TableInv'
  BY <1>1, <1>4, TableKept DEF Inv
<1>7. SentInv'
  BY <1>1, <1>4, SentKept DEF Inv, Quiet, RegPc, table
<1> QED BY <1>2, <1>3, <1>5, <1>6, <1>7 DEF Inv

LEMMA LeaveStep == ASSUME Inv, NEW c \in Conn, Leave(c) PROVE Inv'
<1>1. /\ conn[c].pc \in {"hello", "writing", "open"} /\ conn' = [conn EXCEPT ![c].pc = "leaving"]
      /\ clients' = [clients EXCEPT ![conn[c].addr] = NoConn]
      /\ crossed' = crossed \cup Sharing(c) /\ queue' = [queue EXCEPT ![c] = << >>]
      /\ UNCHANGED <<mode, open, latest, seen, known, sent, lagged>>
  BY DEF Leave, At
<1>2. Moves(c, "leaving", conn[c].addr, conn[c].cn)
  BY <1>1, GoesMoves DEF Inv, PC, PermitPc
<1>3. Sharing(c) \subseteq Conn /\ crossed \subseteq crossed' /\ << >> \in Seq(Conn \X Nat)
      /\ Len(<< >>) <= HubCapacity
  BY SMT, <1>1, ConnectionsAssumption DEF Sharing, Registered, At
<1>4. Types'
  BY <1>1, <1>2, <1>3, ConnTypes DEF Inv, Types, Moves
<1>5. SlotInv'
  BY <1>1, <1>2, SlotsKept DEF Inv, PermitPc, RegPc
<1>6. TableInv'
  BY <1>1, <1>2, LeaveTable DEF Inv, RegPc
<1>7. SentInv'
  BY <1>1, <1>2, <1>3, SentKept DEF Inv, Quiet, RegPc
<1>8. QueueInv'
  BY <1>1, <1>2, <1>3, LeaveQueue DEF Inv
<1> QED BY <1>4, <1>5, <1>6, <1>7, <1>8 DEF Inv

LEMMA UnregisterStep == ASSUME Inv, NEW c \in Conn, Unregister(c) PROVE Inv'
<1>1. /\ Moves(c, "left", conn[c].addr, conn[c].cn) /\ conn[c].pc = "leaving"
      /\ latest' = [latest EXCEPT ![conn[c].addr] = NoSa] /\ crossed' = crossed \cup Sharing(c)
      /\ UNCHANGED <<mode, open, clients, seen, queue, known, sent, lagged>>
  BY GoesMoves DEF Inv, Unregister, Goes, PC, PermitPc, hub
<1>2. Sharing(c) \subseteq Conn /\ crossed \subseteq crossed' /\ NoSa \in Sa
  BY <1>1 DEF Sharing, Registered, At, NoSa, Sa
<1>3. Types'
  BY <1>1, <1>2, ConnTypes DEF Inv, Types, Moves
<1>4. SlotInv'
  BY <1>1, SlotsKept DEF Inv, PermitPc
<1>5. TableInv'
  BY <1>1, UnregisterTable DEF Inv
<1>6. SentInv'
  <2>1. \A s \in Registered : s \in crossed' \/ latest'[conn[s].addr] = latest[conn[s].addr]
    <3>1. ASSUME NEW s \in Registered, conn[s].addr = conn[c].addr PROVE s \in crossed'
      BY <1>1, <3>1 DEF Sharing, Registered, At
    <3>2. ASSUME NEW s \in Registered, conn[s].addr # conn[c].addr
          PROVE  latest'[conn[s].addr] = latest[conn[s].addr]
      BY SMT, <1>1, <3>2 DEF Inv, Types
    <3> QED BY <3>1, <3>2
  <2> QED BY <1>1, <1>2, <2>1, SentKept DEF Inv, Quiet, RegPc
<1>7. QueueInv'
  BY <1>1, <1>2, QueueKept DEF Inv, SubPc, RegPc, Told
<1> QED BY <1>3, <1>4, <1>5, <1>6, <1>7 DEF Inv

-----------------------------------------------------------------------------
LEMMA InvInit == Init => Inv
<1> SUFFICES ASSUME Init PROVE Inv
  OBVIOUS
<1>1. \A c \in Conn : conn[c].pc = "new" /\ conn[c].addr \in Addr /\ queue[c] = << >> /\ sent[c] = 0
  BY ConnectionsAssumption DEF Init
<1>2. Types
  <2>1. conn \in [Conn -> Connection]
    BY ConnectionsAssumption DEF Init, Connection, PC
  <2>2. latest \in [Addr -> Sa] /\ clients \in [Addr -> Conn \cup {NoConn}]
    BY DEF Init, Sa, NoSa
  <2>3. queue \in [Conn -> Seq(Conn \X Nat)] /\ \A c \in Conn : Len(queue[c]) <= HubCapacity
    <3>1. << >> \in Seq(Conn \X Nat) /\ Len(<< >>) = 0
      BY EmptyQueue
    <3>2. 0 <= HubCapacity
      BY SMT, ConnectionsAssumption
    <3> QED BY <3>1, <3>2 DEF Init
  <2> QED BY <2>1, <2>2, <2>3 DEF Init, Types
<1>3. SlotInv
  <2>1. WithPermit = {} /\ \A ip : Held(ip) = {}
    BY <1>1 DEF WithPermit, Held, At
  <2>2. open.total = 0 /\ DOMAIN open.per_ip = {} /\ open = [total |-> 0, per_ip |-> << >>]
        /\ open.per_ip = << >> /\ mode.total \in Nat
    <3>1. DOMAIN << >> = {}
      BY SMT
    <3>2. open = [total |-> 0, per_ip |-> << >>] /\ mode.total \in Nat
      BY ConnectionsAssumption DEF Init
    <3> QED BY <3>1, <3>2
  <2>3. open.per_ip \in [{} -> 1..mode.perIp]
    BY SMT, <2>2
  <2>4. OpenTypes
    BY SMT, <2>2, <2>3 DEF OpenTypes
  <2>5. \A ip : FromIp(ip) = 0
    BY <2>2 DEF FromIp
  <2> QED BY <2>1, <2>2, <2>4, <2>5, FS_EmptySet DEF SlotInv
<1>4. Registered = {} /\ Subscribed = {} /\ Tabled = {} /\ At(Told) = {} /\ At({"marked"}) = {}
  BY <1>1 DEF Registered, Subscribed, Tabled, Told, At
<1>5. TableInv
  BY <1>4 DEF Init, TableInv, EndpointInv, NameInv, SaInv, SaIsOwn
<1>6. SentInv /\ QueueInv
  BY <1>1, <1>4 DEF SentInv, QueueInv
<1> QED BY <1>2, <1>3, <1>5, <1>6 DEF Inv

LEMMA InvStutter == Inv /\ UNCHANGED vars => Inv'
<1> SUFFICES ASSUME Inv, UNCHANGED vars PROVE Inv'
  OBVIOUS
<1>1. UNCHANGED <<mode, conn, open, clients, latest, seen, queue, known, sent, lagged, crossed>>
  BY DEF vars, tasks, table, hub
<1>2. Types' /\ SlotInv'
  BY <1>1 DEF Inv, Types, SlotInv, OpenTypes, FromIp, Held, WithPermit, At
<1>3. TableInv'
  BY <1>1 DEF Inv, TableInv, EndpointInv, NameInv, SaInv, SaIsOwn, Registered, Tabled, At
<1>4. SentInv' /\ QueueInv'
  BY <1>1 DEF Inv, SentInv, Latest, QueueInv, Knows, Registered, Subscribed, At
<1> QED BY <1>2, <1>3, <1>4 DEF Inv

LEMMA InvNext == Inv /\ [Next]_vars => Inv'
<1> SUFFICES ASSUME Inv, [Next]_vars PROVE Inv'
  OBVIOUS
<1>1. CASE UNCHANGED vars
  BY <1>1, InvStutter
<1>2. ASSUME NEW c \in Conn,
             \/ Accept(c) \/ Refused(c) \/ HandshakeFails(c)
             \/ \E a \in mode.addrs : AdmitStream(c, a)
             \/ \E cn \in mode.names : MarkConnected(c, cn)
             \/ Register(c) \/ SendLatest(c) \/ EnterLoop(c) \/ SetLatestSa(c) \/ Publish(c)
             \/ Receive(c) \/ Leave(c) \/ Unregister(c) \/ Closed(c)
      PROVE  Inv'
  <2>1. mode.addrs \subseteq Addr /\ mode.names \subseteq Name \cup {NoName}
    BY ConnectionsAssumption DEF Inv, Types
  <2>2. CASE \E a \in mode.addrs : AdmitStream(c, a)
    BY <2>1, <2>2, AdmitStep
  <2>3. CASE \E cn \in mode.names : MarkConnected(c, cn)
    BY <2>1, <2>3, MarkStep
  <2> QED BY SMTT(30), <1>2, <2>2, <2>3, AcceptStep, RefusedStep, FailStep, RegisterStep, SendLatestStep,
             EnterLoopStep, SetLatestStep, PublishStep, ReceiveStep, LeaveStep, UnregisterStep
<1> QED BY <1>1, <1>2 DEF Next

LEMMA InvAlways == Spec => []Inv
BY InvInit, InvNext, PTL DEF Spec

(***************************************************************************)
(* admission.rs: the counters are those of the connections that hold a      *)
(* permit, in total and by address, on every path that ends a connection.   *)
(***************************************************************************)
THEOREM SlotsAreHeldAlways == Spec => []SlotsAreHeld
<1>1. Inv => SlotsAreHeld
  BY DEF Inv, SlotInv, SlotsAreHeld, Held, Ip
<1> QED BY <1>1, InvAlways, PTL

(***************************************************************************)
(* connections.rs: the endpoints shown are those of the connections there,  *)
(* no name that was seen is missing, and an SA is the endpoint's own,       *)
(* except where connections shared an address; and the limits hold.         *)
(***************************************************************************)
THEOREM TableTrueAlways == Spec => []TableTrue
<1>1. Inv => TableTrue
  <2> SUFFICES ASSUME Inv PROVE TableTrue
    OBVIOUS
  <2>1. TypeOK
    <3>1. Types => conn \in [Conn -> [pc: {"new", "accepted", "admitted", "marked", "hello", "writing", "open",
                             "sending", "leaving", "left", "gone"}, addr: Addr, cn: Name \cup {NoName}]]
      BY DEF Types, Connection, PC, SubPc, PermitPc, RegPc
    <3> QED BY <3>1 DEF Inv, Types, SlotInv, OpenTypes, TypeOK, Sa
  <2>2. SaIsOwn
    BY DEF Inv, TableInv, SaInv
  <2>3. EndpointsTrue
    <3> DEFINE ended == {conn[clients[a]].cn : a \in {a \in Addr : clients[a] # NoConn}}
    <3>1. EndpointViews.connected = ended /\ EndpointViews.disconnected = seen \ ended
      BY DEF EndpointViews
    <3>2. ended \subseteq {conn[c].cn : c \in Registered}
      BY DEF Inv, TableInv, EndpointInv
    <3>3. ASSUME NEW c \in Registered \ crossed PROVE conn[c].cn \in ended
      <4>1. c \in Conn /\ clients[conn[c].addr] = c /\ conn[c].addr \in Addr /\ c # NoConn
        BY ConnTypes, ConnectionsAssumption DEF Inv, TableInv, EndpointInv, Registered, At
      <4> QED BY <4>1
    <3>4. ASSUME NEW c \in Registered PROVE conn[c].cn \in ended \cup (seen \ ended) \cup {NoName}
      BY DEF Inv, TableInv, NameInv
    <3> HIDE DEF ended
    <3> QED BY <3>1, <3>2, <3>3, <3>4 DEF EndpointsTrue
  <2> QED BY <2>1, <2>2, <2>3 DEF TableTrue
<1> QED BY <1>1, InvAlways, PTL

(***************************************************************************)
(* A client that joins has the others' latest SA once it has read what is   *)
(* there for it, however accept, register and their events interleave: it   *)
(* subscribes before it reads the table, and set_latest_sa comes before the *)
(* hub.                                                                     *)
(***************************************************************************)
THEOREM LatestSaKnownAlways == Spec => []LatestSaKnown
<1>1. Inv => LatestSaKnown
  <2> SUFFICES ASSUME Inv, NEW r \in At({"open"}) \ lagged, NEW s \in Registered \ crossed,
                      r # s, queue[r] = << >>, conn[r].addr # conn[s].addr
               PROVE  known[r][s] >= sent[s]
    BY DEF LatestSaKnown
  <2>1. r \in At(Told)
    BY DEF At, Told
  <2>2. ~Queued(queue[r], s)
    BY SMT DEF Queued
  <2> QED BY <2>1, <2>2 DEF Inv, QueueInv, Knows
<1> QED BY <1>1, InvAlways, PTL
=============================================================================
