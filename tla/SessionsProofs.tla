--------------------------- MODULE SessionsProofs ---------------------------
(***************************************************************************)
(* Proofs about what connections are sent.                                  *)
(*                                                                          *)
(* No position is lost between latestSA and the hub, for any number of      *)
(* connections, any capacity and any bounds.  The table of latest events    *)
(* that is kept for them, for any uids and any bound: the oldest are        *)
(* forgotten first, and a table that is not dirty is on the disk.           *)
(***************************************************************************)
EXTENDS Sessions, LatestCot, FiniteSetTheorems, TLAPS

\* Most steps are about sets and functions only: Zenon proves them.  The others say SMT.
USE Zenon

Early   == {"none", "accepted", "allowed", "registered", "subscribed"}
Talking == {"loop", "sending", "writing"}
Settled == {"loop", "writing"}
Listed  == {"registered", "subscribed"} \cup Talking

PC == Early \cup Talking \cup {"leaving", "closed"}

ConnType == [pc: PC, rx: Nat, seen: Nat, sent: Nat, got: [Conn -> Nat], lagged: BOOLEAN]

Types ==
  /\ signals \in [pending: Nat, sent: Nat]
  /\ hub \in Seq(Message)
  /\ latest_sa \in [Conn -> Nat]
  /\ conn \in [Conn -> ConnType]

(***************************************************************************)
(* What the server holds of a client: nothing before its session's loop,    *)
(* and in the loop its latest position, both in latest_sa and, unless it is *)
(* about to be sent, as its last message in the hub.                        *)
(***************************************************************************)
Unheard(p) ==
  /\ conn[p].sent = 0 /\ latest_sa[p] = 0
  /\ \A i \in 1..Len(hub) : hub[i].sender # p
  /\ \A c \in Conn : conn[c].got[p] = 0

Heard(p) ==
  \/ /\ conn[p].sent = 0
     /\ \A i \in 1..Len(hub) : hub[i].sender # p
  \/ \E i \in 1..Len(hub) :
       /\ hub[i].sender = p /\ hub[i].sa = conn[p].sent
       /\ \A j \in i+1..Len(hub) : hub[j].sender # p

(***************************************************************************)
(* What a session knows of a client that is not about to send: its latest   *)
(* position, unless a message of the client is still to come.               *)
(***************************************************************************)
Knows(c, p) ==
  \/ \E i \in conn[c].rx + 1 .. Len(hub) : hub[i].sender = p
  \/ conn[c].got[p] = conn[p].sent

PositionInv ==
  /\ Types
  /\ \A c \in Conn : conn[c].rx <= Len(hub)
  /\ \A p \in Conn : conn[p].pc \in Early => Unheard(p)
  /\ \A p \in Conn : conn[p].pc \in Listed => p \in clients
  /\ \A p \in Conn : conn[p].pc \in Talking => latest_sa[p] = conn[p].sent
  /\ \A p \in Conn : conn[p].pc \in Settled => Heard(p)
  /\ \A c, p \in Conn : /\ c # p
                        /\ conn[c].pc \in Talking /\ ~conn[c].lagged
                        /\ conn[p].pc \in Settled
                        => Knows(c, p)

LEMMA PositionInvInit == Init => PositionInv
<1> SUFFICES ASSUME Init PROVE PositionInv
  OBVIOUS
<1>1. Types
  BY SMT DEF Init, Types, NewConn, ConnType, PC, Early
<1>2. \A p \in Conn : conn[p].pc = "none" /\ Unheard(p)
  BY SMT DEF Init, Unheard, NewConn
<1>3. \A c \in Conn : conn[c].rx <= Len(hub)
  BY SMT DEF Init, NewConn
<1> QED BY <1>1, <1>2, <1>3 DEF PositionInv, Listed, Talking, Settled

(***************************************************************************)
(* A step of one connection that leaves the hub, latest_sa and what each    *)
(* client sent alone, and does not take the connection into its loop.       *)
(***************************************************************************)
LEMMA QuietStep ==
  ASSUME PositionInv, NEW k \in Conn, NEW q \in ConnType,
         conn' = [conn EXCEPT ![k] = q],
         UNCHANGED <<signals, hub, latest_sa>>, clients \subseteq clients',
         q.pc \in Listed => conn[k].pc \in Listed \/ k \in clients',
         q.sent = conn[k].sent, q.got = conn[k].got, q.rx = conn[k].rx \/ conn[k].pc \in Early,
         q.lagged = conn[k].lagged, q.rx <= Len(hub),
         \/ q.pc \in Early /\ conn[k].pc \in Early
         \/ q.pc \in {"leaving", "closed"}
         \/ q.pc \in Settled /\ conn[k].pc \in Settled
  PROVE  PositionInv'
<1>1. Types'
  BY DEF PositionInv, Types
<1>2. \A p \in Conn : conn'[p].sent = conn[p].sent /\ conn'[p].got = conn[p].got
                        /\ conn'[p].lagged = conn[p].lagged
  BY DEF PositionInv, Types, ConnType
<1>3. \A p \in Conn : p # k => conn'[p] = conn[p]
  BY DEF PositionInv, Types
<1>4. conn'[k] = q
  BY DEF PositionInv, Types
<1>5. \A p \in Conn : conn'[p].pc \in Early => Unheard(p)'
  <2> TAKE p \in Conn
  <2> HAVE conn'[p].pc \in Early
  <2>1. conn[p].pc \in Early
    BY <1>3, <1>4 DEF Early, Settled
  <2> QED BY SMT, <2>1, <1>2 DEF PositionInv, Unheard
<1>6. \A p \in Conn : conn'[p].pc \in Listed => p \in clients'
  BY <1>3, <1>4 DEF PositionInv
<1>9. \A p \in Conn : conn'[p].pc \in Talking => latest_sa'[p] = conn'[p].sent
  <2> TAKE p \in Conn
  <2> HAVE conn'[p].pc \in Talking
  <2>1. conn[p].pc \in Talking
    BY <1>3, <1>4 DEF Early, Settled, Talking
  <2> QED BY <2>1, <1>2 DEF PositionInv
<1>7. \A p \in Conn : conn'[p].pc \in Settled => Heard(p)'
  <2> TAKE p \in Conn
  <2> HAVE conn'[p].pc \in Settled
  <2>1. conn[p].pc \in Settled
    BY <1>3, <1>4 DEF Early, Settled
  <2>2. Heard(p)
    BY <2>1 DEF PositionInv
  <2> QED BY <2>2, <1>2 DEF Heard
<1>8. ASSUME NEW c \in Conn, NEW p \in Conn, c # p, conn'[c].pc \in Talking,
             ~conn'[c].lagged, conn'[p].pc \in Settled
      PROVE  Knows(c, p)'
  <2>1. conn[p].pc \in Settled
    BY <1>3, <1>4, <1>8 DEF Early, Settled
  <2>2. conn[c].pc \in Talking /\ conn'[c].rx = conn[c].rx
    BY <1>3, <1>4, <1>8 DEF Early, Settled, Talking
  <2>3. Knows(c, p)
    BY SMT, <1>8, <1>2, <2>1, <2>2 DEF PositionInv
  <2> QED BY <2>2, <2>3, <1>2 DEF Knows
<1>10. \A c \in Conn : conn'[c].rx <= Len(hub')
  BY <1>3, <1>4 DEF PositionInv
<1> QED BY <1>1, <1>5, <1>6, <1>7, <1>8, <1>9, <1>10 DEF PositionInv

LEMMA ReplayStep == \A k \in Conn : PositionInv /\ ReplayLatestSA(k) => PositionInv'
<1> SUFFICES ASSUME PositionInv, NEW k \in Conn, ReplayLatestSA(k)
             PROVE  PositionInv'
  OBVIOUS
<1> DEFINE g == [p \in Conn |-> IF p \in clients \ {k} THEN latest_sa[p] ELSE 0]
<1>1. g \in [Conn -> Nat] /\ conn \in [Conn -> ConnType] /\ conn[k].pc = "subscribed"
  BY DEF PositionInv, Types, ReplayLatestSA, At
<1>2. /\ conn' = [conn EXCEPT ![k].pc = "loop", ![k].got = g]
      /\ UNCHANGED <<signals, hub, latest_sa, clients>>
  BY DEF ReplayLatestSA
<1>3. \A p \in Conn : g[p] = IF p \in clients \ {k} THEN latest_sa[p] ELSE 0
  OBVIOUS
<1> HIDE DEF g
<1>4. /\ conn'[k].pc = "loop" /\ conn'[k].got = g
      /\ conn'[k].sent = conn[k].sent /\ conn'[k].rx = conn[k].rx
      /\ \A p \in Conn : p # k => conn'[p] = conn[p]
      /\ conn' \in [Conn -> ConnType]
  <2> DEFINE q == [conn[k] EXCEPT !.pc = "loop", !.got = g]
  <2>1. conn[k] \in ConnType /\ "loop" \in PC
    BY <1>1 DEF PC, Talking
  <2>2. /\ q \in ConnType /\ q.pc = "loop" /\ q.got = g
        /\ q.sent = conn[k].sent /\ q.rx = conn[k].rx
    BY <1>1, <2>1 DEF ConnType
  <2>3. conn' = [conn EXCEPT ![k] = q]
    BY <1>1, <1>2
  <2> HIDE DEF q
  <2>4. conn'[k] = q /\ (\A p \in Conn : p # k => conn'[p] = conn[p])
        /\ conn' \in [Conn -> ConnType]
    BY <1>1, <2>2, <2>3
  <2> QED BY <2>2, <2>4
<1>5. Types'
  BY <1>2, <1>4 DEF PositionInv, Types
<1>6. Unheard(k)
  BY <1>1 DEF PositionInv, Early
<1>7. \A p \in Conn : conn'[p].pc \in Early => Unheard(p)'
  <2> TAKE p \in Conn
  <2> HAVE conn'[p].pc \in Early
  <2>1. p # k /\ Unheard(p)
    BY <1>4 DEF PositionInv, Early
  <2> QED BY SMT, <2>1, <1>2, <1>3, <1>4 DEF Unheard
<1>8. \A p \in Conn : conn'[p].pc \in Settled => Heard(p)'
  <2> TAKE p \in Conn
  <2> HAVE conn'[p].pc \in Settled
  <2>1. Heard(p)
    BY SMT, <1>4, <1>6 DEF PositionInv, Unheard, Heard
  <2> QED BY SMT, <2>1, <1>2, <1>4 DEF Heard
<1>9. ASSUME NEW c \in Conn, NEW p \in Conn, c # p, conn'[c].pc \in Talking,
             ~conn'[c].lagged, conn'[p].pc \in Settled
      PROVE  Knows(c, p)'
  <2>1. CASE c = k
    <3>1. p \in clients \ {k} /\ latest_sa[p] = conn[p].sent
      BY <2>1, <1>4, <1>9 DEF PositionInv, Listed, Talking, Settled
    <3> QED BY <3>1, <2>1, <1>3, <1>4, <1>9 DEF Knows
  <2>2. CASE p = k
    BY <2>2, <1>4, <1>6, <1>9 DEF Knows, Unheard
  <2>3. CASE c # k /\ p # k
    <3>1. Knows(c, p)
      BY <2>3, <1>4, <1>9 DEF PositionInv
    <3> QED BY <3>1, <2>3, <1>2, <1>4 DEF Knows
  <2> QED BY <2>1, <2>2, <2>3
<1>10. \A p \in Conn : conn'[p].pc \in Listed => p \in clients'
  BY <1>1, <1>2, <1>4 DEF PositionInv, Listed
<1>11. \A p \in Conn : conn'[p].pc \in Talking => latest_sa'[p] = conn'[p].sent
  BY SMT, <1>2, <1>4, <1>6 DEF PositionInv, Unheard
<1>12. \A c \in Conn : conn'[c].rx <= Len(hub')
  BY <1>2, <1>4 DEF PositionInv
<1> QED BY <1>5, <1>7, <1>8, <1>9, <1>10, <1>11, <1>12 DEF PositionInv

LEMMA ReadStep == \A k \in Conn : PositionInv /\ ReadSA(k) => PositionInv'
<1> SUFFICES ASSUME PositionInv, NEW k \in Conn, ReadSA(k)
             PROVE  PositionInv'
  OBVIOUS
<1>1. conn \in [Conn -> ConnType] /\ latest_sa \in [Conn -> Nat] /\ conn[k].pc = "loop"
  BY DEF PositionInv, Types, ReadSA, At
<1>2. /\ conn' = [conn EXCEPT ![k].pc = "sending", ![k].sent = conn[k].sent + 1]
      /\ latest_sa' = [latest_sa EXCEPT ![k] = conn[k].sent + 1]
      /\ UNCHANGED <<signals, hub, clients>>
  BY <1>1 DEF ReadSA
<1>3. /\ conn'[k].pc = "sending" /\ conn'[k].sent = conn[k].sent + 1
      /\ conn'[k].got = conn[k].got /\ conn'[k].rx = conn[k].rx /\ conn'[k].lagged = conn[k].lagged
      /\ \A p \in Conn : p # k => conn'[p] = conn[p]
      /\ conn' \in [Conn -> ConnType]
  BY SMT, <1>1, <1>2 DEF ConnType, PC, Talking
<1>4. Types'
  <2>1. latest_sa' \in [Conn -> Nat]
    BY SMT, <1>1, <1>2 DEF ConnType
  <2> QED BY <2>1, <1>2, <1>3 DEF PositionInv, Types
<1>5. \A p \in Conn : conn'[p].pc \in Early => Unheard(p)'
  <2> TAKE p \in Conn
  <2> HAVE conn'[p].pc \in Early
  <2>1. p # k /\ Unheard(p)
    BY <1>3 DEF PositionInv, Early
  <2> QED BY SMT, <2>1, <1>1, <1>2, <1>3 DEF Unheard
<1>6. \A p \in Conn : conn'[p].pc \in Listed => p \in clients'
  BY SMT, <1>1, <1>2, <1>3 DEF PositionInv, Listed, Talking
<1>7. \A p \in Conn : conn'[p].pc \in Talking => latest_sa'[p] = conn'[p].sent
  BY <1>1, <1>2, <1>3 DEF PositionInv, Types
<1>8. \A p \in Conn : conn'[p].pc \in Settled => Heard(p)'
  BY SMT, <1>1, <1>2, <1>3 DEF PositionInv, Heard, Settled
<1>9. ASSUME NEW c \in Conn, NEW p \in Conn, c # p, conn'[c].pc \in Talking,
             ~conn'[c].lagged, conn'[p].pc \in Settled
      PROVE  Knows(c, p)'
  <2>1. p # k /\ conn[c].pc \in Talking /\ conn'[c].rx = conn[c].rx /\ conn'[c].got = conn[c].got
    BY <1>1, <1>3, <1>9 DEF Talking, Settled
  <2>2. Knows(c, p)
    BY <2>1, <1>3, <1>9 DEF PositionInv
  <2> QED BY <2>1, <2>2, <1>2, <1>3 DEF Knows
<1>10. \A c \in Conn : conn'[c].rx <= Len(hub')
  BY <1>2, <1>3 DEF PositionInv
<1> QED BY <1>4, <1>5, <1>6, <1>7, <1>8, <1>9, <1>10 DEF PositionInv

LEMMA SendStep == \A k \in Conn : PositionInv /\ SendSA(k) => PositionInv'
<1> SUFFICES ASSUME PositionInv, NEW k \in Conn, SendSA(k)
             PROVE  PositionInv'
  OBVIOUS
<1> DEFINE msg == [sender |-> k, sa |-> conn[k].sent]
<1>1. conn \in [Conn -> ConnType] /\ hub \in Seq(Message) /\ conn[k].pc = "sending"
  BY DEF PositionInv, Types, SendSA, At
<1>2. /\ conn' = [conn EXCEPT ![k].pc = "loop"] /\ hub' = Append(hub, msg)
      /\ UNCHANGED <<signals, clients, latest_sa>>
  BY DEF SendSA
<1>3. msg \in Message /\ msg.sender = k /\ msg.sa = conn[k].sent
  BY <1>1 DEF Message, ConnType
<1> HIDE DEF msg
<1>4. /\ conn'[k].pc = "loop" /\ conn'[k].sent = conn[k].sent
      /\ conn'[k].got = conn[k].got /\ conn'[k].rx = conn[k].rx /\ conn'[k].lagged = conn[k].lagged
      /\ \A p \in Conn : p # k => conn'[p] = conn[p]
      /\ conn' \in [Conn -> ConnType]
  <2> DEFINE q == [conn[k] EXCEPT !.pc = "loop"]
  <2>1. conn' = [conn EXCEPT ![k] = q]
    BY <1>2
  <2>2. /\ q \in ConnType /\ q.pc = "loop" /\ q.sent = conn[k].sent
        /\ q.got = conn[k].got /\ q.rx = conn[k].rx /\ q.lagged = conn[k].lagged
    BY <1>1 DEF ConnType, PC, Talking
  <2> HIDE DEF q
  <2> QED BY <1>1, <2>1, <2>2
<1>5. /\ hub' \in Seq(Message) /\ Len(hub') = Len(hub) + 1 /\ Len(hub) \in Nat
      /\ hub'[Len(hub) + 1] = msg
      /\ \A i \in 1..Len(hub) : hub'[i] = hub[i]
  BY SMT, <1>1, <1>2, <1>3
<1>6. Types'
  BY <1>2, <1>4, <1>5 DEF PositionInv, Types
<1>7. \A p \in Conn : conn'[p].pc \in Early => Unheard(p)'
  <2> TAKE p \in Conn
  <2> HAVE conn'[p].pc \in Early
  <2>1. p # k /\ Unheard(p)
    BY <1>4 DEF PositionInv, Early
  <2>2. \A i \in 1..Len(hub') : hub'[i].sender # p
    BY SMT, <2>1, <1>3, <1>5 DEF Unheard
  <2> QED BY <2>1, <2>2, <1>2, <1>4 DEF Unheard
<1>8. \A p \in Conn : conn'[p].pc \in Listed => p \in clients'
  BY SMT, <1>1, <1>2, <1>4 DEF PositionInv, Listed, Talking
<1>9. \A p \in Conn : conn'[p].pc \in Talking => latest_sa'[p] = conn'[p].sent
  BY SMT, <1>1, <1>2, <1>4 DEF PositionInv, Talking
<1>10. \A p \in Conn : conn'[p].pc \in Settled => Heard(p)'
  <2> TAKE p \in Conn
  <2> HAVE conn'[p].pc \in Settled
  <2>1. CASE p = k
    <3>1. /\ Len(hub') \in 1..Len(hub') /\ hub'[Len(hub')].sender = p
          /\ hub'[Len(hub')].sa = conn'[p].sent
          /\ \A j \in Len(hub') + 1..Len(hub') : hub'[j].sender # p
      BY SMT, <2>1, <1>3, <1>4, <1>5
    <3> QED BY <3>1 DEF Heard
  <2>2. CASE p # k
    <3>1. Heard(p) /\ conn'[p] = conn[p]
      BY <2>2, <1>4 DEF PositionInv
    <3>2. CASE conn[p].sent = 0 /\ \A i \in 1..Len(hub) : hub[i].sender # p
      BY SMT, <3>1, <3>2, <2>2, <1>3, <1>5 DEF Heard
    <3>3. ASSUME NEW i \in 1..Len(hub), hub[i].sender = p, hub[i].sa = conn[p].sent,
                 \A j \in i+1..Len(hub) : hub[j].sender # p
          PROVE  Heard(p)'
      <4>1. \A j \in i+1..Len(hub') : hub'[j].sender # p
        BY SMT, <3>3, <2>2, <1>3, <1>5
      <4> QED BY SMT, <4>1, <3>1, <3>3, <1>5 DEF Heard
    <3> QED BY <3>1, <3>2, <3>3 DEF Heard
  <2> QED BY <2>1, <2>2
<1>11. ASSUME NEW c \in Conn, NEW p \in Conn, c # p, conn'[c].pc \in Talking,
              ~conn'[c].lagged, conn'[p].pc \in Settled
       PROVE  Knows(c, p)'
  <2>1. conn[c].pc \in Talking /\ conn'[c].rx = conn[c].rx /\ conn'[c].got = conn[c].got
          /\ conn'[p].sent = conn[p].sent /\ conn[c].rx \in Nat
    BY <1>1, <1>4, <1>11 DEF Talking, ConnType
  <2>2. CASE p = k
    <3>1. conn[c].rx <= Len(hub)
      BY DEF PositionInv
    <3>2. Len(hub) + 1 \in conn'[c].rx + 1 .. Len(hub') /\ hub'[Len(hub) + 1].sender = p
      BY SMT, <3>1, <2>1, <2>2, <1>3, <1>5
    <3> QED BY <3>2 DEF Knows
  <2>3. CASE p # k
    <3>1. Knows(c, p)
      BY <2>1, <2>3, <1>4, <1>11 DEF PositionInv
    <3> QED BY SMT, <3>1, <2>1, <1>5 DEF Knows
  <2> QED BY <2>2, <2>3
<1>12. \A c \in Conn : conn'[c].rx <= Len(hub')
  <2> TAKE c \in Conn
  <2>1. conn'[c].rx = conn[c].rx /\ conn[c].rx \in Nat /\ conn[c].rx <= Len(hub)
    BY <1>1, <1>4 DEF PositionInv, ConnType
  <2> QED BY SMT, <2>1, <1>5
<1> QED BY <1>6, <1>7, <1>8, <1>9, <1>10, <1>11, <1>12 DEF PositionInv

LEMMA ReceiveStep == \A k \in Conn : PositionInv /\ (Receive(k) \/ Lagged(k)) => PositionInv'
<1> SUFFICES ASSUME PositionInv, NEW k \in Conn, Receive(k) \/ Lagged(k)
             PROVE  PositionInv'
  OBVIOUS
<1> DEFINE n == conn[k].rx + 1
<1>1. /\ conn \in [Conn -> ConnType] /\ hub \in Seq(Message) /\ conn[k].pc = "loop"
      /\ conn[k] \in ConnType /\ n \in Nat /\ Len(hub) \in Nat
      /\ UNCHANGED <<signals, clients, latest_sa, hub>>
  BY SMTT(30) DEF PositionInv, Types, Receive, Lagged, At, ConnType
<1> DEFINE Moved(q) ==
             /\ conn' = [conn EXCEPT ![k] = q]
             /\ q.pc \in Settled /\ q.sent = conn[k].sent /\ q.rx <= Len(hub)
             /\ \A p \in Conn : p # k =>
                  \/ q.lagged /\ q.got = conn[k].got
                  \/ /\ n \in 1..Len(hub) /\ q.rx = n /\ q.lagged = conn[k].lagged
                     /\ q.got[p] = IF hub[n].sender = p THEN hub[n].sa ELSE conn[k].got[p]
<1>2. PICK q \in ConnType : Moved(q)
  <2>1. CASE Lagged(k)
    <3> DEFINE q == [conn[k] EXCEPT !.rx = Len(hub) - Capacity, !.lagged = TRUE]
    <3>1. conn' = [conn EXCEPT ![k] = q] /\ Len(hub) - conn[k].rx > Capacity
      BY <2>1, <1>1 DEF Lagged
    <3>2. Len(hub) - Capacity \in Nat /\ Len(hub) - Capacity <= Len(hub)
      BY SMT, <3>1, <1>1, SessionsAssumption DEF ConnType
    <3>3. /\ q \in ConnType /\ q.pc = "loop" /\ q.sent = conn[k].sent /\ q.rx <= Len(hub)
          /\ q.lagged /\ q.got = conn[k].got
      BY <3>2, <1>1 DEF ConnType
    <3> HIDE DEF q
    <3>4. Moved(q)
      BY <3>1, <3>3 DEF Settled
    <3> QED BY <3>3, <3>4
  <2>2. CASE Receive(k)
    <3>1. n \in 1..Len(hub)
      <4>1. conn[k].rx \in Nat /\ conn[k].rx < Len(hub)
        BY <2>2, <1>1 DEF Receive, ConnType
      <4> QED BY SMT, <4>1, <1>1
    <3>2. hub[n] \in Message
      BY SMT, <3>1, <1>1
    <3>3. hub[n].sender \in Conn /\ hub[n].sa \in Nat
      BY <3>2 DEF Message
    <3>4. CASE hub[n].sender = k
      <4> DEFINE q == [conn[k] EXCEPT !.rx = n]
      <4>1. conn' = [conn EXCEPT ![k] = q]
        BY <3>4, <2>2, <1>1 DEF Receive
      <4>2. /\ q \in ConnType /\ q.pc = "loop" /\ q.sent = conn[k].sent /\ q.rx = n
            /\ q.lagged = conn[k].lagged /\ q.got = conn[k].got
        BY <1>1 DEF ConnType
      <4> HIDE DEF q
      <4>3. Moved(q)
        BY SMT, <4>1, <4>2, <3>1, <3>4 DEF Settled
      <4> QED BY <4>2, <4>3
    <3>5. CASE hub[n].sender # k
      <4> DEFINE g == [conn[k].got EXCEPT ![hub[n].sender] = hub[n].sa]
                 q == [conn[k] EXCEPT !.rx = n, !.pc = "writing", !.got = g]
      <4>1. conn' = [conn EXCEPT ![k] = q]
        BY ZenonT(40), <3>5, <2>2 DEF Receive
      <4>2. /\ g \in [Conn -> Nat]
            /\ \A p \in Conn : g[p] = IF hub[n].sender = p THEN hub[n].sa ELSE conn[k].got[p]
        BY <3>3, <1>1 DEF ConnType
      <4> HIDE DEF g
      <4>3. /\ q \in ConnType /\ q.pc = "writing" /\ q.sent = conn[k].sent /\ q.rx = n
            /\ q.lagged = conn[k].lagged /\ q.got = g
        BY <4>2, <1>1 DEF ConnType, PC, Talking
      <4> HIDE DEF q
      <4>4. Moved(q)
        BY SMT, <4>1, <4>2, <4>3, <3>1 DEF Settled
      <4> QED BY <4>3, <4>4
    <3> QED BY <3>4, <3>5
  <2> QED BY <2>1, <2>2
<1>3. /\ conn'[k] = q /\ \A p \in Conn : p # k => conn'[p] = conn[p]
      /\ conn' \in [Conn -> ConnType]
  BY <1>1, <1>2
<1>4. Types'
  BY <1>1, <1>3 DEF PositionInv, Types
<1>5. \A p \in Conn : conn'[p].pc \in Early => Unheard(p)'
  <2> TAKE p \in Conn
  <2> HAVE conn'[p].pc \in Early
  <2>1. p # k /\ Unheard(p)
    BY <1>2, <1>3 DEF PositionInv, Early, Settled
  <2>2. q.got[p] = 0
    BY <2>1, <1>2 DEF Unheard
  <2> QED BY <2>1, <2>2, <1>1, <1>3 DEF Unheard
<1>6. \A p \in Conn : conn'[p].pc \in Listed => p \in clients'
  BY <1>1, <1>3 DEF PositionInv, Listed, Talking
<1>7. \A p \in Conn : conn'[p].pc \in Talking => latest_sa'[p] = conn'[p].sent
  <2> TAKE p \in Conn
  <2> HAVE conn'[p].pc \in Talking
  <2>1. conn'[p].sent = conn[p].sent /\ (conn[p].pc \in Talking)
    BY <1>1, <1>2, <1>3 DEF Talking
  <2> QED BY <1>1, <2>1 DEF PositionInv
<1>8. \A p \in Conn : conn'[p].pc \in Settled => Heard(p)'
  <2> TAKE p \in Conn
  <2> HAVE conn'[p].pc \in Settled
  <2>1. Heard(p) /\ conn'[p].sent = conn[p].sent
    BY SMT, <1>1, <1>2, <1>3 DEF PositionInv, Settled
  <2> QED BY <2>1, <1>1 DEF Heard
<1>9. ASSUME NEW c \in Conn, NEW p \in Conn, c # p, conn'[c].pc \in Talking,
             ~conn'[c].lagged, conn'[p].pc \in Settled
      PROVE  Knows(c, p)'
  <2>1. conn[p].pc \in Settled /\ conn'[p].sent = conn[p].sent
    BY <1>1, <1>2, <1>3, <1>9 DEF Settled
  <2>2. CASE c # k
    <3>1. Knows(c, p)
      BY <2>1, <2>2, <1>3, <1>9 DEF PositionInv
    <3> QED BY <3>1, <2>1, <2>2, <1>1, <1>3 DEF Knows
  <2>3. CASE c = k
    <3>1. /\ n \in 1..Len(hub) /\ q.rx = n /\ ~conn[k].lagged
          /\ q.got[p] = IF hub[n].sender = p THEN hub[n].sa ELSE conn[k].got[p]
      BY <2>3, <1>2, <1>3, <1>9
    <3>2. Knows(k, p) /\ Heard(p)
      BY <3>1, <2>1, <2>3, <1>1, <1>9 DEF PositionInv, Talking
    <3>3. CASE \E i \in n + 1 .. Len(hub) : hub[i].sender = p
      BY <3>1, <3>3, <2>3, <1>1, <1>3 DEF Knows
    <3>4. CASE /\ \A i \in n + 1 .. Len(hub) : hub[i].sender # p
               /\ hub[n].sender = p
      <4>1. PICK i \in 1..Len(hub) : /\ hub[i].sender = p /\ hub[i].sa = conn[p].sent
                                      /\ \A j \in i+1..Len(hub) : hub[j].sender # p
        BY <3>1, <3>2, <3>4 DEF Heard
      <4>2. i = n
        BY SMT, <4>1, <3>1, <3>4
      <4> QED BY <4>1, <4>2, <3>1, <3>4, <2>1, <2>3, <1>3 DEF Knows
    <3>5. CASE /\ \A i \in n + 1 .. Len(hub) : hub[i].sender # p
               /\ hub[n].sender # p
      <4>1. conn[k].got[p] = conn[p].sent
        BY SMT, <3>1, <3>2, <3>5, <1>1 DEF Knows
      <4> QED BY <4>1, <3>1, <3>5, <2>1, <2>3, <1>3 DEF Knows
    <3> QED BY <3>3, <3>4, <3>5
  <2> QED BY <2>2, <2>3
<1>10. \A c \in Conn : conn'[c].rx <= Len(hub')
  BY <1>1, <1>2, <1>3 DEF PositionInv
<1> QED BY <1>4, <1>5, <1>6, <1>7, <1>8, <1>9, <1>10 DEF PositionInv

LEMMA UnregisterStep == \A k \in Conn : PositionInv /\ Unregister(k) => PositionInv'
<1> SUFFICES ASSUME PositionInv, NEW k \in Conn, Unregister(k)
             PROVE  PositionInv'
  OBVIOUS
<1>1. /\ conn \in [Conn -> ConnType] /\ latest_sa \in [Conn -> Nat] /\ conn[k].pc = "leaving"
      /\ conn' = [conn EXCEPT ![k].pc = "closed"] /\ latest_sa' = [latest_sa EXCEPT ![k] = 0]
      /\ clients' = clients \ {k} /\ UNCHANGED <<signals, hub>>
  BY DEF PositionInv, Types, Unregister, At
<1>2. /\ conn'[k].pc = "closed" /\ conn'[k].got = conn[k].got /\ conn'[k].rx = conn[k].rx
      /\ \A p \in Conn : p # k => conn'[p] = conn[p] /\ latest_sa'[p] = latest_sa[p]
      /\ conn' \in [Conn -> ConnType] /\ latest_sa' \in [Conn -> Nat]
  <2> DEFINE q == [conn[k] EXCEPT !.pc = "closed"]
  <2>1. conn' = [conn EXCEPT ![k] = q] /\ conn[k] \in ConnType
    BY <1>1
  <2>2. q \in ConnType /\ q.pc = "closed" /\ q.got = conn[k].got /\ q.rx = conn[k].rx
    BY <2>1 DEF ConnType, PC
  <2> HIDE DEF q
  <2> QED BY <1>1, <2>1, <2>2
<1>3. Types'
  BY <1>1, <1>2 DEF PositionInv, Types
<1>4. \A p \in Conn : conn'[p].pc \in Early \cup Listed => p # k
  BY <1>2 DEF Early, Listed, Talking
<1>5. \A p \in Conn : conn'[p].pc \in Early => Unheard(p)'
  BY SMT, <1>1, <1>2, <1>4 DEF PositionInv, Unheard
<1>6. \A p \in Conn : conn'[p].pc \in Listed => p \in clients'
  BY <1>1, <1>2, <1>4 DEF PositionInv
<1>7. \A p \in Conn : conn'[p].pc \in Talking => latest_sa'[p] = conn'[p].sent
  BY <1>2, <1>4 DEF PositionInv, Listed
<1>8. \A p \in Conn : conn'[p].pc \in Settled => Heard(p)'
  BY SMT, <1>1, <1>2, <1>4 DEF PositionInv, Listed, Talking, Settled, Heard
<1>9. ASSUME NEW c \in Conn, NEW p \in Conn, c # p, conn'[c].pc \in Talking,
             ~conn'[c].lagged, conn'[p].pc \in Settled
      PROVE  Knows(c, p)'
  <2>1. conn'[c] = conn[c] /\ conn'[p] = conn[p]
    BY <1>2, <1>4, <1>9 DEF Listed, Talking, Settled
  <2>2. Knows(c, p)
    BY <2>1, <1>9 DEF PositionInv
  <2> QED BY <2>1, <2>2, <1>1 DEF Knows
<1>10. \A c \in Conn : conn'[c].rx <= Len(hub')
  BY <1>1, <1>2 DEF PositionInv
<1> QED BY <1>3, <1>5, <1>6, <1>7, <1>8, <1>9, <1>10 DEF PositionInv

LEMMA PositionInvNext == PositionInv /\ [Next]_vars => PositionInv'
<1> SUFFICES ASSUME PositionInv, [Next]_vars PROVE PositionInv'
  OBVIOUS
<1>1. ASSUME UNCHANGED <<hub, clients, latest_sa, conn>>,
             signals' \in [pending: Nat, sent: Nat]
      PROVE  PositionInv'
  BY SMT, <1>1 DEF PositionInv, Types, Unheard, Heard, Knows
<1>2. ASSUME NEW k \in Conn,
             \/ Accept(k) \/ HandshakeFails(k) \/ CheckAccess(k) \/ Register(k)
             \/ WatchRevocations(k) \/ RevocationBranch(k) \/ Written(k) \/ Disconnect(k)
      PROVE  PositionInv'
  <2>1. /\ conn \in [Conn -> ConnType] /\ conn[k] \in ConnType
        /\ conn[k].rx <= Len(hub) /\ Len(hub) \in Nat /\ signals.sent \in Nat
    BY SMT DEF PositionInv, Types
  <2>2. CASE Accept(k)
    <3> DEFINE q == [conn[k] EXCEPT !.pc = "accepted", !.rx = Len(hub)]
    <3>1. /\ conn[k].pc = "none" /\ conn' = [conn EXCEPT ![k] = q]
          /\ UNCHANGED <<signals, hub, latest_sa, clients>>
      BY <2>1, <2>2 DEF Accept, At
    <3>2. /\ q \in ConnType /\ q.pc = "accepted" /\ q.rx = Len(hub)
          /\ q.sent = conn[k].sent /\ q.got = conn[k].got /\ q.lagged = conn[k].lagged
      BY <2>1 DEF ConnType, PC, Early
    <3>3. conn[k].pc \in Early /\ q.pc \in Early /\ q.pc \notin Listed /\ q.rx <= Len(hub)
      BY SMT, <3>1, <3>2, <2>1 DEF Early, Listed, Talking
    <3> HIDE DEF q
    <3> QED BY <3>1, <3>2, <3>3, QuietStep
  <2>3. ASSUME NEW pc \in PC, NEW seen \in Nat,
               conn' = [conn EXCEPT ![k] = [conn[k] EXCEPT !.pc = pc, !.seen = seen]],
               UNCHANGED <<signals, hub, latest_sa>>, clients \subseteq clients',
               pc \in Listed => conn[k].pc \in Listed \/ k \in clients',
               \/ pc \in Early /\ conn[k].pc \in Early
               \/ pc \in {"leaving", "closed"}
               \/ pc \in Settled /\ conn[k].pc \in Settled
        PROVE  PositionInv'
    <3> DEFINE q == [conn[k] EXCEPT !.pc = pc, !.seen = seen]
    <3>1. /\ q \in ConnType /\ q.pc = pc /\ q.rx = conn[k].rx
          /\ q.sent = conn[k].sent /\ q.got = conn[k].got /\ q.lagged = conn[k].lagged
          /\ conn' = [conn EXCEPT ![k] = q]
      BY <2>1, <2>3 DEF ConnType
    <3> HIDE DEF q
    <3> QED BY <3>1, <2>1, <2>3, QuietStep
  <2>4. \A pc : [conn[k] EXCEPT !.pc = pc] = [conn[k] EXCEPT !.pc = pc, !.seen = conn[k].seen]
    BY <2>1 DEF ConnType
  <2>5. conn[k].seen \in Nat
    BY <2>1 DEF ConnType
  <2>6. CASE HandshakeFails(k)
    BY <2>1, <2>3, <2>4, <2>5, <2>6 DEF HandshakeFails, PC, Listed, Talking
  <2>7. CASE Disconnect(k)
    BY <2>1, <2>3, <2>4, <2>5, <2>7 DEF Disconnect, PC, Listed, Talking
  <2>8. CASE CheckAccess(k)
    BY <2>1, <2>3, <2>4, <2>5, <2>8 DEF CheckAccess, At, PC, Early, Listed, Talking
  <2>9. CASE Register(k)
    BY <2>1, <2>3, <2>4, <2>5, <2>9 DEF Register, At, PC, Early
  <2>10. CASE Written(k)
    BY <2>1, <2>3, <2>4, <2>5, <2>10 DEF Written, At, PC, Talking, Settled, Listed
  <2>11. CASE WatchRevocations(k)
    BY <2>1, <2>3, <2>11 DEF WatchRevocations, At, PC, Early, Listed
  <2>12. CASE RevocationBranch(k)
    <3> DEFINE pc == IF allowed[DeviceOf[k]] THEN "loop" ELSE "leaving"
    <3>1. /\ conn[k].pc = "loop" /\ UNCHANGED <<signals, hub, latest_sa, clients>>
          /\ conn' = [conn EXCEPT ![k] = [conn[k] EXCEPT !.pc = pc, !.seen = signals.sent]]
      BY <2>1, <2>12 DEF RevocationBranch, At, ConnType
    <3>2. pc \in {"loop", "leaving"}
      OBVIOUS
    <3> HIDE DEF pc
    <3> QED BY <3>1, <3>2, <2>1, <2>3 DEF PC, Talking, Settled, Listed
  <2> QED BY <1>2, <2>2, <2>6, <2>7, <2>8, <2>9, <2>10, <2>11, <2>12
<1>3. ASSUME NEW k \in Conn,
             \/ ReplayLatestSA(k) \/ ReadSA(k) \/ SendSA(k) \/ Lagged(k)
             \/ Receive(k) \/ Unregister(k)
      PROVE  PositionInv'
  BY <1>3, ReplayStep, ReadStep, SendStep, ReceiveStep, UnregisterStep
<1>4. CASE SignalRevocation \/ (\E d \in Device, b \in BOOLEAN : SetAllowed(d, b)) \/ UNCHANGED vars
  <2>1. UNCHANGED <<hub, clients, latest_sa, conn>> /\ signals' \in [pending: Nat, sent: Nat]
    BY SMT, <1>4 DEF PositionInv, Types, vars, SignalRevocation, SetAllowed
  <2> QED BY <2>1, <1>1
<1> QED
  BY <1>2, <1>3, <1>4 DEF Next, Setup

(***************************************************************************)
(* set_latest_sa before the send, and the hub's receiver before the replay: *)
(* no session ends up with an outdated position of another client.          *)
(***************************************************************************)
THEOREM NoPositionLostAlways == Spec => []NoPositionLost
<1>1. PositionInv => NoPositionLost
  <2> SUFFICES ASSUME PositionInv, NEW c \in Conn, NEW p \in Conn, c # p,
                      conn[c].pc \in Talking, ~conn[c].lagged, conn[p].pc \in Settled
               PROVE  /\ Coming(c, p) = {} => conn[c].got[p] = conn[p].sent
                      /\ \A i \in Coming(c, p) :
                           (\A j \in Coming(c, p) : j <= i) => hub[i].sa = conn[p].sent
    BY DEF NoPositionLost, Talking, Settled
  <2>1. Knows(c, p) /\ Heard(p) /\ conn[c].rx \in Nat /\ Len(hub) \in Nat
    BY SMTT(30) DEF PositionInv, Types, ConnType
  <2>2. Coming(c, p) = {} => conn[c].got[p] = conn[p].sent
    BY <2>1 DEF Knows, Coming
  <2>3. ASSUME NEW i \in Coming(c, p), \A j \in Coming(c, p) : j <= i
        PROVE  hub[i].sa = conn[p].sent
    <3>1. PICK l \in 1..Len(hub) : /\ hub[l].sender = p /\ hub[l].sa = conn[p].sent
                                    /\ \A j \in l+1..Len(hub) : hub[j].sender # p
      BY SMT, <2>1, <2>3 DEF Heard, Coming
    <3>2. i \in conn[c].rx + 1 .. Len(hub) /\ hub[i].sender = p
      BY DEF Coming
    <3>3. i <= l
      BY SMT, <3>1, <3>2, <2>1
    <3>4. l \in Coming(c, p)
      BY SMT, <3>1, <3>2, <3>3, <2>1 DEF Coming
    <3> QED BY SMT, <3>1, <3>2, <3>3, <3>4, <2>1, <2>3
  <2> QED BY <2>2, <2>3
<1> QED BY <1>1, PositionInvInit, PositionInvNext, PTL DEF Spec

-----------------------------------------------------------------------------
(***************************************************************************)
(* The table of latest events.                                              *)
(***************************************************************************)
Tables == UNION {[us -> Nat] : us \in SUBSET Uid}

Upto(t, n) == \A u \in DOMAIN t : t[u] <= n

TableTypes ==
  /\ events \in Tables
  /\ dirty \in BOOLEAN /\ missed \in BOOLEAN /\ fresh \in BOOLEAN
  /\ clock \in Nat
  /\ save \in [pc: {"idle", "write", "rename"}, table: Tables]
  /\ disk \in [whole: BOOLEAN, table: Tables]
  /\ last \in [Uid -> Nat]

(***************************************************************************)
(* No table, on its way to the disk or there, is ahead of the clock: what a *)
(* restart loads is older than what is recorded then.  The table has the    *)
(* last time of each uid in it.                                             *)
(***************************************************************************)
AgeInv ==
  /\ Upto(events, clock) /\ Upto(save.table, clock) /\ Upto(disk.table, clock)
  /\ \A u \in DOMAIN events : last[u] = events[u]
  /\ \A u \in Uid : last[u] <= clock
  /\ OldestForgottenFirst

(***************************************************************************)
(* A save under way writes the table as it is, unless it is dirty again.    *)
(***************************************************************************)
SaveInv ==
  /\ CleanIsSaved
  /\ save # Idle /\ ~dirty => save.table = events

-----------------------------------------------------------------------------
LEMMA TableFacts ==
  ASSUME NEW t \in Tables
  PROVE  /\ DOMAIN t \subseteq Uid
         /\ \A u \in DOMAIN t : t[u] \in Nat
BY DEF Tables

LEMMA NoEventsTable == NoEvents \in Tables /\ DOMAIN NoEvents = {}
<1>1. NoEvents \in [{} -> Nat] /\ DOMAIN NoEvents = {}
  BY SMT DEF NoEvents
<1>2. {} \in SUBSET Uid
  OBVIOUS
<1> QED
  BY <1>1, <1>2 DEF Tables

(***************************************************************************)
(* record: the new table has the new event and, of the old ones, all or all *)
(* but one of the oldest.                                                   *)
(***************************************************************************)
LEMMA RecordedFacts ==
  ASSUME NEW e \in Tables, NEW u \in Uid, NEW t \in Recorded(e, u), clock \in Nat
  PROVE  /\ t \in Tables
         /\ u \in DOMAIN t /\ t[u] = clock
         /\ \A v \in DOMAIN t : v # u => v \in DOMAIN e /\ t[v] = e[v]
         /\ \A v \in DOMAIN e : v \notin DOMAIN t => v \in Oldest(e)
<1>1. PICK k \in SUBSET DOMAIN e :
        /\ t = [v \in k \cup {u} |-> IF v = u THEN clock ELSE e[v]]
        /\ \A v \in DOMAIN e : v \notin k => v \in Oldest(e)
  <2> DEFINE full == Cardinality(DOMAIN e) >= MAX_UIDS /\ u \notin DOMAIN e
             kept == IF full THEN {(DOMAIN e) \ {v} : v \in Oldest(e)} ELSE {DOMAIN e}
  <2>1. PICK k \in kept : t = [v \in k \cup {u} |-> IF v = u THEN clock ELSE e[v]]
    BY DEF Recorded
  <2>2. k = DOMAIN e \/ \E w \in Oldest(e) : k = (DOMAIN e) \ {w}
    BY <2>1
  <2> QED
    BY <2>1, <2>2
<1>2. k \cup {u} \in SUBSET Uid /\ \A v \in k : e[v] \in Nat
  BY <1>1, TableFacts
<1>3. t \in [k \cup {u} -> Nat] /\ DOMAIN t = k \cup {u}
  BY <1>1, <1>2
<1>4. t \in Tables
  BY <1>2, <1>3 DEF Tables
<1> QED
  BY <1>1, <1>3, <1>4

-----------------------------------------------------------------------------
LEMMA TableTypesInit == TableInit => TableTypes
<1> SUFFICES ASSUME TableInit
             PROVE  TableTypes
  OBVIOUS
<1>1. Idle \in [pc: {"idle", "write", "rename"}, table: Tables]
  BY NoEventsTable DEF Idle
<1>2. [whole |-> TRUE, table |-> NoEvents] \in [whole: BOOLEAN, table: Tables]
  BY NoEventsTable
<1> QED
  BY <1>1, <1>2, NoEventsTable DEF TableInit, TableTypes

LEMMA TableTypesNext == TableTypes /\ [TableNext]_tableVars => TableTypes'
<1> SUFFICES ASSUME TableTypes, [TableNext]_tableVars
             PROVE  TableTypes'
  OBVIOUS
<1> USE DEF TableTypes, tableFiles
<1>1. ASSUME NEW u \in Uid, Record(u)
      PROVE  TableTypes'
  BY <1>1, RecordedFacts DEF Record
<1>2. CASE Tick
  BY SMT, <1>2 DEF Tick
<1>3. CASE TakeSnapshot
  BY <1>3 DEF TakeSnapshot
<1>4. CASE WriteTmp
  BY <1>4 DEF WriteTmp
<1>5. CASE Rename
  BY <1>5, NoEventsTable DEF Rename, Idle
<1>6. CASE SaveFails
  BY <1>6, NoEventsTable DEF SaveFails, Idle
<1>7. CASE WriteBack
  BY <1>7 DEF WriteBack
<1>8. ASSUME NEW d \in [whole: BOOLEAN, table: Tables], Load(d), fresh' \in BOOLEAN
      PROVE  TableTypes'
  <2>1. events' \in Tables
    BY <1>8, NoEventsTable DEF Load
  <2>2. last' \in [Uid -> Nat]
    BY <1>8, <2>1, TableFacts DEF Load
  <2> QED
    BY <1>8, <2>1, <2>2, NoEventsTable DEF Load, Idle
<1>9. CASE TableCrash
  BY <1>8, <1>9 DEF TableCrash
<1>10. CASE TableLost
  <2>1. Damaged \in [whole: BOOLEAN, table: Tables]
    BY NoEventsTable DEF Damaged
  <2> QED
    BY <1>8, <1>10, <2>1 DEF TableLost
<1>11. CASE UNCHANGED tableVars
  BY <1>11 DEF tableVars
<1> QED
  BY <1>1, <1>2, <1>3, <1>4, <1>5, <1>6, <1>7, <1>9, <1>10, <1>11 DEF TableNext, Save

-----------------------------------------------------------------------------
LEMMA AgeInit == TableInit => AgeInv
BY SMT, NoEventsTable DEF TableInit, AgeInv, Upto, Idle, OldestForgottenFirst

LEMMA AgeNext == TableTypes /\ AgeInv /\ [TableNext]_tableVars => AgeInv'
<1> SUFFICES ASSUME TableTypes, AgeInv, [TableNext]_tableVars
             PROVE  AgeInv'
  OBVIOUS
<1>0. /\ clock \in Nat /\ events \in Tables /\ save.table \in Tables
      /\ disk.table \in Tables /\ last \in [Uid -> Nat]
  BY DEF TableTypes
<1>1. ASSUME NEW u \in Uid, Record(u)
      PROVE  AgeInv'
  <2>1. /\ events' \in Tables /\ u \in DOMAIN events' /\ events'[u] = clock
        /\ \A v \in DOMAIN events' : v # u => v \in DOMAIN events /\ events'[v] = events[v]
        /\ \A v \in DOMAIN events : v \notin DOMAIN events' => v \in Oldest(events)
    BY SMT, <1>0, <1>1, RecordedFacts DEF Record
  <2>2. last' = [last EXCEPT ![u] = clock] /\ UNCHANGED <<clock, save, disk>>
    BY <1>1 DEF Record, tableFiles
  <2>3. DOMAIN events' \subseteq Uid /\ \A v \in DOMAIN events : events[v] \in Nat
    BY <1>0, <2>1, TableFacts
  <2>4. Upto(events', clock) /\ \A v \in DOMAIN events' : last'[v] = events'[v]
    BY SMT, <1>0, <2>1, <2>2, <2>3 DEF AgeInv, Upto
  <2>5. \A v \in Uid : last'[v] <= clock
    BY SMT, <1>0, <2>2 DEF AgeInv
  <2>6. ASSUME NEW w \in DOMAIN events', NEW v \in Uid \ DOMAIN events'
        PROVE  last'[v] <= events'[w]
    <3>1. v # u /\ last'[v] = last[v]
      BY <1>0, <2>1, <2>2, <2>6
    <3>2. CASE w = u
      BY <2>1, <2>5, <3>2
    <3>3. CASE w # u /\ v \notin DOMAIN events
      BY <2>1, <2>6, <3>1, <3>3 DEF AgeInv, OldestForgottenFirst
    <3>4. CASE w # u /\ v \in DOMAIN events
      <4>1. v \in Oldest(events) /\ w \in DOMAIN events /\ events'[w] = events[w]
        BY <2>1, <2>6, <3>4
      <4> QED
        BY <3>1, <3>4, <4>1 DEF AgeInv, Oldest
    <3> QED
      BY <3>2, <3>3, <3>4
  <2> QED
    BY <2>2, <2>4, <2>5, <2>6 DEF AgeInv, Upto, OldestForgottenFirst
<1>2. CASE Tick
  <2>1. clock' = clock + 1 /\ UNCHANGED <<events, save, disk, last>>
    BY <1>2 DEF Tick, tableFiles
  <2>2. ASSUME NEW t \in Tables, Upto(t, clock)
        PROVE  Upto(t, clock + 1)
    BY SMT, <1>0, <2>2, TableFacts DEF Upto
  <2>3. \A u \in Uid : last'[u] <= clock'
    BY SMT, <1>0, <2>1 DEF AgeInv
  <2> QED
    BY <1>0, <2>1, <2>2, <2>3 DEF AgeInv, OldestForgottenFirst
<1>3. CASE TakeSnapshot
  BY <1>3 DEF TakeSnapshot, AgeInv, Upto, OldestForgottenFirst
<1>4. CASE WriteTmp
  BY <1>4 DEF WriteTmp, AgeInv, Upto, OldestForgottenFirst, TableTypes
<1>5. CASE Rename
  BY <1>5, NoEventsTable DEF Rename, AgeInv, Upto, OldestForgottenFirst, Idle
<1>6. CASE SaveFails
  BY <1>6, NoEventsTable DEF SaveFails, AgeInv, Upto, OldestForgottenFirst, Idle
<1>7. CASE WriteBack
  BY <1>7 DEF WriteBack, AgeInv, Upto, OldestForgottenFirst
<1>8. ASSUME NEW d \in [whole: BOOLEAN, table: Tables], Upto(d.table, clock), Load(d)
      PROVE  AgeInv'
  <2>1. events' \in Tables /\ Upto(events', clock)
    BY <1>8, NoEventsTable DEF Load, Upto
  <2>2. DOMAIN events' \subseteq Uid /\ \A u \in DOMAIN events' : events'[u] \in Nat
    BY <2>1, TableFacts
  <2>3. /\ clock' = clock /\ save' = Idle /\ disk' = d
        /\ last' = [u \in Uid |-> IF u \in DOMAIN events' THEN events'[u] ELSE 0]
    BY <1>8 DEF Load
  <2>4. Upto(save'.table, clock)
    BY <2>3, NoEventsTable DEF Idle, Upto
  <2>5. \A u \in Uid : last'[u] <= clock
    BY SMT, <1>0, <2>1, <2>3 DEF Upto
  <2>6. \A u \in DOMAIN events' : last'[u] = events'[u]
    BY <2>2, <2>3
  <2>7. OldestForgottenFirst'
    BY SMT, <2>2, <2>3 DEF OldestForgottenFirst
  <2> QED
    BY <1>8, <2>1, <2>3, <2>4, <2>5, <2>6, <2>7 DEF AgeInv, Upto
<1>9. CASE TableCrash
  BY <1>8, <1>9 DEF TableCrash, TableTypes, AgeInv
<1>10. CASE TableLost
  <2>1. Damaged \in [whole: BOOLEAN, table: Tables] /\ Upto(Damaged.table, clock)
    BY NoEventsTable DEF Damaged, Upto
  <2> QED
    BY <1>8, <1>10, <2>1 DEF TableLost
<1>11. CASE UNCHANGED tableVars
  BY <1>11 DEF tableVars, tableFiles, AgeInv, Upto, OldestForgottenFirst
<1> QED
  BY <1>1, <1>2, <1>3, <1>4, <1>5, <1>6, <1>7, <1>9, <1>10, <1>11 DEF TableNext, Save

-----------------------------------------------------------------------------
LEMMA SaveInit == TableInit => SaveInv
BY DEF TableInit, SaveInv, CleanIsSaved

LEMMA SaveNext == TableTypes /\ SaveInv /\ [TableNext]_tableVars => SaveInv'
<1> SUFFICES ASSUME TableTypes, SaveInv, [TableNext]_tableVars
             PROVE  SaveInv'
  OBVIOUS
<1>1. ASSUME NEW u \in Uid, Record(u)
      PROVE  SaveInv'
  BY <1>1 DEF Record, SaveInv, CleanIsSaved
<1>2. CASE Tick
  BY <1>2 DEF Tick, SaveInv, CleanIsSaved, tableFiles
<1>3. CASE TakeSnapshot
  BY <1>3 DEF TakeSnapshot, SaveInv, CleanIsSaved, Idle
<1>4. CASE WriteTmp
  <2>1. save # Idle /\ save' # Idle /\ save'.table = save.table
    BY SMT, <1>4 DEF WriteTmp, Idle, TableTypes
  <2> QED
    BY <1>4, <2>1 DEF WriteTmp, SaveInv, CleanIsSaved
<1>5. CASE Rename
  <2>1. save # Idle
    BY SMT, <1>5 DEF Rename, Idle
  <2> QED
    BY <1>5, <2>1 DEF Rename, SaveInv, CleanIsSaved
<1>6. CASE SaveFails
  BY <1>6 DEF SaveFails, SaveInv, CleanIsSaved
<1>7. CASE WriteBack
  BY <1>7 DEF WriteBack, SaveInv, CleanIsSaved
<1>8. ASSUME NEW d \in [whole: BOOLEAN, table: Tables], Load(d)
      PROVE  SaveInv'
  <2>1. CASE d.whole
    <3>1. d = [whole |-> TRUE, table |-> d.table]
      BY <2>1
    <3> QED
      BY <1>8, <2>1, <3>1 DEF Load, SaveInv, CleanIsSaved
  <2>2. CASE ~d.whole
    BY <1>8, <2>2 DEF Load, SaveInv, CleanIsSaved
  <2> QED
    BY <2>1, <2>2
<1>9. CASE TableCrash
  BY <1>8, <1>9 DEF TableCrash, TableTypes
<1>10. CASE TableLost
  <2>1. Damaged \in [whole: BOOLEAN, table: Tables]
    BY NoEventsTable DEF Damaged
  <2> QED
    BY <1>8, <1>10, <2>1 DEF TableLost
<1>11. CASE UNCHANGED tableVars
  BY <1>11 DEF tableVars, tableFiles, SaveInv, CleanIsSaved
<1> QED
  BY <1>1, <1>2, <1>3, <1>4, <1>5, <1>6, <1>7, <1>9, <1>10, <1>11 DEF TableNext, Save

-----------------------------------------------------------------------------
(***************************************************************************)
(* record forgets the oldest first: over any number of evictions, saves and *)
(* restarts, no uid that was forgotten was recorded later than one that is  *)
(* remembered.                                                              *)
(***************************************************************************)
THEOREM OldestForgottenFirstAlways == TableSpec => []OldestForgottenFirst
<1>1. TableInit => TableTypes /\ AgeInv
  BY TableTypesInit, AgeInit
<1>2. TableTypes /\ AgeInv /\ [TableNext]_tableVars => (TableTypes /\ AgeInv)'
  BY TableTypesNext, AgeNext
<1>3. AgeInv => OldestForgottenFirst
  BY DEF AgeInv
<1> QED
  BY <1>1, <1>2, <1>3, PTL DEF TableSpec

(***************************************************************************)
(* save_if_dirty: when nothing is dirty, no save is under way and the last  *)
(* one did not fail, the file is what memory has, whatever was recorded     *)
(* while it was written.                                                    *)
(***************************************************************************)
THEOREM CleanIsSavedAlways == TableSpec => []CleanIsSaved
<1>1. TableInit => TableTypes /\ SaveInv
  BY TableTypesInit, SaveInit
<1>2. TableTypes /\ SaveInv /\ [TableNext]_tableVars => (TableTypes /\ SaveInv)'
  BY TableTypesNext, SaveNext
<1>3. SaveInv => CleanIsSaved
  BY DEF SaveInv
<1> QED
  BY <1>1, <1>2, <1>3, PTL DEF TableSpec

-----------------------------------------------------------------------------
(***************************************************************************)
(* The bound on the table holds for every table: the one in memory, the one *)
(* that is being saved and the one that a restart loads.                    *)
(***************************************************************************)
Bounded(t) ==
  /\ IsFiniteSet(DOMAIN t) /\ Cardinality(DOMAIN t) <= MAX_UIDS
  /\ \A u \in DOMAIN t : t[u] \in 1..MaxTime

LimitInv ==
  /\ Bounded(events) /\ Bounded(save.table) /\ Bounded(disk.table)
  /\ clock \in 1..MaxTime /\ last \in [Uid -> 0..MaxTime]
  /\ faults \in 0..MaxFaults

LEMMA NoEventsBounded == Bounded(NoEvents)
<1>1. Cardinality(DOMAIN NoEvents) = 0 /\ IsFiniteSet(DOMAIN NoEvents)
  BY NoEventsTable, FS_EmptySet
<1> QED
  BY SMT, <1>1, NoEventsTable, TableAssumption DEF Bounded

\* record drops one before it adds one to a full table.
LEMMA RecordedBounded ==
  ASSUME NEW e \in Tables, Bounded(e), NEW u \in Uid, NEW t \in Recorded(e, u),
         clock \in 1..MaxTime
  PROVE  Bounded(t)
<1> DEFINE d == DOMAIN e
           full == Cardinality(d) >= MAX_UIDS /\ u \notin d
           kept == IF full THEN {d \ {v} : v \in Oldest(e)} ELSE {d}
<1>1. PICK k \in kept : t = [v \in k \cup {u} |-> IF v = u THEN clock ELSE e[v]]
  BY DEF Recorded
<1>2. \/ ~full /\ k = d
      \/ full /\ \E w \in d : k = d \ {w}
  BY <1>1 DEF Oldest
<1>3. full <=> Cardinality(d) >= MAX_UIDS /\ u \notin d
  OBVIOUS
<1>4. IsFiniteSet(d) /\ Cardinality(d) \in Nat /\ Cardinality(d) <= MAX_UIDS
  BY FS_CardinalityType DEF Bounded
<1> HIDE DEF full, kept, d
<1>5. /\ IsFiniteSet(k) /\ Cardinality(k) \in Nat
      /\ k \subseteq d /\ (u \notin k => Cardinality(k) + 1 <= MAX_UIDS)
      /\ Cardinality(k) <= MAX_UIDS
  <2>1. CASE ~full /\ k = d
    BY SMT, <1>3, <1>4, <2>1, TableAssumption
  <2>2. CASE full /\ \E w \in d : k = d \ {w}
    <3>0. PICK w \in d : k = d \ {w}
      BY <2>2
    <3>1. IsFiniteSet(d \ {w}) /\ Cardinality(d \ {w}) = IF w \in d THEN Cardinality(d) - 1 ELSE Cardinality(d)
      BY <1>4, FS_RemoveElement
    <3>2. Cardinality(d \ {w}) \in Nat
      BY <3>1, FS_CardinalityType
    <3> QED
      BY SMT, <1>4, <3>0, <3>1, <3>2, TableAssumption
  <2> QED
    BY <1>2, <2>1, <2>2
<1>6. IsFiniteSet(k \cup {u}) /\ Cardinality(k \cup {u}) = IF u \in k THEN Cardinality(k) ELSE Cardinality(k) + 1
  BY <1>5, FS_AddElement
<1>7. Cardinality(k \cup {u}) <= MAX_UIDS
  BY <1>5, <1>6
<1>8. DOMAIN t = k \cup {u} /\ \A v \in k \cup {u} : t[v] = IF v = u THEN clock ELSE e[v]
  BY <1>1
<1>9. \A v \in DOMAIN t : t[v] \in 1..MaxTime
  BY <1>5, <1>8 DEF Bounded, d
<1> QED
  BY <1>6, <1>7, <1>8, <1>9 DEF Bounded

LEMMA LimitInit == TableInit => LimitInv
<1> SUFFICES ASSUME TableInit
             PROVE  LimitInv
  OBVIOUS
<1>1. events = NoEvents /\ save.table = NoEvents /\ disk.table = NoEvents
  BY DEF TableInit, Idle
<1>2. clock \in 1..MaxTime /\ last \in [Uid -> 0..MaxTime] /\ faults \in 0..MaxFaults
  BY SMT, TableAssumption DEF TableInit
<1> QED
  BY <1>1, <1>2, NoEventsBounded DEF LimitInv

LEMMA LimitNext == TableTypes /\ LimitInv /\ [TableNext]_tableVars => LimitInv'
<1> SUFFICES ASSUME TableTypes, LimitInv, [TableNext]_tableVars
             PROVE  LimitInv'
  OBVIOUS
<1>0. Idle.table = NoEvents
  BY DEF Idle
<1>1. ASSUME NEW u \in Uid, Record(u)
      PROVE  LimitInv'
  <2>1. Bounded(events')
    BY <1>1, RecordedBounded DEF Record, TableTypes, LimitInv
  <2>2. last' \in [Uid -> 0..MaxTime]
    BY SMT, <1>1, TableAssumption DEF Record, LimitInv
  <2> QED
    BY <1>1, <2>1, <2>2 DEF Record, LimitInv, Bounded, tableFiles
<1>2. CASE Tick
  <2>1. clock' \in 1..MaxTime
    BY SMT, <1>2, TableAssumption DEF Tick, LimitInv
  <2> QED
    BY <1>2, <2>1 DEF Tick, LimitInv, Bounded, tableFiles
<1>3. CASE TakeSnapshot
  BY <1>3 DEF TakeSnapshot, LimitInv, Bounded
<1>4. CASE WriteTmp
  <2>1. save'.table = save.table
    BY <1>4 DEF WriteTmp, TableTypes
  <2> QED
    BY <1>4, <2>1 DEF WriteTmp, LimitInv, Bounded
<1>5. CASE Rename
  BY <1>0, <1>5, NoEventsBounded DEF Rename, LimitInv, Bounded
<1>6. CASE SaveFails
  <2>1. faults' \in 0..MaxFaults
    BY SMT, <1>6, TableAssumption DEF SaveFails, Fault, LimitInv
  <2> QED
    BY <1>0, <1>6, <2>1, NoEventsBounded DEF SaveFails, LimitInv, Bounded
<1>7. CASE WriteBack
  BY <1>7 DEF WriteBack, LimitInv, Bounded
<1>8. ASSUME NEW d \in [whole: BOOLEAN, table: Tables], Bounded(d.table), Load(d)
      PROVE  LimitInv'
  <2>1. faults' \in 0..MaxFaults
    <3>1. faults < MaxFaults /\ faults' = faults + 1
      BY <1>8 DEF Load, Fault
    <3> QED BY SMT, <3>1, TableAssumption DEF LimitInv
  <2>2. Bounded(events') /\ DOMAIN events' \subseteq Uid
    BY <1>8, NoEventsBounded, NoEventsTable, TableFacts DEF Load
  <2>3. last' \in [Uid -> 0..MaxTime]
    <3>1. last' = [u \in Uid |-> IF u \in DOMAIN events' THEN events'[u] ELSE 0]
      BY <1>8 DEF Load
    <3>2. \A u \in DOMAIN events' : events'[u] \in 0..MaxTime
      BY SMT, <2>2, TableAssumption DEF Bounded
    <3> QED
      BY SMT, <3>1, <3>2, TableAssumption
  <2>4. save'.table = NoEvents /\ disk' = d /\ clock' = clock
    BY <1>0, <1>8 DEF Load
  <2> QED
    BY <1>8, <2>1, <2>2, <2>3, <2>4, NoEventsBounded DEF LimitInv, Bounded
<1>9. CASE TableCrash
  BY <1>8, <1>9 DEF TableCrash, TableTypes, LimitInv
<1>10. CASE TableLost
  <2>1. Damaged \in [whole: BOOLEAN, table: Tables] /\ Bounded(Damaged.table)
    BY NoEventsTable, NoEventsBounded DEF Damaged
  <2> QED
    BY <1>8, <1>10, <2>1 DEF TableLost
<1>11. CASE UNCHANGED tableVars
  BY <1>11 DEF tableVars, tableFiles, LimitInv, Bounded
<1> QED
  BY <1>1, <1>2, <1>3, <1>4, <1>5, <1>6, <1>7, <1>9, <1>10, <1>11 DEF TableNext, Save

(***************************************************************************)
(* The table of latest events: never more than MAX_UIDS, the newest kept,   *)
(* and on the disk when it is clean.                                        *)
(***************************************************************************)
THEOREM LatestKeptAlways == TableSpec => []LatestKept
<1> DEFINE Inv == TableTypes /\ LimitInv
<1>1. TableInit => Inv
  BY TableTypesInit, LimitInit
<1>2. Inv /\ [TableNext]_tableVars => Inv'
  BY TableTypesNext, LimitNext
<1>3. Inv => TableTypeOK
  <2> SUFFICES ASSUME Inv
               PROVE  TableTypeOK
    OBVIOUS
  <2>1. ASSUME NEW t \in Tables, Bounded(t)
        PROVE  t \in Table
    <3>1. DOMAIN t \in SUBSET Uid /\ t \in [DOMAIN t -> 1..MaxTime]
      BY <2>1 DEF Tables, Bounded
    <3> QED
      BY <3>1 DEF Table
  <2>2. events \in Table /\ save.table \in Table /\ disk.table \in Table
    BY <2>1 DEF TableTypes, LimitInv
  <2>3. save \in [pc: {"idle", "write", "rename"}, table: Table]
    BY <2>2 DEF TableTypes
  <2>4. disk \in [whole: BOOLEAN, table: Table]
    BY <2>2 DEF TableTypes
  <2>5. /\ Cardinality(DOMAIN events) <= MAX_UIDS
        /\ clock \in 1..MaxTime /\ last \in [Uid -> 0..MaxTime] /\ faults \in 0..MaxFaults
    BY DEF LimitInv, Bounded
  <2>6. dirty \in BOOLEAN /\ fresh \in BOOLEAN /\ missed \in BOOLEAN
    BY DEF TableTypes
  <2> QED
    BY <2>2, <2>3, <2>4, <2>5, <2>6 DEF TableTypeOK
<1> HIDE DEF Inv
<1>4. TableSpec => []TableTypeOK
  BY <1>1, <1>2, <1>3, PTL DEF TableSpec
<1> QED
  BY <1>4, OldestForgottenFirstAlways, CleanIsSavedAlways, PTL DEF LatestKept
=============================================================================
