------------------------------ MODULE Sessions ------------------------------
(***************************************************************************)
(* Live mTLS sessions: TlsServer::run and handle_client                     *)
(* (src/src/transport/tls.rs) with the relay hub (src/src/transport/hub.rs),*)
(* the connected clients (src/src/transport/connections.rs) and the         *)
(* registry's revocation signal (src/src/registry.rs).                      *)
(*                                                                          *)
(* A connection's task takes one step per lock acquisition or await.  The   *)
(* messages are position reports (SA), the ones that the server keeps for   *)
(* clients that connect later; everyone is in one group (see Groups), and a *)
(* device has one name, one certificate and one client uid.                 *)
(***************************************************************************)
EXTENDS Integers, Sequences, FiniteSets

CONSTANTS Device,
          Conn,          \* connections
          DeviceOf,      \* the device of each
          Capacity,      \* the hub's capacity, DEFAULT_CAPACITY
          MaxSent,       \* bound: position reports
          MaxSignals     \* bound: blocks, revocations and unblocks

ASSUME SessionsAssumption ==
  /\ DeviceOf \in [Conn -> Device]
  /\ Capacity \in Nat \ {0} /\ MaxSent \in Nat /\ MaxSignals \in Nat

VARIABLES
  allowed,     \* DeviceRegistry::access, per device
  signals,     \* [pending, sent]: signal_revocation calls due and done
  hub,         \* every message sent to the hub, from the first
  clients,     \* ConnectedClients: the registered connections
  latest_sa,   \* ConnectedClients: the latest SA of a connection, 0 if none
  conn         \* the connection tasks

vars == <<allowed, signals, hub, clients, latest_sa, conn>>

Session == {"subscribed", "loop", "sending", "writing"}

Message == [sender: Conn, sa: Nat]

TypeOK ==
  /\ allowed \in [Device -> BOOLEAN]
  /\ signals \in [pending: Nat, sent: Nat]
  /\ hub \in Seq(Message)
  /\ clients \subseteq Conn
  /\ latest_sa \in [Conn -> Nat]
  /\ conn \in [Conn -> [pc: {"none", "accepted", "allowed", "registered", "leaving",
                             "closed"} \cup Session,
                        rx: Nat,          \* hub messages received
                        seen: Nat,        \* the signal seen last
                        sent: Nat,        \* the client's SAs so far
                        got: [Conn -> Nat],  \* the SA last written, per sender
                        lagged: BOOLEAN]]

NewConn == [pc |-> "none", rx |-> 0, seen |-> 0, sent |-> 0,
            got |-> [c \in Conn |-> 0], lagged |-> FALSE]

Init ==
  /\ allowed = [d \in Device |-> TRUE]
  /\ signals = [pending |-> 0, sent |-> 0]
  /\ hub = <<>>
  /\ clients = {}
  /\ latest_sa = [c \in Conn |-> 0]
  /\ conn = [c \in Conn |-> NewConn]

At(c, pc) == conn[c].pc = pc
InSession(c) == conn[c].pc \in Session

-----------------------------------------------------------------------------
(***************************************************************************)
(* The registry: revoke, revoke_cert and unblock change the state under the *)
(* lock and signal after it is released.                                    *)
(***************************************************************************)
SetAllowed(d, b) ==
  /\ signals.pending + signals.sent < MaxSignals
  /\ allowed' = [allowed EXCEPT ![d] = b]
  /\ signals' = [signals EXCEPT !.pending = @ + 1]
  /\ UNCHANGED <<hub, clients, latest_sa, conn>>

SignalRevocation ==
  /\ signals.pending > 0
  /\ signals' = [pending |-> signals.pending - 1, sent |-> signals.sent + 1]
  /\ UNCHANGED <<allowed, hub, clients, latest_sa, conn>>

-----------------------------------------------------------------------------
(***************************************************************************)
(* A connection up to its session.                                          *)
(***************************************************************************)
\* run: the task subscribes to the hub when the connection is accepted.
Accept(c) ==
  /\ At(c, "none")
  /\ conn' = [conn EXCEPT ![c].pc = "accepted", ![c].rx = Len(hub)]
  /\ UNCHANGED <<allowed, signals, hub, clients, latest_sa>>

\* Not admitted, a failed handshake or its timeout.
HandshakeFails(c) ==
  /\ At(c, "accepted")
  /\ conn' = [conn EXCEPT ![c].pc = "closed"]
  /\ UNCHANGED <<allowed, signals, hub, clients, latest_sa>>

CheckAccess(c) ==
  /\ At(c, "accepted")
  /\ conn' = [conn EXCEPT ![c].pc = IF allowed[DeviceOf[c]] THEN "allowed" ELSE "closed"]
  /\ UNCHANGED <<allowed, signals, hub, clients, latest_sa>>

Register(c) ==
  /\ At(c, "allowed")
  /\ clients' = clients \cup {c}
  /\ conn' = [conn EXCEPT ![c].pc = "registered"]
  /\ UNCHANGED <<allowed, signals, hub, latest_sa>>

\* registry.revocations(): a receiver that has seen the current signal.
WatchRevocations(c) ==
  /\ At(c, "registered")
  /\ conn' = [conn EXCEPT ![c].pc = "subscribed", ![c].seen = signals.sent]
  /\ UNCHANGED <<allowed, signals, hub, clients, latest_sa>>

\* latestSA: the position of every client that is connected.
ReplayLatestSA(c) ==
  /\ At(c, "subscribed")
  /\ conn' = [conn EXCEPT ![c].pc = "loop",
       ![c].got = [p \in Conn |-> IF p \in clients \ {c} THEN latest_sa[p] ELSE 0]]
  /\ UNCHANGED <<allowed, signals, hub, clients, latest_sa>>

-----------------------------------------------------------------------------
(***************************************************************************)
(* The select loop of handle_client.                                        *)
(***************************************************************************)
RevocationBranch_Ignores(c) ==   \* mutant: access is not checked again
  /\ At(c, "loop")
  /\ conn[c].seen # signals.sent
  /\ conn' = [conn EXCEPT ![c].seen = signals.sent]
  /\ UNCHANGED <<allowed, signals, hub, clients, latest_sa>>

RevocationBranch(c) ==
  /\ At(c, "loop")
  /\ conn[c].seen # signals.sent
  /\ conn' = [conn EXCEPT ![c].seen = signals.sent,
                          ![c].pc = IF allowed[DeviceOf[c]] THEN "loop" ELSE "leaving"]
  /\ UNCHANGED <<allowed, signals, hub, clients, latest_sa>>

\* The client's SA arrives: its first binds the uid; set_latest_sa, then send.
ReadSA_FirstOnly(c) ==    \* mutant: only the first position is kept
  /\ At(c, "loop")
  /\ Len(hub) < MaxSent
  /\ conn' = [conn EXCEPT ![c].pc = "sending", ![c].sent = @ + 1]
  /\ latest_sa' = IF latest_sa[c] = 0 THEN [latest_sa EXCEPT ![c] = conn[c].sent + 1] ELSE latest_sa
  /\ UNCHANGED <<allowed, signals, hub, clients>>

ReadSA(c) ==
  /\ At(c, "loop")
  /\ Len(hub) < MaxSent
  /\ conn' = [conn EXCEPT ![c].pc = "sending", ![c].sent = @ + 1]
  /\ latest_sa' = [latest_sa EXCEPT ![c] = conn[c].sent + 1]
  /\ UNCHANGED <<allowed, signals, hub, clients>>

SendSA(c) ==
  /\ At(c, "sending")
  /\ hub' = Append(hub, [sender |-> c, sa |-> conn[c].sent])
  /\ conn' = [conn EXCEPT ![c].pc = "loop"]
  /\ UNCHANGED <<allowed, signals, clients, latest_sa>>

\* The broadcast branch: messages that the hub no longer has are lost.
Lagged(c) ==
  /\ At(c, "loop")
  /\ Len(hub) - conn[c].rx > Capacity
  /\ conn' = [conn EXCEPT ![c].rx = Len(hub) - Capacity, ![c].lagged = TRUE]
  /\ UNCHANGED <<allowed, signals, hub, clients, latest_sa>>

Receive(c) ==
  LET msg == hub[conn[c].rx + 1] IN
  /\ At(c, "loop")
  /\ conn[c].rx < Len(hub) /\ Len(hub) - conn[c].rx <= Capacity
  /\ conn' = IF msg.sender = c THEN [conn EXCEPT ![c].rx = @ + 1]
             ELSE [conn EXCEPT ![c].rx = @ + 1, ![c].pc = "writing",
                               ![c].got[msg.sender] = msg.sa]
  /\ UNCHANGED <<allowed, signals, hub, clients, latest_sa>>

\* write_all returns when the client has read enough.
Written(c) ==
  /\ At(c, "writing")
  /\ conn' = [conn EXCEPT ![c].pc = "loop"]
  /\ UNCHANGED <<allowed, signals, hub, clients, latest_sa>>

\* The client closes, or a read or a write fails.
Disconnect(c) ==
  /\ conn[c].pc \in {"subscribed", "loop", "writing"}
  /\ conn' = [conn EXCEPT ![c].pc = "leaving"]
  /\ UNCHANGED <<allowed, signals, hub, clients, latest_sa>>

-----------------------------------------------------------------------------
(***************************************************************************)
(* However the session ends, UnregisterOnDrop drops its entry.             *)
(***************************************************************************)
Unregister(c) ==
  /\ At(c, "leaving")
  /\ clients' = clients \ {c}
  /\ latest_sa' = [latest_sa EXCEPT ![c] = 0]
  /\ conn' = [conn EXCEPT ![c].pc = "closed"]
  /\ UNCHANGED <<allowed, signals, hub>>

Setup(c) == CheckAccess(c) \/ Register(c) \/ WatchRevocations(c) \/ ReplayLatestSA(c)

Next ==
  \/ SignalRevocation
  \/ \E d \in Device, b \in BOOLEAN : SetAllowed(d, b)
  \/ \E c \in Conn : \/ Accept(c) \/ HandshakeFails(c) \/ Setup(c)
                     \/ RevocationBranch(c) \/ ReadSA(c) \/ SendSA(c)
                     \/ Lagged(c) \/ Receive(c) \/ Written(c)
                     \/ Disconnect(c) \/ Unregister(c)

(***************************************************************************)
(* Fairness: the runtime polls ready tasks, an operation that changed the   *)
(* registry goes on to signal, and select! takes a random ready branch, so  *)
(* one that is ready again and again is taken.  That a write ends assumes   *)
(* that the client keeps reading: handle_client awaits write_all without a  *)
(* timeout, and a client that stops reading stops the loop as well.         *)
(***************************************************************************)
Fairness ==
  /\ WF_vars(SignalRevocation)
  /\ \A c \in Conn : /\ WF_vars(Setup(c)) /\ WF_vars(SendSA(c)) /\ WF_vars(Unregister(c))
                     /\ WF_vars(Receive(c) \/ Lagged(c))
                     /\ SF_vars(RevocationBranch(c))
                     /\ WF_vars(Written(c))

Spec == Init /\ [][Next]_vars

FairSpec == Spec /\ Fairness

-----------------------------------------------------------------------------
(***************************************************************************)
(* latestSA and the hub together lose no position: what a session was last  *)
(* written of another client, or still has coming from the hub, is that     *)
(* client's latest position, unless the session fell behind the hub.        *)
(***************************************************************************)
Coming(c, p) == {i \in conn[c].rx + 1 .. Len(hub) : hub[i].sender = p}

NoPositionLost ==
  \A c, p \in Conn :
     /\ c # p
     /\ conn[c].pc \in {"loop", "sending", "writing"} /\ ~conn[c].lagged
     /\ conn[p].pc \in {"loop", "writing"}
     => /\ Coming(c, p) = {} => conn[c].got[p] = conn[p].sent
        /\ \A i \in Coming(c, p) :
              (\A j \in Coming(c, p) : j <= i) => hub[i].sa = conn[p].sent

(***************************************************************************)
(* "Revoking this certificate or blocking this identity cuts the live       *)
(* session": a session that a signal finds subscribed ends, unless the      *)
(* device is allowed again.                                                 *)
(***************************************************************************)
SignalledSessionsEnd ==
  \A c \in Conn : InSession(c) /\ conn[c].seen # signals.sent /\ ~allowed[DeviceOf[c]]
     ~> ~InSession(c) \/ allowed[DeviceOf[c]]
=============================================================================
