---------------------------- MODULE AuthLimiter ----------------------------
(***************************************************************************)
(* Password logins on the enrollment port: the limiter of failed attempts   *)
(* (src/src/ratelimit.rs), the address that an attempt counts for           *)
(* (clientip.rs) and the handlers that use them (token of marti/oauth.rs,   *)
(* enrollment_user of marti/profiles.rs, the password path of               *)
(* marti/enrollment.rs).                                                    *)
(*                                                                          *)
(* The check of the limit, the password check on the blocking pool and the  *)
(* two records of a failure are steps of their own: attempts overlap.       *)
(***************************************************************************)
EXTENDS Naturals, Sequences, FiniteSets, Functions

CONSTANTS
  Request,                       \* requests that can be in progress at once
  Client, Proxy,                 \* addresses; Proxy is the trusted proxies
  User,
  max_failures, window, max_tracked_keys, concurrent_password_checks,
  MaxTime                        \* bound: the clock

\* ip_key and user_key prefix what they are given, so no key is of both kinds;
\* a proxy is no client; a limit of no failures at all would block everybody.
ASSUME LimiterAssumption ==
  /\ Client \cap Proxy = {} /\ (Client \cup Proxy) \cap User = {}
  /\ Client # {} /\ User # {}
  /\ IsFiniteSet(Request)
  /\ max_failures \in Nat \ {0} /\ window \in Nat
  /\ max_tracked_keys \in Nat /\ concurrent_password_checks \in Nat
  /\ MaxTime \in Nat

VARIABLES
  now,
  failures,   \* by key: [start, count]
  login,      \* each request: [pc, client, ip, user]
  permits     \* verify_permits in use

loginVars == <<now, failures, login, permits>>

Key == Client \cup Proxy \cup User
Blank == [pc |-> "idle", client |-> CHOOSE c \in Client : TRUE,
          ip |-> CHOOSE c \in Client : TRUE, user |-> CHOOSE u \in User : TRUE]

LimiterTypeOK ==
  /\ now \in 0..MaxTime
  /\ DOMAIN failures \subseteq Key /\ Cardinality(DOMAIN failures) <= max_tracked_keys
  /\ \A k \in DOMAIN failures : failures[k] \in [start: 0..MaxTime, count: Nat \ {0}]
  /\ login \in [Request -> [pc: {"idle", "queued", "checking", "failed", "counted"},
                            client: Client, ip: Client \cup Proxy, user: User]]
  /\ permits \in 0..concurrent_password_checks

LimiterInit ==
  /\ now = 0
  /\ failures = << >>
  /\ login = [t \in Request |-> Blank]
  /\ permits = 0

-----------------------------------------------------------------------------
Live(k) == k \in DOMAIN failures /\ now - failures[k].start < window

\* mutant: off by one
IsBlocked_Later(k) == Live(k) /\ failures[k].count > max_failures

\* is_blocked_at.
IsBlocked(k) == Live(k) /\ failures[k].count >= max_failures

RecordFailure_Evicts(k) ==    \* mutant: a full table drops an entry for the new key
  LET kept == IF k \in DOMAIN failures \/ Cardinality(DOMAIN failures) < max_tracked_keys
              THEN DOMAIN failures
              ELSE DOMAIN failures \ {CHOOSE j \in DOMAIN failures : TRUE}
      entry == IF Live(k) THEN [failures[k] EXCEPT !.count = @ + 1]
               ELSE [start |-> now, count |-> 1]
  IN  failures' = [j \in kept \cup {k} |-> IF j = k THEN entry ELSE failures[j]]

\* record_failure_at.
RecordFailure(k) ==
  LET full(ks) == k \notin DOMAIN failures /\ Cardinality(ks) >= max_tracked_keys
      kept == IF full(DOMAIN failures) THEN {j \in DOMAIN failures : Live(j)}
              ELSE DOMAIN failures
      entry == IF Live(k) THEN [failures[k] EXCEPT !.count = @ + 1]
               ELSE [start |-> now, count |-> 1]
  IN  failures' = IF full(kept) THEN Restrict(failures, kept)
                  ELSE [j \in kept \cup {k} |-> IF j = k THEN entry ELSE failures[j]]

\* client_ip: the right-most address of X-Forwarded-For that is no proxy.
ClientIp(peer, forwarded) ==
  LET others == {i \in DOMAIN forwarded : forwarded[i] \notin Proxy}
  IN  IF peer \in Proxy /\ others # {}
      THEN forwarded[CHOOSE i \in others : \A j \in others : j <= i] ELSE peer

-----------------------------------------------------------------------------
(***************************************************************************)
(* The handlers.                                                            *)
(***************************************************************************)
Forged == {<< >>} \cup {<<a>> : a \in Client}

\* What arrives from client c with a header h of its own: directly, or
\* through one or two proxies, each of which adds who it was called by.
Routes(c, h) ==
  LET seen == {Append(h, c)} \cup {h \o <<c, q>> : q \in Proxy}
  IN  {[peer |-> c, forwarded |-> h]}
      \cup UNION {{[peer |-> p, forwarded |-> f] : f \in seen} : p \in Proxy}

Ask(t, c, u) ==
  /\ login[t].pc = "idle"
  /\ \E h \in Forged : \E r \in Routes(c, h) :
       LET ip == ClientIp(r.peer, r.forwarded)
       IN  /\ ~IsBlocked(ip) /\ ~IsBlocked(u)
           /\ login' = [login EXCEPT ![t] =
                           [pc |-> "queued", client |-> c, ip |-> ip, user |-> u]]
  /\ UNCHANGED <<now, failures, permits>>

\* verify_password: the permit.
Acquire(t) ==
  /\ login[t].pc = "queued" /\ permits < concurrent_password_checks
  /\ permits' = permits + 1
  /\ login' = [login EXCEPT ![t].pc = "checking"]
  /\ UNCHANGED <<now, failures>>

\* The password was right or wrong.
Checked(t) ==
  /\ login[t].pc = "checking"
  /\ permits' = permits - 1
  /\ \/ login' = [login EXCEPT ![t] = Blank]
     \/ login' = [login EXCEPT ![t].pc = "failed"]
  /\ UNCHANGED <<now, failures>>

\* record_failure, for the address and then for the user.
Count(t) ==
  \/ /\ login[t].pc = "failed"
     /\ RecordFailure(login[t].ip)
     /\ login' = [login EXCEPT ![t].pc = "counted"]
     /\ UNCHANGED <<now, permits>>
  \/ /\ login[t].pc = "counted"
     /\ RecordFailure(login[t].user)
     /\ login' = [login EXCEPT ![t] = Blank]
     /\ UNCHANGED <<now, permits>>

\* The client has gone: the server drops the request where it waits, and the
\* permit with it.  Nothing is counted; the password check itself goes on.
Cancel(t) ==
  /\ login[t].pc \in {"queued", "checking"}
  /\ permits' = IF login[t].pc = "checking" THEN permits - 1 ELSE permits
  /\ login' = [login EXCEPT ![t] = Blank]
  /\ UNCHANGED <<now, failures>>

Tick ==
  /\ now < MaxTime /\ now' = now + 1
  /\ UNCHANGED <<failures, login, permits>>

LimiterNext ==
  \/ \E t \in Request : \/ \E c \in Client, u \in User : Ask(t, c, u)
                        \/ Acquire(t) \/ Checked(t) \/ Count(t) \/ Cancel(t)
  \/ Tick

LimiterSpec == LimiterInit /\ [][LimiterNext]_loginVars

-----------------------------------------------------------------------------
(***************************************************************************)
(* "After max_failures failed credential checks for a key within one window *)
(* further attempts are refused": the limit is looked at before the check,  *)
(* and the failure counted after it, so attempts that overlap get through - *)
(* but no more of them than can be in progress at once.                     *)
(***************************************************************************)
FailuresBounded ==
  \A k \in Key : Live(k) => failures[k].count <= max_failures - 1 + Cardinality(Request)

(***************************************************************************)
(* "For the rest of that window": a key that is blocked stays blocked until *)
(* its window is over, whatever else fails and however full the table is.   *)
(***************************************************************************)
BlockedStays ==
  [][\A k \in Key : IsBlocked(k) /\ now' - failures[k].start < window => IsBlocked(k)']_loginVars

(***************************************************************************)
(* "A client can't pick its own rate-limit bucket": an attempt counts for   *)
(* the address it came from, directly or through the proxies, whatever      *)
(* X-Forwarded-For the client sent itself.                                  *)
(***************************************************************************)
CountsForClient == \A t \in Request : login[t].pc # "idle" => login[t].ip = login[t].client

(***************************************************************************)
(* Permits of password checks are neither lost nor given back twice,        *)
(* however requests end: at rest all of them are free again.                *)
(***************************************************************************)
PermitsAreHeld == permits = Cardinality({t \in Request : login[t].pc = "checking"})

(***************************************************************************)
(* The limits on logins hold together: that of a key's failures, that of    *)
(* the table's entries and that of the password checks at once.             *)
(***************************************************************************)
LoginsLimited == LimiterTypeOK /\ FailuresBounded /\ CountsForClient /\ PermitsAreHeld
=============================================================================
