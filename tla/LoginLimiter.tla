---------------------------- MODULE LoginLimiter ----------------------------
(***************************************************************************)
(* The limiter of failed logins of internal/api/server.go and its use by   *)
(* handleLogin: allow() before the password is compared, fail() after, and *)
(* both prune the peer's list. Each takes the mutex; nothing holds it from *)
(* the one to the other. The times carry Go's monotonic reading. A list is *)
(* only filtered, appended to and counted, so it is the set of its         *)
(* failures. Module AdminAccess has the next-state relation.               *)
(***************************************************************************)
EXTENDS Integers, FiniteSets

CONSTANTS
  Peers,     \* socket peer addresses
  Slots,     \* bound: logins in progress at once
  Window,    \* loginWindow
  MaxFail,   \* loginMaxFail
  MaxTime    \* bound: the clock

NoPeer == "nobody"

ASSUME LimiterAssumption == Window \in Nat \ {0} /\ MaxFail \in Nat \ {0}
ASSUME PeerAssumption == NoPeer \notin Peers
ASSUME LimiterBoundAssumption == MaxTime \in Nat /\ IsFiniteSet(Slots)

VARIABLES
  fails,     \* peer -> the failures listed for it, for the peers that have any
  login,     \* per slot: NoPeer, or the peer that was let through
  now,
  wrong,     \* history: every failure: [ip, at, n], the n-th of the peer at that time
  refused    \* history: the peer that allow() last refused, or NoPeer

limVars == <<fails, login, now, wrong, refused>>

FailsOf(ip) == IF ip \in DOMAIN fails THEN fails[ip] ELSE {}

LimiterInit ==
  /\ fails = <<>>
  /\ login = [r \in Slots |-> NoPeer]
  /\ now = 0
  /\ wrong = {}
  /\ refused = NoPeer

-----------------------------------------------------------------------------
\* Fault: failures are kept for ever.
PrunedNever(ip) == FailsOf(ip)

\* Fault: the newest are pruned.
PrunedNew(ip) == {f \in FailsOf(ip) : f.at <= now - Window}

\* prune: what is inside the window.
Pruned(ip) == {f \in FailsOf(ip) : f.at > now - Window}

\* Fault: an empty list stays in the map.
StoreEmpty(ip, list) ==
  fails' = [p \in DOMAIN fails \cup {ip} |-> IF p = ip THEN list ELSE fails[p]]

\* An empty list leaves the map.
Store(ip, list) ==
  fails' = [p \in (DOMAIN fails \cup {ip}) \ (IF list = {} THEN {ip} ELSE {}) |->
              IF p = ip THEN list ELSE fails[p]]

\* allow(), and handleLogin's answer 429 when it says no.
Allow(r, ip) ==
  /\ login[r] = NoPeer
  /\ Store(ip, Pruned(ip))
  /\ IF Cardinality(Pruned(ip)) < MaxFail
     THEN login' = [login EXCEPT ![r] = ip] /\ refused' = NoPeer
     ELSE refused' = ip /\ UNCHANGED login
  /\ UNCHANGED <<now, wrong>>

Failure(ip) ==
  [ip |-> ip, at |-> now, n |-> Cardinality({f \in wrong : f.ip = ip /\ f.at = now}) + 1]

\* The password was wrong: fail().
Fail(r) ==
  /\ login[r] # NoPeer
  /\ Store(login[r], Pruned(login[r]) \cup {Failure(login[r])})
  /\ wrong' = wrong \cup {Failure(login[r])}
  /\ login' = [login EXCEPT ![r] = NoPeer]
  /\ refused' = NoPeer
  /\ UNCHANGED now

\* The password was right.
LoggedIn(r) ==
  /\ login[r] # NoPeer
  /\ login' = [login EXCEPT ![r] = NoPeer]
  /\ refused' = NoPeer
  /\ UNCHANGED <<fails, now, wrong>>

Tick ==
  /\ now < MaxTime
  /\ now' = now + 1
  /\ refused' = NoPeer
  /\ UNCHANGED <<fails, login, wrong>>

-----------------------------------------------------------------------------
(* Properties.                                                             *)

\* A list holds failures of its own peer, and no peer has an empty one.
LimiterTypeOK ==
  /\ fails \in [DOMAIN fails -> SUBSET wrong] /\ DOMAIN fails \subseteq Peers
  /\ \A ip \in DOMAIN fails : fails[ip] # {} /\ \A f \in fails[ip] : f.ip = ip
  /\ login \in [Slots -> Peers \cup {NoPeer}]

\* The failures of a peer in the window that ends at t.
InWindow(ip, t) == {f \in wrong : f.ip = ip /\ t - Window < f.at /\ f.at <= t}

\* In no window of five minutes does a peer fail more often than the limit and
\* the logins that it has in progress at once, since allow() and fail() are two
\* critical sections.
FailuresAreBounded ==
  \A ip \in Peers, t \in 0..now :
    Cardinality(InWindow(ip, t)) <= MaxFail + Cardinality(Slots) - 1

\* A peer is refused for its own failures of the last window only: not for
\* those of another, and not for ever.
RefusedForItsFailures ==
  refused # NoPeer => Cardinality(InWindow(refused, now)) >= MaxFail
=============================================================================
