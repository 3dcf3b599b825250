---------------------------- MODULE AdminTokens ----------------------------
(***************************************************************************)
(* Callback tokens from creation to purge: the handlers of                 *)
(* internal/api/server.go that create, delete and use them, each a         *)
(* sequence of Store calls with other requests in between; the token calls *)
(* of the two stores; and the token sweeper of cmd/oast/main.go.           *)
(*                                                                         *)
(* A request is served in a slot: its pc names the Store call that comes   *)
(* next. A request that ends at its first call (429, 404) changes nothing  *)
(* and is not a step. In SQLite every call may fail, because the database  *)
(* does or because the browser is gone and its context cancelled.          *)
(***************************************************************************)
EXTENDS Integers, FiniteSets, Functions

CONSTANTS
  Visitors,       \* the browsers, by visitor cookie
  Values,         \* what Generate may return
  Slots,          \* bound: requests in progress at once
  MaxPerVisitor,  \* maxTokensPerVisitor
  Attempts,       \* of handleCreateToken to find a free value
  InMemory,       \* the memory store: CreateToken is one step, no call fails
  TTL, Grace,
  MaxIds, MaxTime,  \* bounds: tokens and interactions ever, the clock
  MaxUntested       \* bound: when a visitor has as many, no create's list fails

ASSUME TokenAssumption ==
  /\ MaxPerVisitor \in Nat \ {0} /\ Attempts \in Nat \ {0}
  /\ InMemory \in BOOLEAN /\ TTL \in Nat \ {0} /\ Grace \in Nat
ASSUME SlotsAssumption == IsFiniteSet(Slots)
ASSUME TokenBoundAssumption ==
  /\ MaxIds \in Nat /\ MaxTime \in Nat /\ MaxUntested \in Nat

VARIABLES
  tokens,     \* id -> [value, owner, status, expires]
  lastToken,  \* the last token id given out
  ivs,        \* interaction id -> its denormalized TokenValue
  lastIv,
  req,        \* per slot: [pc, by, ...]
  sweep,      \* the token sweeper: "wait" for the ticker, or "purge" comes next
  marked,     \* history: when a sweep marked, or Never outside of it
  now,
  untested    \* history: per visitor, its creates whose list failed

Never == -1

tokenVars == <<tokens, lastToken>>
ivVars == <<ivs, lastIv>>
reqVars == <<req, untested>>
sweepVars == <<sweep, marked>>
adminVars == <<tokenVars, ivVars, reqVars, sweepVars, now>>

Idle == [pc |-> "idle"]
At(r, pc) == req[r].pc = pc
Free(r) == At(r, "idle")

TokensOf(v) == {id \in DOMAIN tokens : tokens[id].owner = v}

\* GetTokenByValue.
WithValue(val) == {id \in DOMAIN tokens : tokens[id].value = val}
Taken(val) == WithValue(val) # {}
OwnedBy(val, v) == \E id \in WithValue(val) : tokens[id].owner = v

AdminInit ==
  /\ tokens = <<>> /\ lastToken = 0
  /\ ivs = <<>> /\ lastIv = 0
  /\ req = [r \in Slots |-> Idle]
  /\ sweep = "wait" /\ marked = Never
  /\ now = 0
  /\ untested = [v \in Visitors |-> 0]

Without(f, S) == Restrict(f, DOMAIN f \ S)
Answer(r, next) == req' = [req EXCEPT ![r] = next]

-----------------------------------------------------------------------------
(* handleCreateToken.                                                      *)

Creating(v, tries) == [pc |-> "attempt", by |-> v, tries |-> tries]

\* Fault: one more than the cap.
BeginCreateOneMore(r, v) ==
  /\ Free(r)
  /\ Cardinality(TokensOf(v)) <= MaxPerVisitor
  /\ Answer(r, Creating(v, 0))
  /\ UNCHANGED <<tokenVars, ivVars, sweepVars, now, untested>>

\* The cap is tested against the list of the visitor's tokens.
BeginCreate(r, v) ==
  /\ Free(r)
  /\ Cardinality(TokensOf(v)) < MaxPerVisitor
  /\ Answer(r, Creating(v, 0))
  /\ UNCHANGED <<tokenVars, ivVars, sweepVars, now, untested>>

\* When the list fails the cap is not tested, and the create goes on.
BeginCreateUntested(r, v) ==
  /\ Free(r) /\ ~InMemory
  /\ \A u \in Visitors : untested[u] < MaxUntested
  /\ untested' = [untested EXCEPT ![v] = @ + 1]
  /\ Answer(r, Creating(v, 0))
  /\ UNCHANGED <<tokenVars, ivVars, sweepVars, now>>

NewToken(val, v) ==
  [value |-> val, owner |-> v, status |-> "active", expires |-> now + TTL]

\* Fault: the id is not taken from the sequence.
InsertTokenSameId(r, val) ==
  /\ lastToken + lastIv < MaxIds
  /\ tokens' = [id \in DOMAIN tokens \cup {lastToken + 1} |->
                  IF id = lastToken + 1 THEN NewToken(val, req[r].by) ELSE tokens[id]]
  /\ Answer(r, Idle)
  /\ UNCHANGED lastToken

\* The INSERT of CreateToken, and the answer 201.
InsertToken(r, val) ==
  /\ lastToken + lastIv < MaxIds
  /\ lastToken' = lastToken + 1
  /\ tokens' = [id \in DOMAIN tokens \cup {lastToken'} |->
                  IF id = lastToken' THEN NewToken(val, req[r].by) ELSE tokens[id]]
  /\ Answer(r, Idle)

\* ErrConflict: another attempt, or 500 after the last.
Conflict(r) ==
  /\ Answer(r, IF req[r].tries + 1 < Attempts
                 THEN Creating(req[r].by, req[r].tries + 1) ELSE Idle)
  /\ UNCHANGED tokenVars

\* Generate, then CreateToken: the whole of it under the memory store's lock,
\* up to the COUNT of the SQLite store.
CreateAttempt(r, val) ==
  /\ At(r, "attempt")
  /\ IF Taken(val) THEN Conflict(r)
     ELSE IF InMemory THEN InsertToken(r, val)
     ELSE /\ Answer(r, [pc |-> "insert", by |-> req[r].by, value |-> val])
          /\ UNCHANGED tokenVars
  /\ UNCHANGED <<ivVars, sweepVars, now, untested>>

\* Fault: tokens.value is not UNIQUE.
CreateInsertBlindly(r) ==
  /\ At(r, "insert")
  /\ InsertToken(r, req[r].value)
  /\ UNCHANGED <<ivVars, sweepVars, now, untested>>

\* The INSERT of the SQLite store. When the value was taken meanwhile the UNIQUE
\* index refuses it, and that error is no ErrConflict: 500, without a retry.
CreateInsert(r) ==
  /\ At(r, "insert")
  /\ IF Taken(req[r].value)
     THEN Answer(r, Idle) /\ UNCHANGED tokenVars
     ELSE InsertToken(r, req[r].value)
  /\ UNCHANGED <<ivVars, sweepVars, now, untested>>

-----------------------------------------------------------------------------
(* handleDeleteToken.                                                      *)

BeginDelete(r, v, id) ==
  /\ Free(r)
  /\ id \in TokensOf(v)
  /\ Answer(r, [pc |-> "delToken", by |-> v, id |-> id, value |-> tokens[id].value])
  /\ UNCHANGED <<tokenVars, ivVars, sweepVars, now, untested>>

\* Fault: DELETE ... WHERE value = ?
DeleteTokenByValue(r) ==
  /\ At(r, "delToken")
  /\ tokens' = Without(tokens, WithValue(req[r].value))
  /\ Answer(r, Idle)
  /\ UNCHANGED <<lastToken, ivVars, sweepVars, now, untested>>

\* By id; it may be gone (ErrNotFound: 500).
DeleteToken(r) ==
  /\ At(r, "delToken")
  /\ tokens' = Without(tokens, {req[r].id})
  /\ Answer(r, Idle)
  /\ UNCHANGED <<lastToken, ivVars, sweepVars, now, untested>>

-----------------------------------------------------------------------------
(* handleDeleteInteraction: GetInteraction, ownsInteraction,               *)
(* DeleteInteraction. handleGetInteraction stops after the second.         *)

GetInteraction(r, v, i) ==
  /\ Free(r)
  /\ i \in DOMAIN ivs
  /\ Answer(r, [pc |-> "owns", by |-> v, iv |-> i, token |-> ivs[i]])
  /\ UNCHANGED <<tokenVars, ivVars, sweepVars, now, untested>>

OwnsInteraction(r) ==
  /\ At(r, "owns")
  /\ Answer(r, IF OwnedBy(req[r].token, req[r].by)
                 THEN [pc |-> "delIv", by |-> req[r].by, iv |-> req[r].iv,
                       token |-> req[r].token]
                 ELSE Idle)
  /\ UNCHANGED <<tokenVars, ivVars, sweepVars, now, untested>>

DeleteInteraction(r) ==
  /\ At(r, "delIv")
  /\ ivs' = Without(ivs, {req[r].iv})
  /\ Answer(r, Idle)
  /\ UNCHANGED <<tokenVars, lastIv, sweepVars, now, untested>>

\* Every other call that fails ends its request with 404 or 500, and has
\* changed nothing.
CallFails(r) ==
  /\ ~InMemory /\ ~Free(r)
  /\ Answer(r, Idle)
  /\ UNCHANGED <<tokenVars, ivVars, sweepVars, now, untested>>

Serve(r) ==
  \/ \E val \in Values : CreateAttempt(r, val)
  \/ CreateInsert(r) \/ DeleteToken(r)
  \/ OwnsInteraction(r) \/ DeleteInteraction(r)
  \/ CallFails(r)

Begin(r) ==
  \E v \in Visitors :
    \/ BeginCreate(r, v) \/ BeginCreateUntested(r, v)
    \/ \E id \in DOMAIN tokens : BeginDelete(r, v, id)
    \/ \E i \in DOMAIN ivs : GetInteraction(r, v, i)

-----------------------------------------------------------------------------
(* The interactions come and go.                                           *)

\* Fault: an id without AUTOINCREMENT, the largest in use and one.
NextIvMax == CHOOSE n \in 1..(MaxIds + 1) :
  /\ n \notin DOMAIN ivs
  /\ \A i \in DOMAIN ivs : i < n
  /\ \A m \in 1..(n - 1) : \E i \in DOMAIN ivs : i >= m

\* Ids are not given out twice: nextID, or AUTOINCREMENT.
NextIv == lastIv + 1

\* A callback is stored under a label of its host, registered or not.
Callback(val) ==
  /\ lastToken + lastIv < MaxIds
  /\ lastIv' = lastIv + 1
  /\ ivs' = [i \in DOMAIN ivs \cup {NextIv} |-> IF i = NextIv THEN val ELSE ivs[i]]
  /\ UNCHANGED <<tokenVars, reqVars, sweepVars, now>>

\* By a cap or by retention, the oldest first.
Evict ==
  /\ DOMAIN ivs # {}
  /\ ivs' = Without(ivs, {CHOOSE i \in DOMAIN ivs : \A j \in DOMAIN ivs : i <= j})
  /\ UNCHANGED <<tokenVars, lastIv, reqVars, sweepVars, now>>

-----------------------------------------------------------------------------
(* runTokenSweeper: two calls of the store, each at its own time. A call   *)
(* that fails is logged; the purge follows the marking in any case.        *)

\* MarkExpiredTokens.
SweepExpired ==
  /\ sweep = "wait"
  /\ tokens' = [id \in DOMAIN tokens |->
                  IF tokens[id].status = "active" /\ now > tokens[id].expires
                  THEN [tokens[id] EXCEPT !.status = "expired"] ELSE tokens[id]]
  /\ sweep' = "purge" /\ marked' = now
  /\ UNCHANGED <<lastToken, ivVars, reqVars, now>>

SweepCallFails ==
  /\ ~InMemory
  /\ sweep' = IF sweep = "wait" THEN "purge" ELSE "wait"
  /\ marked' = Never
  /\ UNCHANGED <<tokenVars, ivVars, reqVars, now>>

\* Fault: only tokens that were never marked are purged.
PurgeableIfActive(t) == t.status = "active" /\ now - Grace > t.expires

\* The test of DeletePurgedTokens.
Purgeable(t) == t.status = "expired" /\ now - Grace > t.expires

SweepPurged ==
  /\ sweep = "purge"
  /\ tokens' = Without(tokens, {id \in DOMAIN tokens : Purgeable(tokens[id])})
  /\ sweep' = "wait" /\ marked' = Never
  /\ UNCHANGED <<lastToken, ivVars, reqVars, now>>

\* A unit of time is hours: none passes inside a request. The sweeper, which may
\* be late, runs at any time.
Tick ==
  /\ now < MaxTime
  /\ \A r \in Slots : Free(r)
  /\ now' = now + 1
  /\ UNCHANGED <<tokenVars, ivVars, reqVars, sweepVars>>

AdminNext ==
  \/ \E r \in Slots : Begin(r) \/ Serve(r)
  \/ \E val \in Values : Callback(val)
  \/ Evict
  \/ SweepExpired \/ SweepPurged \/ SweepCallFails
  \/ Tick

AdminSpec == AdminInit /\ [][AdminNext]_adminVars

-----------------------------------------------------------------------------
(* Properties.                                                             *)

\* The stored tokens, the interactions and the sweeper keep their types.
AdminTypeOK ==
  /\ tokens \in [DOMAIN tokens -> [value : Values, owner : Visitors,
                                   status : {"active", "expired"}, expires : Nat]]
  /\ DOMAIN tokens \subseteq 1..lastToken
  /\ ivs \in [DOMAIN ivs -> Values] /\ DOMAIN ivs \subseteq 1..lastIv
  /\ sweep \in {"wait", "purge"} /\ marked \in 0..MaxTime \cup {Never}
  /\ now \in 0..MaxTime /\ untested \in [Visitors -> Nat]

\* A callback has one owner: no two tokens share a value, also when two creates
\* race for it past the SQLite store's COUNT.
ValuesUnique ==
  \A a, b \in DOMAIN tokens : tokens[a].value = tokens[b].value => a = b

\* The cap of handleCreateToken is tested before the token is made, so that
\* requests in parallel may pass it, but by no more than their number, and by
\* one for every create whose list of the visitor's tokens failed: that create
\* is let through whatever the visitor has.
CapUnderConcurrency ==
  \A v \in Visitors :
    Cardinality(TokensOf(v)) <= MaxPerVisitor + untested[v] + Cardinality(Slots) - 1

\* A token goes only by its owner's request, even if its value was freed and
\* taken by another visitor between lookup and delete, or when it expired
\* longer than the grace period ago.
GoForAReason ==
  \A id \in DOMAIN tokens \ DOMAIN tokens' :
    \/ now - Grace > tokens[id].expires
    \/ \E r \in Slots : At(r, "delToken") /\ req[r].by = tokens[id].owner

TokensGoForAReason == [][GoForAReason]_adminVars

\* What a request deletes is a callback for the value it has checked, whatever
\* was evicted and stored between the look-up, the check and the delete.
DeletesChecked ==
  \A r \in Slots : At(r, "delIv") /\ Free(r)' =>
    \A i \in DOMAIN ivs \ DOMAIN ivs' : ivs[i] = req[r].token

DeletesWhatItChecked == [][DeletesChecked]_adminVars

\* A sweep is complete although its two calls read the clock separately and
\* calls of earlier sweeps may have failed: a purge after a marking leaves no
\* token that had outlived the grace period at the marking, be it active then
\* or marked before.
SweepsAll ==
  marked # Never /\ SweepPurged =>
    \A id \in DOMAIN tokens' : marked - Grace <= tokens'[id].expires

SweepIsComplete == [][SweepsAll]_adminVars
=============================================================================
