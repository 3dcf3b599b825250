---------------------------- MODULE MemoryStore ----------------------------
(***************************************************************************)
(* The interactions of internal/storage/memory.go: the primary map, the    *)
(* global list in insertion order, the list of each token, and the two     *)
(* maps from an id to its list elements. AddInteractions,                  *)
(* DeleteInteraction and DeleteOldInteractions run under the write lock;   *)
(* their loops are steps here, one insertion or one eviction each, taken   *)
(* while `lock` names the loop that holds the lock.                        *)
(*                                                                         *)
(* An interaction is what the indexes and the sweeper see of it: its token *)
(* ("" when no token matched is a member of Tokens like any other) and its *)
(* stamp. The collectors leave CreatedAt zero, so the store stamps it.     *)
(***************************************************************************)
EXTENDS Integers, Sequences, FiniteSets, Functions

CONSTANTS
  Tokens,
  MaxInteractions, MaxPerToken,
  Retention,
  ClockMayStep,   \* the wall clock may be set back
  MaxBatch,       \* bound: interactions per AddInteractions
  MaxId,          \* bound: interactions ever added
  MaxTime         \* bound: the clock

ASSUME CapAssumption == MaxInteractions \in Nat \ {0} /\ MaxPerToken \in Nat \ {0}
ASSUME RetentionAssumption == Retention \in Nat /\ ClockMayStep \in BOOLEAN
ASSUME MemoryBoundAssumption == MaxBatch \in Nat /\ MaxId \in Nat /\ MaxTime \in Nat

VARIABLES
  nextID,
  interactions,    \* id -> [token, at], for the ids that are stored
  order,           \* ids, oldest first
  byToken,         \* token -> ids, oldest first, for the tokens that have any
  idToElem,        \* the ids with an element of order on file
  idToTokenElem,   \* the ids with an element of their token's list on file
  lock,            \* "free", "insert", "cap", "trim" or "sweep"
  todo,            \* the tokens of the batch not yet added
  cutoff,          \* of the sweep that waits for the lock or holds it; or None
  now,             \* the wall clock
  stepped,         \* the clock was set back at least once
  before           \* history: interactions and nextID when the lock was last free

None == -1

indexVars == <<interactions, order, byToken, idToElem, idToTokenElem>>
lockVars == <<lock, todo, cutoff, before>>
clockVars == <<now, stepped>>
memVars == <<nextID, indexVars, lockVars, clockVars>>

-----------------------------------------------------------------------------
MemInit ==
  /\ nextID = 0
  /\ interactions = <<>>
  /\ order = <<>>
  /\ byToken = <<>>
  /\ idToElem = {}
  /\ idToTokenElem = {}
  /\ lock = "free"
  /\ todo = <<>>
  /\ cutoff = None
  /\ now = 0
  /\ stepped = FALSE
  /\ before = [records |-> <<>>, last |-> 0]

-----------------------------------------------------------------------------
(* Faults that the properties must tell from the code.                     *)

\* The token's list keeps the evicted id.
ByTokenKeeps(id, t) == byToken

-----------------------------------------------------------------------------
(* Lists and maps.                                                         *)

\* list.Remove of the element that holds id.
Unlink(s, id) ==
  LET at == CHOOSE i \in DOMAIN s : s[i] = id
  IN  [i \in 1..(Len(s) - 1) |-> IF i < at THEN s[i] ELSE s[i + 1]]

\* delete(m, k), and m[k] = v for a key that may be new.
Drop(m, k) == Restrict(m, DOMAIN m \ {k})
Put(m, k, v) == [x \in DOMAIN m \cup {k} |-> IF x = k THEN v ELSE m[x]]

ListOf(t) == IF t \in DOMAIN byToken THEN byToken[t] ELSE <<>>

-----------------------------------------------------------------------------
\* The token lists without id; a list that becomes empty goes too.
ByTokenWithout(id, t) ==
  LET rest == Unlink(byToken[t], id)
  IN  IF rest = <<>> THEN Drop(byToken, t) ELSE Put(byToken, t, rest)

\* evictOne: from the map, and from each list whose element is on file. An id
\* that is not in the map is left in the lists.
EvictOne(id) ==
  IF id \in DOMAIN interactions
  THEN /\ interactions' = Drop(interactions, id)
       /\ order' = IF id \in idToElem THEN Unlink(order, id) ELSE order
       /\ idToElem' = idToElem \ {id}
       /\ byToken' = IF id \in idToTokenElem
                       THEN ByTokenWithout(id, interactions[id].token)
                       ELSE byToken
       /\ idToTokenElem' = idToTokenElem \ {id}
  ELSE UNCHANGED indexVars

\* An insertion into the map, both lists and both element maps.
InsertOne(id, t) ==
  /\ interactions' = Put(interactions, id, [token |-> t, at |-> now])
  /\ order' = Append(order, id)
  /\ idToElem' = idToElem \cup {id}
  /\ byToken' = Put(byToken, t, Append(ListOf(t), id))
  /\ idToTokenElem' = idToTokenElem \cup {id}

-----------------------------------------------------------------------------
(* More faults.                                                            *)

\* The id is taken before the counter is incremented.
AddItemPostIncrement ==
  /\ lock = "insert"
  /\ nextID' = nextID + 1
  /\ InsertOne(nextID, Head(todo))
  /\ lock' = "cap"
  /\ UNCHANGED <<todo, cutoff, before, clockVars>>

\* The global cap is off by one.
TrimDoneEarly ==
  /\ lock = "trim"
  /\ Len(order) <= MaxInteractions + 1
  /\ lock' = "free"
  /\ before' = [records |-> interactions, last |-> nextID]
  /\ UNCHANGED <<nextID, indexVars, todo, cutoff, clockVars>>

\* The cutoff is computed once, before the ticker's loop.
SweepTickHoisted ==
  /\ cutoff = None
  /\ now > Retention
  /\ cutoff' = 0
  /\ UNCHANGED <<nextID, indexVars, lock, todo, before, clockVars>>

\* The sweep's test is off by one.
FrontGoesLate ==
  /\ order # <<>>
  /\ \/ Head(order) \notin DOMAIN interactions
     \/ interactions[Head(order)].at + 1 < cutoff

-----------------------------------------------------------------------------
(* AddInteractions, past its context test.                                 *)

AddStart ==
  /\ lock = "free"
  /\ \E n \in 1..MaxBatch :
       /\ nextID + n <= MaxId
       /\ todo' \in [1..n -> Tokens]
  /\ lock' = "insert"
  /\ UNCHANGED <<nextID, indexVars, cutoff, before, clockVars>>

\* id(): the other tables take ids from the same counter, so that those of the
\* interactions may have gaps. What is kept here is that they grow.
AddItem ==
  /\ lock = "insert"
  /\ nextID' = nextID + 1
  /\ InsertOne(nextID', Head(todo))
  /\ lock' = "cap"
  /\ UNCHANGED <<todo, cutoff, before, clockVars>>

NextItem ==
  /\ todo' = Tail(todo)
  /\ lock' = IF Tail(todo) = <<>> THEN "trim" ELSE "insert"
  /\ UNCHANGED <<nextID, cutoff, before, clockVars>>

\* Fault: the newest of the token goes.
CapEvictNewest ==
  /\ lock = "cap"
  /\ Len(ListOf(Head(todo))) > MaxPerToken
  /\ EvictOne(nextID)
  /\ NextItem

\* The token's cap, after each insertion: one too many, one out.
CapEvict ==
  /\ lock = "cap"
  /\ Len(ListOf(Head(todo))) > MaxPerToken
  /\ EvictOne(Head(ListOf(Head(todo))))
  /\ NextItem

CapKept ==
  /\ lock = "cap"
  /\ Len(ListOf(Head(todo))) <= MaxPerToken
  /\ NextItem
  /\ UNCHANGED indexVars

\* The global cap, after the batch.
TrimEvict ==
  /\ lock = "trim"
  /\ Len(order) > MaxInteractions
  /\ EvictOne(Head(order))
  /\ UNCHANGED <<nextID, lockVars, clockVars>>

TrimDone ==
  /\ lock = "trim"
  /\ Len(order) <= MaxInteractions
  /\ lock' = "free"
  /\ before' = [records |-> interactions, last |-> nextID]
  /\ UNCHANGED <<nextID, indexVars, todo, cutoff, clockVars>>

-----------------------------------------------------------------------------
\* DeleteInteraction of an id that is stored (of another it changes nothing).
DeleteOne(id) ==
  /\ lock = "free"
  /\ id \in DOMAIN interactions
  /\ EvictOne(id)
  /\ before' = [records |-> interactions', last |-> nextID]
  /\ UNCHANGED <<nextID, lock, todo, cutoff, clockVars>>

-----------------------------------------------------------------------------
(* The retention sweeper and DeleteOldInteractions.                        *)

\* main's ticker: the cutoff is computed before the store is called. (Up to
\* the retention time it lies before every stamp and the sweep finds nothing.)
SweepTick ==
  /\ cutoff = None
  /\ now > Retention
  /\ cutoff' = now - Retention
  /\ UNCHANGED <<nextID, indexVars, lock, todo, before, clockVars>>

SweepStart ==
  /\ cutoff # None
  /\ lock = "free"
  /\ lock' = "sweep"
  /\ UNCHANGED <<nextID, indexVars, todo, cutoff, before, clockVars>>

\* A stale front (in the list and not in the map) is evicted as well, in vain.
FrontGoes ==
  /\ order # <<>>
  /\ \/ Head(order) \notin DOMAIN interactions
     \/ interactions[Head(order)].at < cutoff

SweepEvict ==
  /\ lock = "sweep"
  /\ FrontGoes
  /\ EvictOne(Head(order))
  /\ UNCHANGED <<nextID, lockVars, clockVars>>

\* The walk stops at the first element that is not old.
SweepDone ==
  /\ lock = "sweep"
  /\ ~FrontGoes
  /\ lock' = "free"
  /\ cutoff' = None
  /\ before' = [records |-> interactions, last |-> nextID]
  /\ UNCHANGED <<nextID, indexVars, todo, clockVars>>

-----------------------------------------------------------------------------
(* The wall clock: time.Now().UTC() carries no monotonic reading.          *)

ClockTicks ==
  /\ now < MaxTime
  /\ now' = now + 1
  /\ UNCHANGED <<nextID, indexVars, lockVars, stepped>>

ClockSetBack ==
  /\ ClockMayStep /\ now > 0
  /\ now' = now - 1
  /\ stepped' = TRUE
  /\ UNCHANGED <<nextID, indexVars, lockVars>>

AddNext == AddStart \/ AddItem \/ CapEvict \/ CapKept \/ TrimEvict \/ TrimDone
SweepNext == SweepTick \/ SweepStart \/ SweepEvict \/ SweepDone

MemNext ==
  \/ AddNext
  \/ \E id \in 1..MaxId : DeleteOne(id)
  \/ SweepNext
  \/ ClockTicks \/ ClockSetBack

MemSafety == MemInit /\ [][MemNext]_memVars

\* A writer that holds the lock goes on; the sweeper gets the lock and its
\* ticker fires, as often as the lock is free.
MemFairness ==
  /\ WF_memVars(AddItem \/ CapEvict \/ CapKept \/ TrimEvict \/ TrimDone)
  /\ WF_memVars(SweepTick) /\ SF_memVars(SweepStart)
  /\ WF_memVars(SweepEvict \/ SweepDone)

MemSpec == MemSafety /\ MemFairness

-----------------------------------------------------------------------------
(* Properties.                                                             *)

Interaction == [token : Tokens, at : 0..MaxTime]

\* The variables keep their types.
MemTypeOK ==
  /\ nextID \in Nat
  /\ interactions \in [DOMAIN interactions -> Interaction]
  /\ order \in Seq(1..nextID)
  /\ DOMAIN byToken \subseteq Tokens
  /\ byToken \in [DOMAIN byToken -> Seq(1..nextID)]
  /\ idToElem \subseteq 1..nextID /\ idToTokenElem \subseteq 1..nextID
  /\ lock \in {"free", "insert", "cap", "trim", "sweep"}
  /\ todo \in Seq(Tokens)
  /\ cutoff \in 0..MaxTime \cup {None}
  /\ now \in 0..MaxTime /\ stepped \in BOOLEAN

Ascending(s) == \A i, j \in DOMAIN s : i < j => s[i] < s[j]

\* The five indexes describe the same interactions: each id once in the global
\* list and once in the list of its own token, oldest first; every element on
\* file; no empty list kept for a token. This is what makes every read right
\* whichever index it takes, evictOne complete, and the branch for a "stale
\* list element" in DeleteOldInteractions, which would loop for ever,
\* unreachable.
IndexesAgree ==
  /\ Range(order) = DOMAIN interactions /\ Ascending(order)
  /\ idToElem = DOMAIN interactions /\ idToTokenElem = DOMAIN interactions
  /\ DOMAIN byToken = {interactions[id].token : id \in DOMAIN interactions}
  /\ \A t \in DOMAIN byToken :
       /\ Range(byToken[t]) = {id \in DOMAIN interactions : interactions[id].token = t}
       /\ Ascending(byToken[t])

\* No reader ever sees the store above a cap: between two operations, whatever
\* batches came in, neither the store nor a token exceeds its limit.
CapsHold ==
  lock = "free" =>
    /\ Cardinality(DOMAIN interactions) <= MaxInteractions
    /\ \A t \in Tokens :
         Cardinality({id \in DOMAIN interactions : interactions[id].token = t})
           <= MaxPerToken

Older(id, c) == interactions[id].at < c

\* "removes every interaction with CreatedAt strictly older than cutoff" holds
\* of a sweep as long as the clock has not been set back, although the walk
\* stops at the first element that is not old.
SweepIsExact ==
  [][SweepDone /\ ~stepped => \A id \in DOMAIN interactions : ~Older(id, cutoff)]_memVars

\* The same without the proviso, as the comment on DeleteOldInteractions says.
\* (Not so: see the run memory_clock_set_back.)
SweepRemovesAllOld ==
  [][SweepDone => \A id \in DOMAIN interactions : ~Older(id, cutoff)]_memVars

\* However often writers take the lock, retention is enforced in the end.
RetentionIsEnforced ==
  now = MaxTime ~>
    stepped \/ \A id \in DOMAIN interactions : ~Older(id, MaxTime - Retention)

Records(m) == {[id |-> i, token |-> m[i].token, at |-> m[i].at] : i \in DOMAIN m}

\* Seen from outside the lock the store is an InteractionLog: a batch appears
\* at once, under fresh ids, and what the caps take is the oldest.
Log == INSTANCE InteractionLog WITH
         Times <- 0..MaxTime,
         log <- Records(IF lock = "free" THEN interactions ELSE before.records),
         last <- IF lock = "free" THEN nextID ELSE before.last

IsLog == Log!LogSpec
=============================================================================
