---------------------------- MODULE SQLiteStore ----------------------------
(***************************************************************************)
(* AddInteractions of internal/storage/sqlite.go as the bus workers call   *)
(* it: one transaction per batch, then enforceCaps outside of it, as       *)
(* COUNT and DELETE statements of their own. Between any two of them other *)
(* workers, the admin API and the retention sweeper use the database, a    *)
(* statement may fail, and the process may be killed and started again.    *)
(*                                                                         *)
(* SQLite has one writer at a time: `writer` holds the write lock from its *)
(* first INSERT to the end of its transaction, and what it wrote is seen   *)
(* by nobody before the commit (WAL).                                      *)
(***************************************************************************)
EXTENDS Integers, Sequences, FiniteSets, Functions

CONSTANTS
  Workers,
  Tokens, Untagged,   \* the token values, and "" for none
  MaxInteractions, MaxPerToken,
  MaxBatch,           \* bound: interactions per batch
  MaxBatches,         \* bound: calls of AddInteractions
  MaxFaults           \* bound: failed statements and crashes

ASSUME SQLCapAssumption == MaxInteractions \in Nat \ {0} /\ MaxPerToken \in Nat \ {0}
ASSUME SQLTokenAssumption == Untagged \notin Tokens
ASSUME SQLBoundAssumption == MaxBatch \in Nat /\ MaxBatches \in Nat /\ MaxFaults \in Nat

VARIABLES
  rows,      \* the table: id -> token
  lastId,    \* sqlite_sequence: the largest id ever committed
  writer,    \* the worker whose transaction has the write lock, or NoOne
  pending,   \* the rows that transaction has inserted
  job,       \* per worker: where AddInteractions is
  calls, faults,
  skipped    \* history: a statement of enforceCaps failed, or was cut off

tableVars == <<rows, lastId>>
txVars == <<writer, pending>>
histVars == <<calls, faults, skipped>>
sqlVars == <<tableVars, txVars, job, histVars>>

NoOne == "no one"
ASSUME SQLWorkerAssumption == NoOne \notin Workers

Idle == [pc |-> "idle"]
AnyToken == Tokens \cup {Untagged}

OfToken(t) == {id \in DOMAIN rows : rows[id] = t}
Keep(S) == Restrict(rows, S)

\* SELECT id FROM S ORDER BY id DESC LIMIT n.
Newest(S, n) == {id \in S : Cardinality({j \in S : j >= id}) <= n}

SQLInit ==
  /\ rows = <<>> /\ lastId = 0
  /\ writer = NoOne /\ pending = <<>>
  /\ job = [w \in Workers |-> Idle]
  /\ calls = 0 /\ faults = 0 /\ skipped = FALSE

At(w, pc) == job[w].pc = pc
Goto(w, next) == job' = [job EXCEPT ![w] = next]
Fault == faults < MaxFaults /\ faults' = faults + 1

-----------------------------------------------------------------------------
(* The transaction.                                                        *)

\* A call begins, past its context test.
Call(w) ==
  /\ At(w, "idle")
  /\ calls < MaxBatches /\ calls' = calls + 1
  /\ \E n \in 1..MaxBatch : \E b \in [1..n -> AnyToken] : Goto(w, [pc |-> "tx", batch |-> b])
  /\ UNCHANGED <<tableVars, txVars, faults, skipped>>

\* The next INSERT; the first one takes the write lock.
TxInsert(w) ==
  /\ At(w, "tx")
  /\ writer \in {NoOne, w}
  /\ Len(pending) < Len(job[w].batch)
  /\ writer' = w
  /\ pending' = Append(pending, job[w].batch[Len(pending) + 1])
  /\ UNCHANGED <<tableVars, job, histVars>>

\* "touched": the token values of the batch, without "".
Touched(b) == Range(b) \ {Untagged}

\* The ids that a commit gives to the pending rows.
NewIds == (lastId + 1)..(lastId + Len(pending))

\* Fault: nothing to enforce when no token was touched.
AfterCommitIfTouched(w) ==
  IF Touched(job[w].batch) = {} THEN Idle
  ELSE [pc |-> "caps", ids |-> NewIds, todo |-> Touched(job[w].batch)]

\* enforceCaps follows the commit.
AfterCommit(w) == [pc |-> "caps", ids |-> NewIds, todo |-> Touched(job[w].batch)]

\* Fault: the rows of the transaction are not forgotten.
CommitKeepsPending(w) ==
  /\ rows' = [id \in DOMAIN rows \cup NewIds |->
                IF id > lastId THEN pending[id - lastId] ELSE rows[id]]
  /\ lastId' = lastId + Len(pending)
  /\ writer' = NoOne
  /\ Goto(w, AfterCommit(w))
  /\ UNCHANGED <<pending, histVars>>

\* The rows become visible, under ids from sqlite_sequence.
Commit(w) ==
  /\ rows' = [id \in DOMAIN rows \cup NewIds |->
                IF id > lastId THEN pending[id - lastId] ELSE rows[id]]
  /\ lastId' = lastId + Len(pending)
  /\ writer' = NoOne /\ pending' = <<>>
  /\ Goto(w, AfterCommit(w))
  /\ UNCHANGED histVars

\* Fault: a transaction per row.
TxCommitEarly(w) ==
  /\ At(w, "tx")
  /\ writer = w /\ Len(pending) > 0
  /\ Commit(w)

TxCommit(w) ==
  /\ At(w, "tx")
  /\ writer = w /\ Len(pending) = Len(job[w].batch)
  /\ Commit(w)

\* BEGIN, an INSERT or the COMMIT fails: the lock timed out, the file is full,
\* the context was cancelled. The deferred Rollback leaves nothing behind.
TxFails(w) ==
  /\ At(w, "tx") /\ Fault
  /\ IF writer = w THEN writer' = NoOne /\ pending' = <<>> ELSE UNCHANGED txVars
  /\ Goto(w, Idle)
  /\ UNCHANGED <<tableVars, calls, skipped>>

-----------------------------------------------------------------------------
(* enforceCaps: the tokens in any order (a map), then the table.           *)

\* SELECT COUNT for a token sees what is committed, whoever is writing.
CountToken(w) ==
  /\ At(w, "caps")
  /\ \E t \in job[w].todo :
       LET n == Cardinality(OfToken(t)) IN
         IF n <= MaxPerToken
         THEN Goto(w, [job[w] EXCEPT !.todo = @ \ {t}])
         ELSE Goto(w, [pc |-> "trimToken", ids |-> job[w].ids,
                       todo |-> job[w].todo, token |-> t, n |-> n])
  /\ UNCHANGED <<tableVars, txVars, histVars>>

CapsAgain(w) == [pc |-> "caps", ids |-> job[w].ids, todo |-> job[w].todo \ {job[w].token}]

\* Fault: as many of the oldest as the COUNT had found too many.
TrimTokenByCount(w) ==
  /\ At(w, "trimToken") /\ writer = NoOne
  /\ LET t == job[w].token
         excess == job[w].n - MaxPerToken
         oldest == {id \in OfToken(t) : Cardinality({j \in OfToken(t) : j <= id}) <= excess}
     IN  rows' = Keep(DOMAIN rows \ oldest)
  /\ Goto(w, CapsAgain(w))
  /\ UNCHANGED <<lastId, txVars, histVars>>

\* DELETE all of the token's rows but the newest, as they are by now.
TrimToken(w) ==
  /\ At(w, "trimToken") /\ writer = NoOne
  /\ LET all == OfToken(job[w].token)
     IN  rows' = Keep((DOMAIN rows \ all) \cup Newest(all, MaxPerToken))
  /\ Goto(w, CapsAgain(w))
  /\ UNCHANGED <<lastId, txVars, histVars>>

\* Fault: the cap is off by one.
CountAllLoose(w) ==
  /\ At(w, "caps") /\ job[w].todo = {}
  /\ Goto(w, IF Cardinality(DOMAIN rows) <= MaxInteractions + 1
               THEN Idle ELSE [pc |-> "trimAll", ids |-> job[w].ids])
  /\ UNCHANGED <<tableVars, txVars, histVars>>

CountAll(w) ==
  /\ At(w, "caps") /\ job[w].todo = {}
  /\ Goto(w, IF Cardinality(DOMAIN rows) <= MaxInteractions
               THEN Idle ELSE [pc |-> "trimAll", ids |-> job[w].ids])
  /\ UNCHANGED <<tableVars, txVars, histVars>>

TrimAll(w) ==
  /\ At(w, "trimAll") /\ writer = NoOne
  /\ rows' = Keep(Newest(DOMAIN rows, MaxInteractions))
  /\ Goto(w, Idle)
  /\ UNCHANGED <<lastId, txVars, histVars>>

\* A statement of enforceCaps fails: logged, and the rest is tried. The batch
\* stays stored, and its call succeeds.
CapsFail(w) ==
  /\ Fault
  /\ skipped' = TRUE
  /\ \/ /\ At(w, "caps")
        /\ \E t \in job[w].todo : Goto(w, [job[w] EXCEPT !.todo = @ \ {t}])
     \/ At(w, "trimToken") /\ Goto(w, CapsAgain(w))
     \/ At(w, "caps") /\ job[w].todo = {} /\ Goto(w, Idle)
     \/ At(w, "trimAll") /\ Goto(w, Idle)
  /\ UNCHANGED <<tableVars, txVars, calls>>

-----------------------------------------------------------------------------
(* The other writers, and the end of the process.                          *)

DeleteInteraction(id) ==
  /\ writer = NoOne
  /\ rows' = Keep(DOMAIN rows \ {id})
  /\ UNCHANGED <<lastId, txVars, job, histVars>>

\* The rows older than a time are any rows: a row is stamped before its transaction
\* has the write lock, so that the stamps do not grow with the ids.
DeleteOldInteractions(old) ==
  /\ writer = NoOne
  /\ rows' = Keep(DOMAIN rows \ old)
  /\ UNCHANGED <<lastId, txVars, job, histVars>>

\* Killed and started again: the file keeps what was committed. NewSQLiteStore
\* enforces no cap.
Crash ==
  /\ Fault
  /\ \E w \in Workers : ~At(w, "idle")
  /\ writer' = NoOne /\ pending' = <<>>
  /\ job' = [w \in Workers |-> Idle]
  /\ skipped' = TRUE
  /\ UNCHANGED <<tableVars, calls>>

Worker(w) ==
  \/ Call(w) \/ TxInsert(w) \/ TxCommit(w) \/ TxFails(w)
  \/ CountToken(w) \/ TrimToken(w) \/ CountAll(w) \/ TrimAll(w) \/ CapsFail(w)

SQLNext ==
  \/ \E w \in Workers : Worker(w)
  \/ \E id \in DOMAIN rows : DeleteInteraction(id)
  \/ \E old \in SUBSET DOMAIN rows : DeleteOldInteractions(old)
  \/ Crash

SQLSpec == SQLInit /\ [][SQLNext]_sqlVars

-----------------------------------------------------------------------------
(* Properties.                                                             *)

\* The table and the transaction keep their types.
SQLTypeOK ==
  /\ rows \in [DOMAIN rows -> AnyToken]
  /\ DOMAIN rows \subseteq 1..lastId
  /\ writer \in Workers \cup {NoOne}
  /\ (writer = NoOne) = (pending = <<>>)
  /\ \A w \in Workers : job[w].pc \in {"idle", "tx", "caps", "trimToken", "trimAll"}

\* A batch is stored as a whole or not at all, whatever fails and wherever the
\* process is killed; and AddInteractions answers which of the two it was, on
\* which the bus relies when it counts a batch or gives it up.
AnswerIsTrue ==
  [][\A w \in Workers : At(w, "tx") =>
       IF job'[w].pc = "caps"
       THEN Cardinality(DOMAIN rows' \ DOMAIN rows) = Len(job[w].batch)
       ELSE job'[w] # job[w] \/ writer' = w => DOMAIN rows' \subseteq DOMAIN rows]_sqlVars

\* When no batch is being added and nothing has failed, the caps hold: the
\* worker that committed last counts after every commit, although the COUNTs
\* and the DELETEs of the workers interleave. (The cap of a token spares the
\* interactions without one.)
CapsHoldAtRest ==
  ~skipped /\ (\A w \in Workers : At(w, "idle")) =>
    /\ Cardinality(DOMAIN rows) <= MaxInteractions
    /\ \A t \in Tokens : Cardinality(OfToken(t)) <= MaxPerToken

\* While batches are being added the table outgrows its cap by no more than the
\* batches whose caps are still to be enforced.
OvershootIsInFlight ==
  LET inFlight == UNION {job[w].ids : w \in {v \in Workers : "ids" \in DOMAIN job[v]}}
  IN  ~skipped => Cardinality(DOMAIN rows \ inFlight) <= MaxInteractions

\* The caps take only what is beyond them: an evicted row leaves a full store,
\* or a full token, of newer rows behind, also when other workers trimmed the
\* same token between COUNT and DELETE.
CapsTakeTheOldest ==
  [][\A w \in Workers : job[w].pc \in {"trimToken", "trimAll"} /\ job'[w] # job[w] =>
       \A id \in DOMAIN rows \ DOMAIN rows' :
         \/ Cardinality({j \in DOMAIN rows' : j > id}) >= MaxInteractions
         \/ Cardinality({j \in DOMAIN rows' : j > id /\ rows[j] = rows[id]})
              >= MaxPerToken]_sqlVars
=============================================================================
