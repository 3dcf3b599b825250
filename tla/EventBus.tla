------------------------------ MODULE EventBus ------------------------------
(***************************************************************************)
(* The ingestion bus of internal/interaction/bus.go: a bounded channel of  *)
(* interactions, a pool of workers that batch them and hand each batch to  *)
(* Store.AddInteractions, and the shutdown of Stop.                        *)
(*                                                                         *)
(* A worker is described by two program counters. pos[w] is the loop the   *)
(* worker is in, or to which flush() returns: the outer select, the drain  *)
(* select of the ctx.Done branch, or "done" when the function returns.     *)
(* call[w] is the progress of the flush() call it is in: "none", "check"   *)
(* (AddInteractions entered, its context not yet tested), "insert" (test   *)
(* passed), "count" (stored, total not yet incremented).                   *)
(*                                                                         *)
(* Every event is a distinct interaction and is submitted at most once.    *)
(***************************************************************************)
EXTENDS Integers, Sequences, FiniteSets, Functions

CONSTANTS
  Events,        \* the interactions the collectors may submit
  Workers,       \* the worker goroutines
  Buffer,        \* capacity of the channel
  Batch,         \* b.batch
  HonorsCtx,     \* AddInteractions fails once its context is cancelled
  StoreMayFail   \* the store may break: AddInteractions may then fail too

ASSUME WorkersAssumption == Workers # {}
ASSUME BufferAssumption == Buffer \in Nat \ {0}
ASSUME BatchAssumption == Batch \in Nat \ {0}
ASSUME StoreAssumption == HonorsCtx \in BOOLEAN /\ StoreMayFail \in BOOLEAN

VARIABLES
  ch,        \* b.ch, oldest first
  closed,    \* close(b.ch) was called
  ctxDone,   \* b.ctx is cancelled
  pos, call, batch,   \* per worker
  rows,      \* the interactions of the store, in id order
  faulty,    \* the store has broken (disk full, locked database, ...)
  failed,    \* events of the batches that AddInteractions refused
  total,     \* b.total
  dropped,   \* the events counted by b.dropped
  panicked,  \* the events whose Submit panicked
  stop,      \* progress of Stop
  accepted   \* history: the events Submit took, in order

workerVars == <<pos, call, batch>>
storeVars == <<rows, faulty, failed, total>>
callerVars == <<dropped, panicked, accepted>>
stopVars == <<closed, ctxDone, stop>>
vars == <<ch, workerVars, storeVars, callerVars, stopVars>>

Positions == {"select", "drain", "done"}
Calls == {"none", "check", "insert", "count"}
StopStates == {"running", "cancelled", "closed", "stopped", "timedout"}

Exited(w) == pos[w] = "done" /\ call[w] = "none"
Submitted == Range(accepted) \cup dropped \cup panicked

-----------------------------------------------------------------------------
\* New and Start.
Init ==
  /\ ch = <<>>
  /\ closed = FALSE
  /\ ctxDone = FALSE
  /\ pos = [w \in Workers |-> "select"]
  /\ call = [w \in Workers |-> "none"]
  /\ batch = [w \in Workers |-> <<>>]
  /\ rows = <<>>
  /\ faulty = FALSE
  /\ failed = {}
  /\ total = 0
  /\ dropped = {}
  /\ panicked = {}
  /\ stop = "running"
  /\ accepted = <<>>

-----------------------------------------------------------------------------
(* Submit: a non-blocking send.                                            *)

SubmitAccepted(e) ==
  /\ ~closed
  /\ Len(ch) < Buffer
  /\ ch' = Append(ch, e)
  /\ accepted' = Append(accepted, e)
  /\ UNCHANGED <<dropped, panicked>>

SubmitDropped(e) ==
  /\ ~closed
  /\ Len(ch) >= Buffer
  /\ dropped' = dropped \cup {e}
  /\ UNCHANGED <<ch, accepted, panicked>>

\* A send on a closed channel panics, even inside a select with a default.
SubmitPanics(e) ==
  /\ closed
  /\ panicked' = panicked \cup {e}
  /\ UNCHANGED <<ch, accepted, dropped>>

Submit(e) ==
  /\ e \in Events \ Submitted
  /\ SubmitAccepted(e) \/ SubmitDropped(e) \/ SubmitPanics(e)
  /\ UNCHANGED <<workerVars, storeVars, stopVars>>

-----------------------------------------------------------------------------
(* The workers.                                                            *)

AtLoop(w, p) == pos[w] = p /\ call[w] = "none"

-----------------------------------------------------------------------------
(* Faults that the properties must tell from the code.                     *)

\* "len(batch) > b.batch" instead of ">=".
ReceiveOneTooMany(w) ==
  /\ AtLoop(w, "select") \/ AtLoop(w, "drain")
  /\ ch # <<>>
  /\ ch' = Tail(ch)
  /\ batch' = [batch EXCEPT ![w] = Append(batch[w], Head(ch))]
  /\ call' = [call EXCEPT ![w] =
                IF Len(batch[w]) + 1 > Batch THEN "check" ELSE "none"]
  /\ UNCHANGED <<pos, storeVars, callerVars, stopVars>>

\* The batch is filled from the front.
ReceiveInFront(w) ==
  /\ AtLoop(w, "select") \/ AtLoop(w, "drain")
  /\ ch # <<>>
  /\ ch' = Tail(ch)
  /\ batch' = [batch EXCEPT ![w] = <<Head(ch)>> \o batch[w]]
  /\ call' = [call EXCEPT ![w] =
                IF Len(batch[w]) + 1 >= Batch THEN "check" ELSE "none"]
  /\ UNCHANGED <<pos, storeVars, callerVars, stopVars>>

\* The select has no ticker case.
NoTick(w) == FALSE

\* "break" instead of "return": it leaves the select, not the drain loop.
DrainSpins(w) ==
  /\ AtLoop(w, "drain")
  /\ closed /\ ch = <<>>
  /\ UNCHANGED vars

\* "batch = batch[:0]" is forgotten.
CountKeepsBatch(w) ==
  /\ call[w] = "count"
  /\ total' = total + Len(batch[w])
  /\ call' = [call EXCEPT ![w] = "none"]
  /\ UNCHANGED <<ch, pos, batch, rows, faulty, failed, callerVars, stopVars>>

\* Stop waits for one worker only.
StopWaitsForOne ==
  /\ stop = "closed"
  /\ \E w \in Workers : Exited(w)
  /\ stop' = "stopped"
  /\ UNCHANGED <<ch, closed, ctxDone, workerVars, storeVars, callerVars>>

-----------------------------------------------------------------------------
(* The two loops.                                                          *)

\* flush(): nothing to do for an empty batch; otherwise call the store and
\* resume at the given position.
Flush(w, next) ==
  /\ pos' = [pos EXCEPT ![w] = next]
  /\ call' = [call EXCEPT ![w] = IF batch[w] = <<>> THEN "none" ELSE "check"]
  /\ UNCHANGED batch

\* Either loop receives an event, and flushes when the batch is full.
Receive(w) ==
  /\ AtLoop(w, "select") \/ AtLoop(w, "drain")
  /\ ch # <<>>
  /\ ch' = Tail(ch)
  /\ batch' = [batch EXCEPT ![w] = Append(batch[w], Head(ch))]
  /\ call' = [call EXCEPT ![w] =
                IF Len(batch[w]) + 1 >= Batch THEN "check" ELSE "none"]
  /\ UNCHANGED <<pos, storeVars, callerVars, stopVars>>

\* The outer select finds the channel closed and empty.
ReceiveClosed(w) ==
  /\ AtLoop(w, "select")
  /\ closed /\ ch = <<>>
  /\ Flush(w, "done")
  /\ UNCHANGED <<ch, storeVars, callerVars, stopVars>>

\* The flush ticker fires (a tick on an empty batch changes nothing).
Tick(w) ==
  /\ AtLoop(w, "select")
  /\ batch[w] # <<>>
  /\ Flush(w, "select")
  /\ UNCHANGED <<ch, storeVars, callerVars, stopVars>>

CtxDone(w) ==
  /\ AtLoop(w, "select")
  /\ ctxDone
  /\ Flush(w, "drain")
  /\ UNCHANGED <<ch, storeVars, callerVars, stopVars>>

\* The drain loop finds the channel closed: it returns without a flush, and
\* what the batch holds is abandoned.
DrainClosed(w) ==
  /\ AtLoop(w, "drain")
  /\ closed /\ ch = <<>>
  /\ pos' = [pos EXCEPT ![w] = "done"]
  /\ UNCHANGED <<ch, call, batch, storeVars, callerVars, stopVars>>

\* The drain loop finds the channel empty but open: the default case.
DrainEmpty(w) ==
  /\ AtLoop(w, "drain")
  /\ ~closed /\ ch = <<>>
  /\ Flush(w, "done")
  /\ UNCHANGED <<ch, storeVars, callerVars, stopVars>>

-----------------------------------------------------------------------------
(* AddInteractions as flush() calls it, then what flush() does with the    *)
(* result.                                                                 *)

\* The error path: logged, and the batch is reset like a stored one.
Discard(w) ==
  /\ failed' = failed \cup Range(batch[w])
  /\ batch' = [batch EXCEPT ![w] = <<>>]
  /\ call' = [call EXCEPT ![w] = "none"]
  /\ UNCHANGED <<rows, faulty, total>>

\* The context is tested on entry.
CtxRefused(w) ==
  /\ call[w] = "check"
  /\ HonorsCtx /\ ctxDone
  /\ Discard(w)
  /\ UNCHANGED <<ch, pos, callerVars, stopVars>>

CtxPassed(w) ==
  /\ call[w] = "check"
  /\ ~(HonorsCtx /\ ctxDone)
  /\ call' = [call EXCEPT ![w] = "insert"]
  /\ UNCHANGED <<ch, pos, batch, storeVars, callerVars, stopVars>>

\* The batch is stored as a whole, under the store's lock or transaction.
Insert(w) ==
  /\ call[w] = "insert"
  /\ rows' = rows \o batch[w]
  /\ call' = [call EXCEPT ![w] = "count"]
  /\ UNCHANGED <<ch, pos, batch, faulty, failed, total, callerVars, stopVars>>

\* The insert fails after the test: the store is broken, or, in the transaction of
\* the SQLite store, the context has been cancelled meanwhile.
InsertFails(w) ==
  /\ call[w] = "insert"
  /\ faulty \/ (HonorsCtx /\ ctxDone)
  /\ Discard(w)
  /\ UNCHANGED <<ch, pos, callerVars, stopVars>>

Count(w) ==
  /\ call[w] = "count"
  /\ total' = total + Len(batch[w])
  /\ batch' = [batch EXCEPT ![w] = <<>>]
  /\ call' = [call EXCEPT ![w] = "none"]
  /\ UNCHANGED <<ch, pos, rows, faulty, failed, callerVars, stopVars>>

\* Not the bus: the store's disk, from which InsertFails comes.
StoreBreaks ==
  /\ StoreMayFail /\ ~faulty
  /\ faulty' = TRUE
  /\ UNCHANGED <<ch, workerVars, rows, failed, total, callerVars, stopVars>>

Worker(w) ==
  \/ Receive(w) \/ ReceiveClosed(w) \/ Tick(w)
  \/ CtxDone(w) \/ DrainClosed(w) \/ DrainEmpty(w)
  \/ CtxRefused(w) \/ CtxPassed(w)
  \/ Insert(w) \/ InsertFails(w) \/ Count(w)

-----------------------------------------------------------------------------
(* Stop: cancel the context, close the channel, wait for the workers or    *)
(* for the drain timeout.                                                  *)

StopCancel ==
  /\ stop = "running"
  /\ ctxDone' = TRUE
  /\ stop' = "cancelled"
  /\ UNCHANGED <<ch, closed, workerVars, storeVars, callerVars>>

StopClose ==
  /\ stop = "cancelled"
  /\ closed' = TRUE
  /\ stop' = "closed"
  /\ UNCHANGED <<ch, ctxDone, workerVars, storeVars, callerVars>>

StopDone ==
  /\ stop = "closed"
  /\ \A w \in Workers : Exited(w)
  /\ stop' = "stopped"
  /\ UNCHANGED <<ch, closed, ctxDone, workerVars, storeVars, callerVars>>

StopTimeout ==
  /\ stop = "closed"
  /\ \E w \in Workers : ~Exited(w)
  /\ stop' = "timedout"
  /\ UNCHANGED <<ch, closed, ctxDone, workerVars, storeVars, callerVars>>

Stop == StopCancel \/ StopClose \/ StopDone \/ StopTimeout

\* Stop has returned and the pool is gone: nothing is left to happen.
Finished ==
  /\ stop \in {"stopped", "timedout"}
  /\ \A w \in Workers : Exited(w)
  /\ UNCHANGED vars

\* The callers' side of the contract: no Submit once Stop has begun.
Next ==
  \/ \E e \in Events : stop = "running" /\ Submit(e)
  \/ \E w \in Workers : Worker(w)
  \/ StoreBreaks
  \/ Stop
  \/ Finished

\* Goroutines that can run do, and a Stop that has begun goes on to its end.
Fairness ==
  /\ \A w \in Workers : WF_vars(Worker(w))
  /\ WF_vars(StopClose) /\ WF_vars(StopDone)

Safety == Init /\ [][Next]_vars
Spec == Safety /\ Fairness

-----------------------------------------------------------------------------
(* Where an accepted event can be.                                         *)

\* In a worker's batch, not yet in the store.
Held(w) == IF call[w] = "count" THEN {} ELSE Range(batch[w])

InBatches == UNION {Held(w) : w \in Workers}

Pending == Range(ch) \cup UNION {Held(w) : w \in {v \in Workers : ~Exited(v)}}
Abandoned == UNION {Held(w) : w \in {v \in Workers : Exited(v)}}
Lost == failed \cup Abandoned

-----------------------------------------------------------------------------
(* Properties.                                                             *)

\* The variables keep their types; the channel and the batches never outgrow
\* their capacities.
TypeOK ==
  /\ ch \in Seq(Events) /\ Len(ch) <= Buffer
  /\ closed \in BOOLEAN /\ ctxDone \in BOOLEAN
  /\ pos \in [Workers -> Positions]
  /\ call \in [Workers -> Calls]
  /\ batch \in [Workers -> Seq(Events)]
  /\ \A w \in Workers : Len(batch[w]) <= Batch
  /\ rows \in Seq(Events)
  /\ faulty \in BOOLEAN
  /\ failed \subseteq Events
  /\ total \in Nat
  /\ dropped \subseteq Events /\ panicked \subseteq Events
  /\ stop \in StopStates
  /\ accepted \in Seq(Events)

\* No place holds an event twice,
NoCopies ==
  /\ IsInjective(ch) /\ IsInjective(rows)
  /\ \A w \in Workers : IsInjective(batch[w])

\* no two places hold the same event,
Apart ==
  /\ Range(ch) \cap (Range(rows) \cup failed) = {}
  /\ Range(rows) \cap failed = {}
  /\ \A w \in Workers : Held(w) \cap (Range(ch) \cup Range(rows) \cup failed) = {}
  /\ \A v, w \in Workers : v # w => Held(v) \cap Held(w) = {}

\* and the places hold the events Submit took, no more and no fewer.
Complete ==
  Range(accepted) = Range(ch) \cup InBatches \cup Range(rows) \cup failed

\* Every event for which Submit returned nil is in exactly one place: queued,
\* in one worker's batch, stored once, or in a batch that was discarded. No
\* interleaving of workers, flushes and Stop stores it twice or mislays it.
ExactlyOnce == NoCopies /\ Apart /\ Complete

\* With a single worker the store numbers the interactions in the order in
\* which the collectors submitted them.
OneWorkerKeepsOrder ==
  (\E w \in Workers : Workers = {w}) =>
    \A i, j \in DOMAIN rows : i < j =>
      \A m, n \in DOMAIN accepted :
        accepted[m] = rows[i] /\ accepted[n] = rows[j] => m < n

\* When Stop returns without its drain timeout, nothing is in motion any
\* more: no event is queued or in a batch that could still be stored, and
\* every worker is gone, so main may close the store.
StopIsBarrier ==
  stop = "stopped" => Pending = {} /\ \A w \in Workers : Exited(w)

\* The total that main then logs is the number of interactions stored, though
\* it is incremented after the batch is.
TotalIsExact == stop = "stopped" => total = Len(rows)

\* Stop drains: "Blocks until all workers have flushed their in-flight batches
\* or the drain timeout expires", "drain whatever is left" (bus.go). When it
\* returns in time, every event that Submit took is in the store. (Not so: see
\* the runs bus_stop_ctx and bus_stop_drain.)
StopDrains ==
  stop = "stopped" /\ ~faulty => Range(accepted) \subseteq Range(rows)

\* Once Stop has begun every worker returns, whatever is queued: wg.Wait of
\* Stop needs no drain timeout as long as the store answers.
WorkersReturn == ctxDone ~> \A w \in Workers : Exited(w)

\* The bus keeps what Delivery promises: an accepted event is delivered at
\* most once, lost only after Stop has begun or the store has broken, and is
\* settled in the end.
D == INSTANCE Delivery WITH
       pending <- Pending,
       delivered <- Range(rows),
       lost <- Lost,
       refused <- dropped \cup panicked,
       impaired <- ctxDone \/ faulty

Delivers == D!Spec
=============================================================================
