--------------------------- MODULE EventBusProofs ---------------------------
(***************************************************************************)
(* Theorems about EventBus, for any events, any workers and any sizes of   *)
(* the channel and the batches.                                            *)
(***************************************************************************)
EXTENDS EventBus, SeqFacts

\* The steps of the bus, without what Next asks of the callers of Submit.
AnyStep ==
  \/ \E e \in Events : Submit(e)
  \/ \E w \in Workers : Worker(w)
  \/ StoreBreaks
  \/ Stop

\* Those without a Submit while Stop is between cancel and close.
CalmStep ==
  \/ \E e \in Events : stop # "cancelled" /\ Submit(e)
  \/ \E w \in Workers : Worker(w)
  \/ StoreBreaks
  \/ Stop

LEMMA NextIsAny ==
  /\ [Next]_vars => [AnyStep]_vars
  /\ [Next]_vars => [CalmStep]_vars
  BY DEF Next, Finished, AnyStep, CalmStep

\* A worker that is not in a flush has room for one more event: Batch bounds
\* its batch.
BatchRoom == \A w \in Workers : call[w] = "none" => Len(batch[w]) < Batch

\* The type invariant, with what makes it inductive.
TypeInv == TypeOK /\ BatchRoom

LEMMA TypeInvInit == Init => TypeInv
<1> SUFFICES ASSUME Init PROVE TypeInv  OBVIOUS
<1> USE WorkersAssumption, BufferAssumption, BatchAssumption DEF Init
<1>1. \A w \in Workers : Len(batch[w]) = 0  OBVIOUS
<1>2. TypeOK
  <2>1. pos \in [Workers -> Positions] /\ call \in [Workers -> Calls]
    BY DEF Positions, Calls
  <2>2. batch \in [Workers -> Seq(Events)] /\ \A w \in Workers : Len(batch[w]) <= Batch
    BY <1>1
  <2>3. ch \in Seq(Events) /\ Len(ch) <= Buffer /\ rows \in Seq(Events)
        /\ accepted \in Seq(Events)
    OBVIOUS
  <2> QED  BY <2>1, <2>2, <2>3 DEF TypeOK, StopStates
<1>3. BatchRoom  BY <1>1 DEF BatchRoom
<1> QED  BY <1>2, <1>3 DEF TypeInv

\* Every step keeps the types and the capacities.
LEMMA TypeInvStep == TypeInv /\ [AnyStep]_vars => TypeInv'
<1> SUFFICES ASSUME TypeInv, [AnyStep]_vars PROVE TypeInv'  OBVIOUS
<1> USE BufferAssumption, BatchAssumption
        DEF TypeInv, TypeOK, BatchRoom, Positions, Calls, StopStates
<1>1. ASSUME NEW e \in Events, Submit(e) PROVE TypeInv'
  <2>1. UNCHANGED <<pos, call, batch, rows, faulty, failed, total, closed, ctxDone, stop>>
    BY <1>1 DEF Submit, workerVars, storeVars, stopVars
  <2>2. CASE SubmitAccepted(e)
    <3>1. /\ Append(ch, e) \in Seq(Events) /\ Len(Append(ch, e)) <= Buffer
          /\ Append(accepted, e) \in Seq(Events)
      BY <2>2 DEF SubmitAccepted
    <3> QED  BY <2>1, <2>2, <3>1 DEF SubmitAccepted
  <2>3. CASE SubmitDropped(e)  BY <2>1, <2>3 DEF SubmitDropped
  <2>4. CASE SubmitPanics(e)  BY <2>1, <2>4 DEF SubmitPanics
  <2> QED  BY <1>1, <2>2, <2>3, <2>4 DEF Submit
<1>2. ASSUME NEW w \in Workers, Receive(w) PROVE TypeInv'
  <2>1. Head(ch) \in Events /\ Tail(ch) \in Seq(Events) /\ Len(Tail(ch)) <= Buffer
    BY <1>2 DEF Receive
  <2> DEFINE b == Append(batch[w], Head(ch))
  <2>2. b \in Seq(Events) /\ Len(b) = Len(batch[w]) + 1 /\ Len(batch[w]) < Batch
    BY <2>1, <1>2 DEF Receive, AtLoop
  <2>3. batch' = [batch EXCEPT ![w] = b] /\ ch' = Tail(ch)
        /\ call' = [call EXCEPT ![w] = IF Len(b) >= Batch THEN "check" ELSE "none"]
    BY <1>2, <2>2 DEF Receive
  <2> HIDE DEF b
  <2>4. \A v \in Workers : Len(batch'[v]) <= Batch
    BY <2>2, <2>3
  <2>5. BatchRoom'
    BY <2>2, <2>3
  <2> QED
    BY <1>2, <2>1, <2>2, <2>3, <2>4, <2>5
       DEF Receive, storeVars, callerVars, stopVars
<1>3. ASSUME NEW w \in Workers, NEW next \in Positions, Flush(w, next),
             UNCHANGED <<ch, storeVars, callerVars, stopVars>>
      PROVE TypeInv'
  BY <1>3 DEF Flush, storeVars, callerVars, stopVars
<1>4. ASSUME NEW w \in Workers, DrainClosed(w) PROVE TypeInv'
  BY <1>4 DEF DrainClosed, storeVars, callerVars, stopVars
<1>5. ASSUME NEW w \in Workers, Discard(w), UNCHANGED <<ch, pos, callerVars, stopVars>>
      PROVE TypeInv'
  <2>1. Range(batch[w]) \subseteq Events  BY RangeOfSeq
  <2> QED  BY <1>5, <2>1 DEF Discard, callerVars, stopVars
<1>6. ASSUME NEW w \in Workers, CtxPassed(w) PROVE TypeInv'
  BY <1>6 DEF CtxPassed, storeVars, callerVars, stopVars
<1>7. ASSUME NEW w \in Workers, Insert(w) PROVE TypeInv'
  BY <1>7 DEF Insert, callerVars, stopVars
<1>8. ASSUME NEW w \in Workers, Count(w) PROVE TypeInv'
  BY <1>8 DEF Count, callerVars, stopVars
<1>9. CASE StoreBreaks
  BY <1>9 DEF StoreBreaks, workerVars, callerVars, stopVars
<1>10. CASE Stop
  BY <1>10 DEF Stop, StopCancel, StopClose, StopDone, StopTimeout,
               workerVars, storeVars, callerVars
<1>11. CASE UNCHANGED vars
  BY <1>11 DEF vars, workerVars, storeVars, callerVars, stopVars
<1>12. ASSUME NEW w \in Workers, Worker(w) PROVE TypeInv'
  BY <1>2, <1>3, <1>4, <1>5, <1>6, <1>7, <1>8, <1>12
     DEF Worker, ReceiveClosed, Tick, CtxDone, DrainEmpty, CtxRefused, InsertFails
<1> QED
  BY <1>1, <1>9, <1>10, <1>11, <1>12 DEF AnyStep

\* The variables keep their types, and neither the channel nor a batch grows
\* beyond its capacity, for every number of workers and every capacity.
THEOREM TypeCorrect == Spec => []TypeOK
<1>1. TypeInv => TypeOK  BY DEF TypeInv
<1> QED  BY <1>1, TypeInvInit, TypeInvStep, NextIsAny, PTL DEF Spec, Safety

-----------------------------------------------------------------------------
(* Exactly once.                                                           *)

\* ExactlyOnce with the types is inductive as it stands.
OnceInv == TypeInv /\ ExactlyOnce

\* InBatches, element by element.
LEMMA InBatchesElements ==
  /\ \A x : x \in InBatches <=> \E w \in Workers : x \in Held(w)
  /\ \A x : x \in InBatches' <=> \E w \in Workers : x \in Held(w)'
BY DEF InBatches

LEMMA InBatchesSame ==
  ASSUME \A w \in Workers : Held(w)' = Held(w) PROVE InBatches' = InBatches
<1>1. \A x : x \in InBatches' <=> x \in InBatches  BY InBatchesElements
<1> QED  BY <1>1

LEMMA OnceInvInit == Init => OnceInv
<1> SUFFICES ASSUME Init PROVE OnceInv  OBVIOUS
<1>1. TypeInv  BY TypeInvInit
<1>2. \A w \in Workers : batch[w] = <<>> /\ Held(w) = {}
  BY EmptySeqFacts DEF Init, Held
<1>3. ExactlyOnce
  BY <1>2, EmptySeqFacts, InBatchesElements DEF Init, ExactlyOnce, NoCopies, Apart, Complete
<1> QED  BY <1>1, <1>3 DEF OnceInv

\* What a step of worker w leaves alone when it touches neither the channel
\* nor the batches of the others.
LEMMA HeldByOthers ==
  ASSUME TypeInv, NEW w \in Workers, NEW b, NEW c,
         batch' = [batch EXCEPT ![w] = b], call' = [call EXCEPT ![w] = c]
  PROVE  /\ \A v \in Workers \ {w} : Held(v)' = Held(v) /\ batch'[v] = batch[v]
         /\ batch'[w] = b
         /\ Held(w)' = IF c = "count" THEN {} ELSE Range(b)
BY DEF TypeInv, TypeOK, Held

\* One event more in the channel and in the history.
LEMMA OnceSubmit ==
  ASSUME OnceInv, NEW e \in Events, Submit(e) PROVE ExactlyOnce'
<1> USE DEF OnceInv, ExactlyOnce, NoCopies, Apart, Complete
<1>1. TypeInv  OBVIOUS
<1>2. ch \in Seq(Events) /\ accepted \in Seq(Events)  BY <1>1 DEF TypeInv, TypeOK
<1>3. UNCHANGED <<pos, call, batch, rows, failed>>
  BY DEF Submit, workerVars, storeVars
<1>4. \A w \in Workers : Held(w)' = Held(w)  BY <1>3 DEF Held
<1>5. CASE UNCHANGED <<ch, accepted>>  BY <1>3, <1>4, <1>5, InBatchesSame
<1>6. CASE SubmitAccepted(e)
  <2>1. e \notin Range(accepted)  BY DEF Submit, Submitted
  <2>2. /\ e \notin Range(ch) /\ e \notin Range(rows) /\ e \notin failed
        /\ \A w \in Workers : e \notin Held(w)
    BY <2>1, InBatchesElements
  <2>3. /\ Range(ch') = Range(ch) \cup {e}
        /\ Range(accepted') = Range(accepted) \cup {e}
    BY <1>2, <1>6, RangeAppend DEF SubmitAccepted
  <2>4. IsInjective(ch')  BY <1>2, <1>6, <2>2, InjectiveAppend DEF SubmitAccepted
  <2>5. NoCopies'  BY <1>3, <2>4
  <2>6. Apart'  BY <1>3, <1>4, <2>2, <2>3
  <2>7. Complete'  BY <1>3, <1>4, <2>3, InBatchesElements
  <2> QED  BY <2>5, <2>6, <2>7
<1> QED  BY <1>5, <1>6 DEF Submit, SubmitDropped, SubmitPanics

\* The head of the channel moves to a worker's batch.
LEMMA OnceReceive ==
  ASSUME OnceInv, NEW w \in Workers, Receive(w) PROVE ExactlyOnce'
<1> USE DEF OnceInv, ExactlyOnce, NoCopies, Apart, Complete
<1>1. TypeInv /\ ch \in Seq(Events) /\ batch[w] \in Seq(Events)
      /\ batch \in [Workers -> Seq(Events)]
  BY DEF TypeInv, TypeOK
<1> DEFINE h == Head(ch)
           b == Append(batch[w], h)
           c == IF Len(batch[w]) + 1 >= Batch THEN "check" ELSE "none"
<1>2. /\ h \in Events /\ h \in Range(ch) /\ Range(Tail(ch)) = Range(ch) \ {h}
      /\ IsInjective(Tail(ch))
  BY <1>1, TailFacts DEF Receive
<1>3. /\ ch' = Tail(ch) /\ batch' = [batch EXCEPT ![w] = b]
      /\ call' = [call EXCEPT ![w] = c] /\ call[w] = "none" /\ c # "count"
      /\ UNCHANGED <<rows, failed, accepted>>
  BY DEF Receive, AtLoop, storeVars, callerVars
<1>4. Held(w) = Range(batch[w]) /\ h \notin Held(w)  BY <1>2, <1>3 DEF Held
<1>5. Range(b) = Range(batch[w]) \cup {h}  BY <1>1, <1>2, RangeAppend
<1>6. IsInjective(b)  BY <1>1, <1>2, <1>4, InjectiveAppend
<1> HIDE DEF b, c, h
<1>7. /\ \A v \in Workers \ {w} : Held(v)' = Held(v) /\ batch'[v] = batch[v]
      /\ batch'[w] = b /\ Held(w)' = Held(w) \cup {h}
  BY <1>1, <1>3, <1>4, <1>5, HeldByOthers
<1>8. NoCopies'  BY <1>2, <1>3, <1>6, <1>7
<1>9. Apart'  BY <1>2, <1>3, <1>7
<1>10. Complete'
  <2>1. InBatches' = InBatches \cup {h}
    BY <1>7, InBatchesElements
  <2> QED  BY <1>2, <1>3, <2>1
<1> QED  BY <1>8, <1>9, <1>10

\* A failed batch moves from the worker to the discarded events.
LEMMA OnceDiscard ==
  ASSUME OnceInv, NEW w \in Workers, call[w] # "count", Discard(w),
         UNCHANGED <<ch, accepted>>
  PROVE  ExactlyOnce'
<1> USE DEF OnceInv, ExactlyOnce, NoCopies, Apart, Complete
<1>1. /\ batch' = [batch EXCEPT ![w] = <<>>] /\ call' = [call EXCEPT ![w] = "none"]
      /\ failed' = failed \cup Held(w) /\ rows' = rows
  BY DEF Discard, Held
<1>2. /\ \A v \in Workers \ {w} : Held(v)' = Held(v) /\ batch'[v] = batch[v]
      /\ batch'[w] = <<>> /\ Held(w)' = {}
  BY <1>1, HeldByOthers, EmptySeqFacts
<1>3. NoCopies'  BY <1>1, <1>2, EmptySeqFacts
<1>4. Apart'  BY <1>1, <1>2
<1>5. Complete'
  <2>1. InBatches = InBatches' \cup Held(w)
    BY <1>2, InBatchesElements
  <2> QED  BY <1>1, <2>1
<1> QED  BY <1>3, <1>4, <1>5

\* A stored batch moves from the worker to the store.
LEMMA OnceInsert ==
  ASSUME OnceInv, NEW w \in Workers, Insert(w) PROVE ExactlyOnce'
<1> USE DEF OnceInv, ExactlyOnce, NoCopies, Apart, Complete
<1>1. TypeInv /\ rows \in Seq(Events) /\ batch[w] \in Seq(Events)
      /\ batch \in [Workers -> Seq(Events)]
  BY DEF TypeInv, TypeOK
<1>2. /\ rows' = rows \o batch[w] /\ call[w] = "insert"
      /\ call' = [call EXCEPT ![w] = "count"]
      /\ UNCHANGED <<ch, batch, failed, accepted>>
  BY DEF Insert, callerVars
<1>3. batch' = [batch EXCEPT ![w] = batch[w]]  BY <1>1, <1>2
<1>4. /\ \A v \in Workers \ {w} : Held(v)' = Held(v)
      /\ Held(w)' = {} /\ Held(w) = Range(batch[w])
  BY <1>1, <1>2, <1>3, HeldByOthers DEF Held
<1>5. Range(rows') = Range(rows) \cup Held(w)
  BY <1>1, <1>2, <1>4, RangeConcatenation
<1>6. IsInjective(rows')  BY <1>1, <1>2, <1>4, InjectiveConcat
<1>7. NoCopies'  BY <1>2, <1>6
<1>8. Apart'  BY <1>2, <1>4, <1>5
<1>9. Complete'
  <2>1. InBatches = InBatches' \cup Held(w)
    BY <1>4, InBatchesElements
  <2> QED  BY <1>2, <1>5, <2>1
<1> QED  BY <1>7, <1>8, <1>9

\* The batch is reset once it has been counted.
LEMMA OnceCount ==
  ASSUME OnceInv, NEW w \in Workers, Count(w) PROVE ExactlyOnce'
<1> USE DEF OnceInv, ExactlyOnce, NoCopies, Apart, Complete
<1>1. /\ batch' = [batch EXCEPT ![w] = <<>>] /\ call' = [call EXCEPT ![w] = "none"]
      /\ Held(w) = {} /\ UNCHANGED <<ch, rows, failed, accepted>>
  BY DEF Count, Held, callerVars
<1>2. /\ \A v \in Workers : Held(v)' = Held(v)
      /\ \A v \in Workers \ {w} : batch'[v] = batch[v]
      /\ batch'[w] = <<>>
  BY <1>1, HeldByOthers, EmptySeqFacts
<1>3. NoCopies'  BY <1>1, <1>2, EmptySeqFacts
<1>4. InBatches' = InBatches  BY <1>2, InBatchesSame
<1> QED  BY <1>1, <1>2, <1>3, <1>4

\* A step that moves no event.
LEMMA OnceSame ==
  ASSUME OnceInv, UNCHANGED <<ch, batch, rows, failed, accepted>>,
         \A w \in Workers : (call'[w] = "count") <=> (call[w] = "count")
  PROVE  ExactlyOnce'
<1>1. \A w \in Workers : Held(w)' = Held(w)  BY DEF Held
<1>2. InBatches' = InBatches  BY <1>1, InBatchesSame
<1> QED  BY <1>1, <1>2 DEF OnceInv, ExactlyOnce, NoCopies, Apart, Complete

LEMMA OnceInvStep == OnceInv /\ [AnyStep]_vars => OnceInv'
<1> SUFFICES ASSUME OnceInv, [AnyStep]_vars PROVE ExactlyOnce'
  BY TypeInvStep DEF OnceInv
<1>1. call \in [Workers -> Calls]  BY DEF OnceInv, TypeInv, TypeOK
<1>2. ASSUME NEW e \in Events, Submit(e) PROVE ExactlyOnce'  BY <1>2, OnceSubmit
<1>3. ASSUME NEW w \in Workers, Worker(w) PROVE ExactlyOnce'
  <2>1. CASE Receive(w)  BY <2>1, OnceReceive
  <2>2. CASE ReceiveClosed(w) \/ Tick(w) \/ CtxDone(w) \/ DrainEmpty(w)
    BY <2>2, <1>1, OnceSame
       DEF ReceiveClosed, Tick, CtxDone, DrainEmpty, Flush, AtLoop,
           storeVars, callerVars
  <2>3. CASE DrainClosed(w)
    BY <2>3, OnceSame DEF DrainClosed, storeVars, callerVars
  <2>4. CASE CtxRefused(w) \/ InsertFails(w)
    BY <2>4, OnceDiscard DEF CtxRefused, InsertFails, callerVars
  <2>5. CASE CtxPassed(w)
    BY <2>5, <1>1, OnceSame DEF CtxPassed, storeVars, callerVars
  <2>6. CASE Insert(w)  BY <2>6, OnceInsert
  <2>7. CASE Count(w)  BY <2>7, OnceCount
  <2> QED  BY <1>3, <2>1, <2>2, <2>3, <2>4, <2>5, <2>6, <2>7 DEF Worker
<1>4. CASE StoreBreaks
  BY <1>4, OnceSame DEF StoreBreaks, workerVars, callerVars
<1>5. CASE Stop
  BY <1>5, OnceSame DEF Stop, StopCancel, StopClose, StopDone, StopTimeout,
                        workerVars, storeVars, callerVars
<1>6. CASE UNCHANGED vars
  BY <1>6, OnceSame DEF vars, workerVars, storeVars, callerVars
<1> QED  BY <1>2, <1>3, <1>4, <1>5, <1>6 DEF AnyStep

\* No interleaving of producers, workers, flushes and Stop mislays an accepted
\* event or stores it twice.
THEOREM ExactlyOnceCorrect == Spec => []ExactlyOnce
<1>1. OnceInv => ExactlyOnce  BY DEF OnceInv
<1> QED  BY <1>1, OnceInvInit, OnceInvStep, NextIsAny, PTL DEF Spec, Safety

-----------------------------------------------------------------------------
(* Stop is a barrier.                                                      *)

\* The flags follow Stop; no worker leaves the outer loop before Stop has
\* begun; the first to return found the channel empty, and it stays so.
StopInv ==
  /\ ctxDone <=> stop # "running"
  /\ closed <=> stop \in {"closed", "stopped", "timedout"}
  /\ \A w \in Workers : pos[w] # "select" => ctxDone
  /\ \A w \in Workers : pos[w] = "done" => ch = <<>>
  /\ stop = "stopped" => \A w \in Workers : Exited(w)

LEMMA StopInvInit == Init => StopInv
  BY DEF Init, StopInv

\* A Submit between the two halves of Stop could break it; a later one panics.
LEMMA StopInvKept == TypeInv /\ StopInv /\ [CalmStep]_vars => StopInv'
<1> SUFFICES ASSUME TypeInv, StopInv, [CalmStep]_vars PROVE StopInv'  OBVIOUS
<1> USE DEF StopInv, Exited
<1>1. pos \in [Workers -> Positions] /\ call \in [Workers -> Calls]
  BY DEF TypeInv, TypeOK
<1>2. ASSUME NEW e \in Events, stop # "cancelled", Submit(e) PROVE StopInv'
  <2>1. UNCHANGED <<pos, call, closed, ctxDone, stop>>
    BY <1>2 DEF Submit, workerVars, stopVars
  <2>2. CASE stop = "running"
    <3>1. \A w \in Workers : pos[w] = "select"  BY <2>2
    <3> QED  BY <2>1, <2>2, <3>1
  <2>3. CASE stop # "running"
    <3>1. closed  BY <1>2, <2>3 DEF TypeInv, TypeOK, StopStates
    <3>2. ch' = ch  BY <1>2, <3>1 DEF Submit, SubmitAccepted, SubmitDropped, SubmitPanics
    <3> QED  BY <2>1, <3>2
  <2> QED  BY <2>2, <2>3
<1>3. ASSUME NEW w \in Workers, Worker(w) PROVE StopInv'
  <2>1. UNCHANGED <<closed, ctxDone, stop>> /\ ~Exited(w)
    BY <1>3 DEF Worker, Receive, ReceiveClosed, Tick, CtxDone, DrainClosed, DrainEmpty,
                CtxRefused, CtxPassed, Insert, InsertFails, Count, AtLoop, stopVars
  <2>2. stop # "stopped"  BY <2>1
  <2>3. CASE Receive(w)  BY <2>1, <2>2, <2>3, <1>1 DEF Receive, AtLoop
  <2>4. CASE ReceiveClosed(w)
    BY <2>1, <2>2, <2>4, <1>1 DEF ReceiveClosed, AtLoop, Flush
  <2>5. CASE Tick(w)  BY <2>1, <2>2, <2>5, <1>1 DEF Tick, AtLoop, Flush
  <2>6. CASE CtxDone(w)  BY <2>1, <2>2, <2>6, <1>1 DEF CtxDone, AtLoop, Flush
  <2>7. CASE DrainClosed(w)  BY <2>1, <2>2, <2>7, <1>1 DEF DrainClosed, AtLoop
  <2>8. CASE DrainEmpty(w)  BY <2>1, <2>2, <2>8, <1>1 DEF DrainEmpty, AtLoop, Flush
  <2>9. CASE UNCHANGED <<ch, pos>>  BY <2>1, <2>2, <2>9
  <2> QED
    BY <1>3, <2>3, <2>4, <2>5, <2>6, <2>7, <2>8, <2>9
       DEF Worker, CtxRefused, CtxPassed, Insert, InsertFails, Count
<1>4. CASE StoreBreaks  BY <1>4 DEF StoreBreaks, workerVars, stopVars
<1>5. CASE Stop
  BY <1>5 DEF Stop, StopCancel, StopClose, StopDone, StopTimeout, workerVars
<1>6. CASE UNCHANGED vars  BY <1>6 DEF vars, workerVars, stopVars
<1> QED  BY <1>2, <1>3, <1>4, <1>5, <1>6 DEF CalmStep

LEMMA StopInvStep == TypeInv /\ StopInv /\ [Next]_vars => StopInv'
  BY NextIsAny, StopInvKept

\* When Stop returns before its drain timeout no event is left in motion and
\* no worker is left running: the store may be closed.
THEOREM StopIsBarrierCorrect == Spec => []StopIsBarrier
<1>1. StopInv => StopIsBarrier
  <2> SUFFICES ASSUME StopInv, stop = "stopped"
               PROVE  Pending = {} /\ \A w \in Workers : Exited(w)
    BY DEF StopIsBarrier
  <2>1. \A w \in Workers : Exited(w)  BY DEF StopInv
  <2>2. ch = <<>>  BY <2>1, WorkersAssumption DEF StopInv, Exited
  <2> QED  BY <2>1, <2>2, EmptySeqFacts DEF Pending
<1>2. TypeInv /\ StopInv /\ [Next]_vars => TypeInv' /\ StopInv'
  BY TypeInvStep, StopInvStep, NextIsAny
<1> QED  BY <1>1, <1>2, TypeInvInit, StopInvInit, PTL DEF Spec, Safety

-----------------------------------------------------------------------------
(* The bus implements Delivery.                                            *)

RefInv == OnceInv /\ StopInv

LEMMA PendingElements ==
  /\ \A x : x \in Pending <=>
       x \in Range(ch) \/ \E w \in Workers : ~Exited(w) /\ x \in Held(w)
  /\ \A x : x \in Pending' <=>
       x \in Range(ch') \/ \E w \in Workers : ~Exited(w)' /\ x \in Held(w)'
BY DEF Pending

LEMMA LostElements ==
  /\ \A x : x \in Lost <=>
       x \in failed \/ \E w \in Workers : Exited(w) /\ x \in Held(w)
  /\ \A x : x \in Lost' <=>
       x \in failed' \/ \E w \in Workers : Exited(w)' /\ x \in Held(w)'
BY DEF Lost, Abandoned

\* What is pending, delivered and lost shares nothing.
LEMMA PlacesApart ==
  ASSUME RefInv
  PROVE  /\ Pending \cap Range(rows) = {} /\ Pending \cap Lost = {}
         /\ Lost \cap Range(rows) = {}
         /\ Pending \cup Lost \cup Range(rows) = Range(accepted)
<1>1. Apart /\ Complete  BY DEF RefInv, OnceInv, ExactlyOnce
<1>2. Pending \cap Range(rows) = {}  BY <1>1, PendingElements DEF Apart
<1>3. Lost \cap Range(rows) = {}  BY <1>1, LostElements DEF Apart
<1>4. ASSUME NEW x \in Pending PROVE x \notin Lost
  BY <1>1, PendingElements, LostElements DEF Apart
<1>5. \A x : x \in Range(accepted) <=>
              x \in Range(ch) \/ x \in InBatches \/ x \in Range(rows) \/ x \in failed
  BY <1>1 DEF Complete
<1>6. \A x : x \in Pending \cup Lost \cup Range(rows) <=> x \in Range(accepted)
  BY <1>5, PendingElements, LostElements, InBatchesElements
<1> QED  BY <1>2, <1>3, <1>4, <1>6

LEMMA RefInit == Init => D!Init
<1> SUFFICES ASSUME Init PROVE D!Init  OBVIOUS
<1>1. \A w \in Workers : Held(w) = {}  BY EmptySeqFacts DEF Init, Held
<1>2. Pending = {} /\ Lost = {} /\ Range(rows) = {}
  BY <1>1, EmptySeqFacts, PendingElements, LostElements DEF Init
<1> QED  BY <1>2 DEF Init, D!Init

\* Submit is Accept or Refuse.
LEMMA RefSubmit ==
  ASSUME RefInv, NEW e \in Events, ~closed, Submit(e)
  PROVE  D!Accept(e) \/ D!Refuse(e)
<1>1. /\ UNCHANGED <<pos, call, batch, rows, failed, ctxDone, faulty>>
      /\ e \notin Range(accepted) /\ e \notin dropped \cup panicked
  BY DEF Submit, Submitted, workerVars, storeVars, stopVars
<1>2. e \in Events \ D!Offered  BY <1>1, PlacesApart DEF D!Offered
<1>3. \A w \in Workers : Held(w)' = Held(w) /\ Exited(w)' = Exited(w)
  BY <1>1 DEF Held, Exited
<1>4. Lost' = Lost
  <2>1. \A x : x \in Lost' <=> x \in Lost  BY <1>1, <1>3, LostElements
  <2> QED  BY <2>1
<1>5. CASE SubmitAccepted(e)
  <2>1. ch \in Seq(Events)  BY DEF RefInv, OnceInv, TypeInv, TypeOK
  <2>2. Range(ch') = Range(ch) \cup {e}
    BY <1>5, <2>1, RangeAppend DEF SubmitAccepted
  <2>3. \A x : x \in Pending' <=> x \in Pending \cup {e}
    BY <1>3, <2>2, PendingElements
  <2>4. Pending' = Pending \cup {e}  BY <2>3
  <2> QED  BY <1>1, <1>2, <1>4, <1>5, <2>4 DEF SubmitAccepted, D!Accept
<1>6. CASE SubmitDropped(e)
  <2>1. \A x : x \in Pending' <=> x \in Pending
    BY <1>3, <1>6, PendingElements DEF SubmitDropped
  <2>2. Pending' = Pending  BY <2>1
  <2> QED  BY <1>1, <1>2, <1>4, <1>6, <2>2 DEF SubmitDropped, D!Refuse
<1> QED  BY <1>5, <1>6 DEF Submit, SubmitPanics

\* A step that keeps every event where it is, seen from Delivery.
LEMMA RefStutter ==
  ASSUME \A x : x \in Pending' <=> x \in Pending,
         \A x : x \in Lost' <=> x \in Lost,
         UNCHANGED <<rows, dropped, panicked, ctxDone, faulty>>
  PROVE  UNCHANGED D!vars
<1>1. Pending' = Pending /\ Lost' = Lost  OBVIOUS
<1> QED  BY <1>1 DEF D!vars

\* The steps of a worker outside the store: events change hands, and those
\* that a returning worker leaves in its batch are lost.
LEMMA RefLoop ==
  ASSUME RefInv, NEW w \in Workers, Worker(w), call[w] = "none"
  PROVE  D!Next \/ UNCHANGED D!vars
<1>1. /\ call \in [Workers -> Calls] /\ pos \in [Workers -> Positions]
      /\ batch \in [Workers -> Seq(Events)] /\ ch \in Seq(Events)
      /\ IsInjective(ch) /\ \A v \in Workers : Held(v) \subseteq Events
  BY RangeOfSeq DEF RefInv, OnceInv, TypeInv, TypeOK, ExactlyOnce, NoCopies, Held
<1>2. /\ UNCHANGED <<rows, faulty, failed, dropped, panicked, ctxDone>>
      /\ ~Exited(w) /\ Held(w) = Range(batch[w])
  BY DEF Worker, Receive, ReceiveClosed, Tick, CtxDone, DrainClosed, DrainEmpty,
         CtxRefused, CtxPassed, Insert, InsertFails, Count, AtLoop, Exited, Held,
         storeVars, callerVars, stopVars
<1>3. CASE Receive(w)
  <2> DEFINE h == Head(ch)
             b == Append(batch[w], h)
  <2>1. /\ h \in Events /\ h \in Range(ch) /\ Range(Tail(ch)) = Range(ch) \ {h}
    BY <1>1, <1>3, TailFacts DEF Receive
  <2>2. PICK c \in {"check", "none"} :
          /\ ch' = Tail(ch) /\ batch' = [batch EXCEPT ![w] = b]
          /\ call' = [call EXCEPT ![w] = c] /\ pos' = pos /\ pos[w] # "done"
    BY <1>3 DEF Receive, AtLoop
  <2>3. Range(b) = Range(batch[w]) \cup {h}  BY <1>1, <2>1, RangeAppend
  <2> HIDE DEF b, h
  <2>4. /\ \A v \in Workers \ {w} : Held(v)' = Held(v)
        /\ Held(w)' = Held(w) \cup {h}
    BY <1>1, <1>2, <2>2, <2>3, HeldByOthers DEF RefInv, OnceInv
  <2>5. \A v \in Workers : Exited(v)' = Exited(v)
    BY <1>1, <2>2 DEF Exited
  <2>6. \A x : x \in Pending' <=> x \in Pending
    BY <1>2, <2>1, <2>2, <2>4, <2>5, PendingElements
  <2>7. \A x : x \in Lost' <=> x \in Lost
    BY <1>2, <2>4, <2>5, LostElements
  <2> QED  BY <1>2, <2>6, <2>7, RefStutter
<1>4. ASSUME NEW next \in Positions, Flush(w, next), UNCHANGED ch
      PROVE  UNCHANGED D!vars
  <2>1. \A v \in Workers : Held(v)' = Held(v)
    BY <1>1, <1>2, <1>4 DEF Flush, Held
  <2>2. \A v \in Workers \ {w} : Exited(v)' = Exited(v)
    BY <1>1, <1>4 DEF Flush, Exited
  <2>3. Exited(w)' => Held(w) = {}
    BY <1>1, <1>2, <1>4, EmptySeqFacts DEF Flush, Exited
  <2>4. \A x : x \in Pending' <=> x \in Pending
    BY <1>2, <1>4, <2>1, <2>2, <2>3, PendingElements
  <2>5. \A x : x \in Lost' <=> x \in Lost
    BY <1>2, <2>1, <2>2, <2>3, LostElements
  <2> QED  BY <1>2, <2>4, <2>5, RefStutter
<1>5. CASE DrainClosed(w)
  <2>1. /\ UNCHANGED <<ch, call, batch>> /\ ctxDone
        /\ pos' = [pos EXCEPT ![w] = "done"]
    BY <1>5 DEF DrainClosed, AtLoop, RefInv, StopInv, storeVars, callerVars, stopVars
  <2>2. \A v \in Workers : Held(v)' = Held(v)  BY <2>1 DEF Held
  <2>3. Exited(w)' /\ \A v \in Workers \ {w} : Exited(v)' = Exited(v)
    BY <1>1, <2>1, <1>5 DEF Exited, DrainClosed, AtLoop
  <2>4. \A x : x \in Lost' <=> x \in Lost \/ x \in Held(w)
    BY <1>2, <2>2, <2>3, LostElements
  <2>5. ch = <<>>  BY <1>5 DEF DrainClosed
  <2>6. \A v \in Workers : v # w => Held(v) \cap Held(w) = {}
    BY DEF RefInv, OnceInv, ExactlyOnce, Apart
  <2>7. \A x : x \in Pending' <=> x \in Pending /\ x \notin Held(w)
    BY <1>2, <2>1, <2>2, <2>3, <2>5, <2>6, EmptySeqFacts, PendingElements
  <2>8. CASE Held(w) = {}  BY <1>2, <2>4, <2>7, <2>8, RefStutter
  <2>9. CASE Held(w) # {}
    <3>1. Held(w) \subseteq Pending  BY <1>2, PendingElements
    <3>2. Pending' = Pending \ Held(w) /\ Lost' = Lost \cup Held(w)
      BY <2>4, <2>7
    <3>3. D!Lose(Held(w))  BY <1>2, <2>1, <2>9, <3>1, <3>2 DEF D!Lose
    <3> QED  BY <1>1, <3>3 DEF D!Next, D!Settle
  <2> QED  BY <2>8, <2>9
<1> QED
  BY <1>3, <1>4, <1>5
     DEF Worker, ReceiveClosed, Tick, CtxDone, DrainEmpty, CtxRefused, CtxPassed,
         Insert, InsertFails, Count, Positions

\* The steps of a flush: a batch is delivered or lost as a whole.
LEMMA RefFlush ==
  ASSUME RefInv, NEW w \in Workers, Worker(w), call[w] # "none"
  PROVE  D!Next \/ UNCHANGED D!vars
<1>1. /\ call \in [Workers -> Calls] /\ pos \in [Workers -> Positions]
      /\ batch \in [Workers -> Seq(Events)] /\ rows \in Seq(Events)
      /\ \A v \in Workers : Held(v) \subseteq Events
  BY RangeOfSeq DEF RefInv, OnceInv, TypeInv, TypeOK, Held
<1>2. /\ UNCHANGED <<ch, pos, dropped, panicked, ctxDone, faulty>> /\ ~Exited(w)
  BY DEF Worker, Receive, ReceiveClosed, Tick, CtxDone, DrainClosed, DrainEmpty,
         CtxRefused, CtxPassed, Insert, InsertFails, Discard, Count, AtLoop, Exited,
         storeVars, callerVars, stopVars
<1>3. Held(w) \subseteq Pending  BY <1>2, PendingElements
<1>4. Held(w) \cap Range(ch) = {} /\ \A v \in Workers : v # w => Held(v) \cap Held(w) = {}
  BY DEF RefInv, OnceInv, ExactlyOnce, Apart
<1>5. CASE CtxRefused(w) \/ InsertFails(w)
  <2>1. /\ batch' = [batch EXCEPT ![w] = <<>>] /\ call' = [call EXCEPT ![w] = "none"]
        /\ failed' = failed \cup Held(w) /\ rows' = rows /\ (ctxDone \/ faulty)
    BY <1>5 DEF CtxRefused, InsertFails, Discard, Held
  <2>2. /\ \A v \in Workers \ {w} : Held(v)' = Held(v)
        /\ Held(w)' = {}
    BY <2>1, HeldByOthers, EmptySeqFacts DEF RefInv, OnceInv
  <2>3. \A v \in Workers \ {w} : Exited(v)' = Exited(v)
    BY <1>1, <1>2, <2>1 DEF Exited
  <2>4. \A x : x \in Pending' <=> x \in Pending /\ x \notin Held(w)
    BY <1>2, <1>4, <2>2, <2>3, PendingElements
  <2>5. \A x : x \in Lost' <=> x \in Lost \/ x \in Held(w)
    BY <1>2, <2>1, <2>2, <2>3, LostElements
  <2>6. CASE Held(w) = {}  BY <1>2, <2>1, <2>4, <2>5, <2>6, RefStutter
  <2>7. CASE Held(w) # {}
    <3>1. Pending' = Pending \ Held(w) /\ Lost' = Lost \cup Held(w)
      BY <2>4, <2>5
    <3>2. D!Lose(Held(w))  BY <1>2, <1>3, <2>1, <2>7, <3>1 DEF D!Lose
    <3> QED  BY <1>1, <3>2 DEF D!Next, D!Settle
  <2> QED  BY <2>6, <2>7
<1>6. CASE Insert(w)
  <2>1. /\ batch' = [batch EXCEPT ![w] = batch[w]]
        /\ call' = [call EXCEPT ![w] = "count"] /\ call[w] = "insert"
        /\ rows' = rows \o batch[w] /\ failed' = failed
    BY <1>1, <1>6 DEF Insert
  <2>2. /\ \A v \in Workers \ {w} : Held(v)' = Held(v)
        /\ Held(w)' = {} /\ Held(w) = Range(batch[w])
    <3>1. TypeInv  BY DEF RefInv, OnceInv
    <3>2. \A v \in Workers \ {w} : Held(v)' = Held(v)
      BY <2>1, <3>1, HeldByOthers
    <3>3. Held(w)' = {} /\ Held(w) = Range(batch[w])
      BY <1>1, <2>1 DEF Held
    <3> QED  BY <3>2, <3>3
  <2>3. /\ \A v \in Workers : Exited(v)' = Exited(v)
    BY <1>1, <1>2, <2>1 DEF Exited
  <2>4. \A x : x \in Pending' <=> x \in Pending /\ x \notin Held(w)
    BY <1>2, <1>4, <2>2, <2>3, PendingElements
  <2>5. \A x : x \in Lost' <=> x \in Lost
    BY <1>2, <2>1, <2>2, <2>3, LostElements
  <2>6. Range(rows') = Range(rows) \cup Held(w)
    BY <1>1, <2>1, <2>2, RangeConcatenation
  <2>7. Pending' = Pending \ Held(w) /\ Lost' = Lost  BY <2>4, <2>5
  <2>8. CASE Held(w) = {}
    <3>1. Range(rows') = Range(rows) /\ Pending' = Pending
      BY <2>6, <2>7, <2>8
    <3> QED  BY <1>2, <2>7, <3>1 DEF D!vars
  <2>9. CASE Held(w) # {}
    <3>1. D!Deliver(Held(w))  BY <1>2, <1>3, <2>6, <2>7, <2>9 DEF D!Deliver
    <3> QED  BY <1>1, <3>1 DEF D!Next, D!Settle
  <2> QED  BY <2>8, <2>9
<1>7. CASE CtxPassed(w) \/ Count(w)
  <2>1. /\ UNCHANGED <<rows, failed>>
        /\ \A v \in Workers : Held(v)' = Held(v)
    BY <1>1, <1>7, EmptySeqFacts DEF CtxPassed, Count, Held, storeVars
  <2>2. \A v \in Workers \ {w} : Exited(v)' = Exited(v)
    BY <1>1, <1>7 DEF CtxPassed, Count, Exited
  <2>3. Exited(w)' => Held(w) = {}
    BY <1>1, <1>7 DEF CtxPassed, Count, Exited, Held
  <2>4. \A x : x \in Pending' <=> x \in Pending
    BY <1>2, <2>1, <2>2, <2>3, PendingElements
  <2>5. \A x : x \in Lost' <=> x \in Lost
    BY <1>2, <2>1, <2>2, <2>3, LostElements
  <2> QED  BY <1>2, <2>1, <2>4, <2>5, RefStutter
<1> QED
  BY <1>5, <1>6, <1>7
     DEF Worker, Receive, ReceiveClosed, Tick, CtxDone, DrainClosed, DrainEmpty, AtLoop

LEMMA RefStep == RefInv /\ [Next]_vars => [D!Next]_(D!vars)
<1> SUFFICES ASSUME RefInv, [Next]_vars PROVE D!Next \/ UNCHANGED D!vars
  OBVIOUS
<1>1. ASSUME NEW e \in Events, stop = "running", Submit(e) PROVE D!Next
  <2>1. ~closed  BY <1>1 DEF RefInv, StopInv
  <2> QED  BY <1>1, <2>1, RefSubmit DEF D!Next
<1>2. ASSUME NEW w \in Workers, Worker(w) PROVE D!Next \/ UNCHANGED D!vars
  BY <1>2, RefLoop, RefFlush
<1>3. CASE StoreBreaks \/ Stop \/ UNCHANGED vars
  <2>1. UNCHANGED <<ch, pos, call, batch, rows, failed, dropped, panicked>>
    BY <1>3 DEF StoreBreaks, Stop, StopCancel, StopClose, StopDone, StopTimeout,
                vars, workerVars, storeVars, callerVars
  <2>2. \A w \in Workers : Held(w)' = Held(w) /\ Exited(w)' = Exited(w)
    BY <2>1 DEF Held, Exited
  <2>3. (\A x : x \in Pending' <=> x \in Pending) /\ (\A x : x \in Lost' <=> x \in Lost)
    BY <2>1, <2>2, PendingElements, LostElements
  <2>4. Pending' = Pending /\ Lost' = Lost  BY <2>3
  <2>5. \/ UNCHANGED <<ctxDone, faulty>>
        \/ ctxDone' = TRUE /\ faulty' = faulty
        \/ faulty' = TRUE /\ ctxDone' = ctxDone
    BY <1>3 DEF StoreBreaks, Stop, StopCancel, StopClose, StopDone, StopTimeout,
                vars, storeVars, stopVars
  <2>6. CASE (ctxDone \/ faulty)' = (ctxDone \/ faulty)
    BY <2>1, <2>4, <2>6 DEF D!vars
  <2>7. CASE ~(ctxDone \/ faulty) /\ (ctxDone \/ faulty)'
    BY <2>1, <2>4, <2>7 DEF D!Next, D!Impair
  <2> QED  BY <2>5, <2>6, <2>7 DEF RefInv, OnceInv, TypeInv, TypeOK
<1> QED  BY <1>1, <1>2, <1>3 DEF Next, Finished

\* Whatever the number of workers, the sizes and the moment of Stop, the bus
\* behaves as Delivery allows: nothing is delivered twice or after it was
\* lost, and nothing is lost before Stop or a fault of the store.
THEOREM BusDelivers == Spec => D!Safety
<1>1. RefInv /\ [Next]_vars => RefInv'
  BY OnceInvStep, StopInvStep, NextIsAny DEF RefInv, OnceInv
<1>2. Init => RefInv  BY OnceInvInit, StopInvInit DEF RefInv
<1> QED  BY <1>1, <1>2, RefInit, RefStep, PTL DEF Spec, Safety, D!Safety

-----------------------------------------------------------------------------
(* With one worker the store keeps the order of submission: the rows, the  *)
(* worker's batch and the channel are one line, from the oldest event to   *)
(* the newest.                                                             *)

\* The pairs of events that were submitted in this order, if at all.
Before ==
  {p \in Events \X Events :
     \A m, n \in DOMAIN accepted : accepted[m] = p[1] /\ accepted[n] = p[2] => m < n}

InOrder(s, R) == \A i, j \in DOMAIN s : i < j => <<s[i], s[j]>> \in R

LineInv ==
  /\ InOrder(rows, Before) /\ InOrder(ch, Before)
  /\ \A w \in Workers :
       call[w] # "count" => InOrder(batch[w], Before)
  /\ \A w \in Workers :
       Range(rows) \X Held(w) \subseteq Before /\ Held(w) \X Range(ch) \subseteq Before
  /\ Range(rows) \X Range(ch) \subseteq Before

OneWorker == \E w \in Workers : Workers = {w}

-----------------------------------------------------------------------------
(* Sequences in an order.                                                  *)

LEMMA InOrderEmpty == \A R : InOrder(<<>>, R)
  BY DEF InOrder

LEMMA InOrderAppend ==
  ASSUME NEW S, NEW R, NEW s \in Seq(S), NEW e \in S, InOrder(s, R),
         Range(s) \X {e} \subseteq R
  PROVE  InOrder(Append(s, e), R)
<1> DEFINE t == Append(s, e)
<1>1. DOMAIN t = 1..(Len(s) + 1) /\ DOMAIN s = 1..Len(s) /\ Len(s) \in Nat  OBVIOUS
<1>2. t[Len(s) + 1] = e /\ \A i \in 1..Len(s) : t[i] = s[i] /\ s[i] \in Range(s)
  BY <1>1 DEF Range
<1>3. ASSUME NEW i \in DOMAIN t, NEW j \in DOMAIN t, i < j PROVE <<t[i], t[j]>> \in R
  <2>1. i \in 1..Len(s)  BY <1>1, <1>3
  <2>2. CASE j = Len(s) + 1
    <3>1. <<s[i], e>> \in Range(s) \X {e}  BY <1>2, <2>1
    <3> QED  BY <1>2, <2>1, <2>2, <3>1
  <2>3. CASE j \in 1..Len(s)  BY <1>1, <1>2, <1>3, <2>1, <2>3 DEF InOrder
  <2> QED  BY <1>1, <1>3, <2>2, <2>3
<1> QED  BY <1>3 DEF InOrder

LEMMA InOrderTail ==
  ASSUME NEW S, NEW R, NEW s \in Seq(S), s # <<>>, InOrder(s, R)
  PROVE  InOrder(Tail(s), R) /\ {Head(s)} \X Range(Tail(s)) \subseteq R
<1> DEFINE t == Tail(s)
<1>1. /\ DOMAIN s = 1..Len(s) /\ DOMAIN t = 1..(Len(s) - 1) /\ Len(s) \in Nat
      /\ 1 \in DOMAIN s /\ Head(s) = s[1]
      /\ \A i \in 1..(Len(s) - 1) : t[i] = s[i + 1]
  OBVIOUS
<1>2. InOrder(t, R)  BY <1>1 DEF InOrder
<1>3. ASSUME NEW x \in Range(t) PROVE <<Head(s), x>> \in R
  <2>1. PICK i \in 1..(Len(s) - 1) : x = s[i + 1]  BY <1>1 DEF Range
  <2>2. i + 1 \in DOMAIN s /\ 1 < i + 1  BY <1>1, <2>1
  <2> QED  BY <1>1, <2>1, <2>2 DEF InOrder
<1> QED  BY <1>2, <1>3

LEMMA InOrderConcat ==
  ASSUME NEW S, NEW R, NEW s \in Seq(S), NEW t \in Seq(S), InOrder(s, R), InOrder(t, R),
         Range(s) \X Range(t) \subseteq R
  PROVE  InOrder(s \o t, R)
<1> DEFINE u == s \o t
<1>1. /\ DOMAIN u = 1..(Len(s) + Len(t)) /\ DOMAIN s = 1..Len(s) /\ DOMAIN t = 1..Len(t)
      /\ Len(s) \in Nat /\ Len(t) \in Nat
  OBVIOUS
<1>2. /\ \A i \in 1..Len(s) : u[i] = s[i] /\ u[i] \in Range(s)
      /\ \A i \in 1..(Len(s) + Len(t)) : i > Len(s) =>
           i - Len(s) \in 1..Len(t) /\ u[i] = t[i - Len(s)] /\ u[i] \in Range(t)
  BY <1>1 DEF Range
<1>3. ASSUME NEW i \in DOMAIN u, NEW j \in DOMAIN u, i < j PROVE <<u[i], u[j]>> \in R
  <2>1. CASE j <= Len(s)
    <3>1. i \in DOMAIN s /\ j \in DOMAIN s  BY <1>1, <1>3, <2>1
    <3> QED  BY <1>1, <1>2, <1>3, <3>1 DEF InOrder
  <2>2. CASE i > Len(s)
    <3>1. /\ i - Len(s) \in DOMAIN t /\ j - Len(s) \in DOMAIN t
          /\ i - Len(s) < j - Len(s)
          /\ u[i] = t[i - Len(s)] /\ u[j] = t[j - Len(s)]
      BY <1>1, <1>2, <1>3, <2>2
    <3> QED  BY <3>1 DEF InOrder
  <2>3. CASE i <= Len(s) /\ j > Len(s)
    <3>1. u[i] \in Range(s) /\ u[j] \in Range(t)  BY <1>1, <1>2, <1>3, <2>3
    <3> QED  BY <3>1
  <2>4. i \in Nat /\ j \in Nat /\ Len(s) \in Nat  BY <1>1, <1>3
  <2>5. j <= Len(s) \/ i > Len(s) \/ (i <= Len(s) /\ j > Len(s))  BY <2>4
  <2> QED  BY <2>1, <2>2, <2>3, <2>5
<1> QED  BY <1>3 DEF InOrder

LEMMA InOrderWeaker ==
  ASSUME NEW R, NEW T, NEW s, InOrder(s, R), \A x, y \in Range(s) : <<x, y>> \in R => <<x, y>> \in T
  PROVE  InOrder(s, T)
BY DEF InOrder, Range

-----------------------------------------------------------------------------
(* The invariant.                                                          *)

LEMMA LineInvInit == Init => LineInv
<1> SUFFICES ASSUME Init PROVE LineInv  OBVIOUS
<1>1. \A w \in Workers : Held(w) = {} /\ batch[w] = <<>>
  BY EmptySeqFacts DEF Init, Held
<1> QED  BY <1>1, InOrderEmpty, EmptySeqFacts DEF Init, LineInv

\* A new event is after all that were submitted before it.
LEMMA BeforeGrows ==
  ASSUME NEW e \in Events, e \notin Range(accepted), accepted \in Seq(Events),
         accepted' = Append(accepted, e)
  PROVE  /\ \A x, y \in Range(accepted) : <<x, y>> \in Before => <<x, y>> \in Before'
         /\ \A x \in Range(accepted) : <<x, e>> \in Before'
<1>1. /\ DOMAIN accepted = 1..Len(accepted) /\ DOMAIN accepted' = 1..(Len(accepted) + 1)
      /\ Len(accepted) \in Nat /\ accepted'[Len(accepted) + 1] = e
      /\ \A i \in 1..Len(accepted) : accepted'[i] = accepted[i]
  OBVIOUS
<1>2. \A x \in Range(accepted) : x \in Events /\ x # e  BY RangeOfSeq
<1>3. ASSUME NEW x \in Range(accepted), NEW m \in DOMAIN accepted', accepted'[m] = x
      PROVE  m \in DOMAIN accepted /\ accepted[m] = x
  BY <1>1, <1>2, <1>3
<1>4. ASSUME NEW x \in Range(accepted), NEW y \in Range(accepted), <<x, y>> \in Before
      PROVE  <<x, y>> \in Before'
  <2>1. \A m, n \in DOMAIN accepted' : accepted'[m] = x /\ accepted'[n] = y => m < n
    BY <1>3, <1>4 DEF Before
  <2> QED  BY <1>2, <2>1 DEF Before
<1>5. ASSUME NEW x \in Range(accepted) PROVE <<x, e>> \in Before'
  <2>1. ASSUME NEW m \in DOMAIN accepted', NEW n \in DOMAIN accepted',
               accepted'[m] = x, accepted'[n] = e
        PROVE  m < n
    <3>1. m \in 1..Len(accepted)  BY <1>1, <1>3, <2>1
    <3>2. n \notin 1..Len(accepted)  BY <1>1, <2>1 DEF Range
    <3> QED  BY <1>1, <2>1, <3>1, <3>2
  <2> QED  BY <1>2, <2>1 DEF Before
<1> QED  BY <1>4, <1>5

\* Nothing moves.
LEMMA LineSame ==
  ASSUME LineInv, UNCHANGED <<ch, batch, rows, accepted>>,
         \A w \in Workers : (call'[w] = "count") <=> (call[w] = "count")
  PROVE  LineInv'
<1>1. \A w \in Workers : Held(w)' = Held(w)  BY DEF Held
<1>2. Before' = Before  BY DEF Before
<1> QED  BY <1>1, <1>2 DEF LineInv

LEMMA LineSubmit ==
  ASSUME OnceInv, LineInv, NEW e \in Events, Submit(e) PROVE LineInv'
<1>1. /\ UNCHANGED <<rows, call, batch>> /\ accepted \in Seq(Events) /\ ch \in Seq(Events)
      /\ \A w \in Workers : Held(w)' = Held(w)
  BY DEF Submit, workerVars, storeVars, OnceInv, TypeInv, TypeOK, Held
<1>2. CASE UNCHANGED <<ch, accepted>>
  BY <1>1, <1>2, LineSame
<1>3. CASE SubmitAccepted(e)
  <2>1. /\ ch' = Append(ch, e) /\ accepted' = Append(accepted, e) /\ e \notin Range(accepted)
    BY <1>3 DEF SubmitAccepted, Submit, Submitted
  <2>2. /\ Range(ch) \subseteq Range(accepted) /\ Range(rows) \subseteq Range(accepted)
        /\ \A w \in Workers : Held(w) \subseteq Range(accepted)
    BY InBatchesElements DEF OnceInv, ExactlyOnce, Complete
  <2>3. /\ \A x, y \in Range(accepted) : <<x, y>> \in Before => <<x, y>> \in Before'
        /\ \A x \in Range(accepted) : <<x, e>> \in Before'
    BY <1>1, <2>1, BeforeGrows
  <2>4. Range(ch') = Range(ch) \cup {e}  BY <1>1, <2>1, RangeAppend
  <2>5. InOrder(rows', Before') /\ InOrder(ch, Before')
    BY <1>1, <2>2, <2>3, InOrderWeaker DEF LineInv
  <2>6. InOrder(ch', Before')
    <3>1. Range(ch) \X {e} \subseteq Before'  BY <2>2, <2>3
    <3> QED  BY <1>1, <2>1, <2>5, <3>1, InOrderAppend
  <2>7. ASSUME NEW w \in Workers, call[w] # "count" PROVE InOrder(batch'[w], Before')
    <3>1. Range(batch[w]) \subseteq Range(accepted)  BY <2>2, <2>7 DEF Held
    <3> QED  BY <1>1, <2>3, <2>7, <3>1, InOrderWeaker DEF LineInv
  <2>8. ASSUME NEW w \in Workers
        PROVE  /\ Range(rows) \X Held(w) \subseteq Before'
               /\ Held(w) \X Range(ch') \subseteq Before'
    BY <2>2, <2>3, <2>4 DEF LineInv
  <2>9. Range(rows) \X Range(ch') \subseteq Before'  BY <2>2, <2>3, <2>4 DEF LineInv
  <2> QED  BY <1>1, <2>5, <2>6, <2>7, <2>8, <2>9 DEF LineInv
<1> QED  BY <1>2, <1>3 DEF Submit, SubmitDropped, SubmitPanics

\* The steps of the one worker there is.
LEMMA LineReceive ==
  ASSUME OnceInv, LineInv, NEW w \in Workers, Workers = {w}, Receive(w) PROVE LineInv'
<1> DEFINE h == Head(ch)
           b == Append(batch[w], h)
<1>1. /\ ch \in Seq(Events) /\ ch # <<>> /\ IsInjective(ch) /\ batch[w] \in Seq(Events)
      /\ batch \in [Workers -> Seq(Events)] /\ call \in [Workers -> Calls]
      /\ ch' = Tail(ch) /\ batch' = [batch EXCEPT ![w] = b] /\ call[w] = "none"
      /\ call'[w] # "count" /\ UNCHANGED <<rows, accepted>>
  BY DEF OnceInv, TypeInv, TypeOK, ExactlyOnce, NoCopies, Receive, AtLoop, storeVars, callerVars
<1>2. /\ h \in Events /\ h \in Range(ch) /\ Range(Tail(ch)) = Range(ch) \ {h}
  BY <1>1, TailFacts
<1>3. Range(b) = Range(batch[w]) \cup {h}  BY <1>1, <1>2, RangeAppend
<1>4. Before' = Before  BY <1>1 DEF Before
<1>5. InOrder(Tail(ch), Before) /\ {h} \X Range(Tail(ch)) \subseteq Before
  BY <1>1, InOrderTail DEF LineInv
<1>6. Held(w) = Range(batch[w])  BY <1>1 DEF Held
<1>7. InOrder(b, Before)
  <2>1. Range(batch[w]) \X {h} \subseteq Before  BY <1>2, <1>6 DEF LineInv
  <2>2. InOrder(batch[w], Before)  BY <1>1 DEF LineInv
  <2> QED  BY <1>1, <1>2, <2>1, <2>2, InOrderAppend
<1> HIDE DEF h, b
<1>8. Held(w)' = Held(w) \cup {h}  BY <1>1, <1>3, <1>6 DEF Held
<1>9. /\ Range(rows) \X (Held(w) \cup {h}) \subseteq Before
      /\ (Held(w) \cup {h}) \X Range(Tail(ch)) \subseteq Before
      /\ Range(rows) \X Range(Tail(ch)) \subseteq Before
  BY <1>2, <1>5 DEF LineInv
<1>10. batch'[w] = b  BY <1>1
<1> QED  BY <1>1, <1>4, <1>5, <1>7, <1>8, <1>9, <1>10 DEF LineInv

LEMMA LineInsert ==
  ASSUME OnceInv, LineInv, NEW w \in Workers, Workers = {w}, Insert(w) PROVE LineInv'
<1>1. /\ rows \in Seq(Events) /\ batch[w] \in Seq(Events) /\ rows' = rows \o batch[w]
      /\ call[w] = "insert" /\ call'[w] = "count"
      /\ UNCHANGED <<ch, batch, accepted>>
  BY DEF OnceInv, TypeInv, TypeOK, Insert, callerVars
<1>2. Before' = Before  BY <1>1 DEF Before
<1>3. Held(w) = Range(batch[w]) /\ Held(w)' = {}  BY <1>1 DEF Held
<1>4. Range(rows') = Range(rows) \cup Held(w)  BY <1>1, <1>3, RangeConcatenation
<1>5. InOrder(rows', Before)
  <2>1. /\ InOrder(rows, Before) /\ InOrder(batch[w], Before)
        /\ Range(rows) \X Range(batch[w]) \subseteq Before
    BY <1>1, <1>3 DEF LineInv
  <2> QED  BY <1>1, <2>1, InOrderConcat
<1>6. Range(rows') \X Range(ch) \subseteq Before  BY <1>4 DEF LineInv
<1> QED  BY <1>1, <1>2, <1>3, <1>5, <1>6 DEF LineInv

\* The batch is emptied.
LEMMA LineEmptied ==
  ASSUME LineInv, NEW w \in Workers, Workers = {w}, batch'[w] = <<>>,
         UNCHANGED <<ch, rows, accepted>>
  PROVE  LineInv'
<1>1. Held(w)' = {} /\ Before' = Before  BY EmptySeqFacts DEF Held, Before
<1> QED  BY <1>1, InOrderEmpty DEF LineInv

LEMMA LineInvStep == OneWorker /\ OnceInv /\ LineInv /\ [AnyStep]_vars => LineInv'
<1> SUFFICES ASSUME OneWorker, OnceInv, LineInv, [AnyStep]_vars PROVE LineInv'  OBVIOUS
<1>1. PICK w \in Workers : Workers = {w}  BY DEF OneWorker
<1>2. call \in [Workers -> Calls] /\ batch \in [Workers -> Seq(Events)]
  BY DEF OnceInv, TypeInv, TypeOK
<1>3. CASE Worker(w)
  <2>1. CASE ReceiveClosed(w) \/ Tick(w) \/ CtxDone(w) \/ DrainEmpty(w)
    BY <1>2, <2>1, LineSame
       DEF ReceiveClosed, Tick, CtxDone, DrainEmpty, Flush, AtLoop, storeVars, callerVars
  <2>2. CASE DrainClosed(w)  BY <2>2, LineSame DEF DrainClosed, storeVars, callerVars
  <2>3. CASE CtxPassed(w)
    BY <1>2, <2>3, LineSame DEF CtxPassed, storeVars, callerVars
  <2>4. CASE CtxRefused(w) \/ InsertFails(w) \/ Count(w)
    <3>1. batch'[w] = <<>> /\ UNCHANGED <<ch, rows, accepted>>
      BY <1>2, <2>4 DEF CtxRefused, InsertFails, Count, Discard, callerVars
    <3> QED  BY <1>1, <3>1, LineEmptied
  <2> QED
    BY <1>1, <1>3, <2>1, <2>2, <2>3, <2>4, LineReceive, LineInsert DEF Worker
<1>4. ASSUME NEW e \in Events, Submit(e) PROVE LineInv'  BY <1>4, LineSubmit
<1>5. CASE StoreBreaks \/ Stop \/ UNCHANGED vars
  BY <1>5, LineSame
     DEF StoreBreaks, Stop, StopCancel, StopClose, StopDone, StopTimeout,
         vars, workerVars, storeVars, callerVars
<1> QED  BY <1>1, <1>3, <1>4, <1>5 DEF AnyStep

LEMMA LineIsOrder == LineInv /\ OnceInv => OneWorkerKeepsOrder
<1> SUFFICES ASSUME LineInv, NEW i \in DOMAIN rows, NEW j \in DOMAIN rows, i < j,
                    NEW m \in DOMAIN accepted, NEW n \in DOMAIN accepted,
                    accepted[m] = rows[i], accepted[n] = rows[j]
             PROVE  m < n
  BY DEF OneWorkerKeepsOrder
<1>1. <<rows[i], rows[j]>> \in Before  BY DEF LineInv, InOrder
<1> QED  BY <1>1 DEF Before

\* One worker numbers the interactions in the order of their submission, be
\* the batches full, flushed by the ticker, drained at Stop or lost between.
THEOREM OrderIsKept == Spec => []OneWorkerKeepsOrder
<1> DEFINE Inv == OnceInv /\ (OneWorker => LineInv)
<1>1. Init => Inv  BY OnceInvInit, LineInvInit
<1>2. Inv /\ [Next]_vars => Inv'
  <2>1. OneWorker' = OneWorker  BY DEF OneWorker
  <2> QED  BY <2>1, OnceInvStep, LineInvStep, NextIsAny
<1>3. Inv => OneWorkerKeepsOrder
  <2>1. ~OneWorker => OneWorkerKeepsOrder  BY DEF OneWorker, OneWorkerKeepsOrder
  <2> QED  BY <2>1, LineIsOrder
<1> QED  BY <1>1, <1>2, <1>3, PTL DEF Spec, Safety

-----------------------------------------------------------------------------
(* The total that main logs when it ends. It is incremented by every       *)
(* worker on its own, after its batch was stored: until then the two       *)
(* differ by the batches that are stored and not counted.                  *)

Counting == {w \in Workers : call[w] = "count"}
Uncounted == UNION {Range(batch[w]) : w \in Counting}

\* What is stored and not counted is in one batch only.
TotalInv ==
  /\ \A w \in Counting : Range(batch[w]) \subseteq Range(rows)
  /\ \A v, w \in Counting : v # w => Range(batch[v]) \cap Range(batch[w]) = {}
  /\ total + Cardinality(Uncounted) = Len(rows)

LEMMA UncountedElements ==
  /\ \A x : x \in Uncounted <=> \E w \in Counting : x \in Range(batch[w])
  /\ \A x : x \in Uncounted' <=> \E w \in Counting' : x \in Range(batch'[w])
BY DEF Uncounted

LEMMA UncountedFinite ==
  ASSUME OnceInv, TotalInv
  PROVE  /\ IsFiniteSet(Uncounted) /\ Cardinality(Uncounted) \in Nat
         /\ Uncounted \subseteq Range(rows)
<1>1. Uncounted \subseteq Range(rows)  BY UncountedElements DEF TotalInv
<1>2. rows \in Seq(Events) /\ IsInjective(rows)
  BY DEF OnceInv, TypeInv, TypeOK, ExactlyOnce, NoCopies
<1>3. IsFiniteSet(Range(rows))  BY <1>2, CardinalityOfRange
<1> QED  BY <1>1, <1>3, FS_Subset, FS_CardinalityType

LEMMA TotalInvInit == Init => TotalInv
<1> SUFFICES ASSUME Init PROVE TotalInv  OBVIOUS
<1>1. Counting = {}  BY DEF Init, Counting
<1>2. Uncounted = {}  BY <1>1, UncountedElements
<1> QED  BY <1>1, <1>2, FS_EmptySet DEF Init, TotalInv

\* The steps that neither store nor count.
LEMMA TotalSame ==
  ASSUME TotalInv, UNCHANGED <<rows, total>>, Counting' = Counting,
         \A w \in Counting : batch'[w] = batch[w]
  PROVE  TotalInv'
<1>1. Uncounted' = Uncounted
  <2>1. \A x : x \in Uncounted' <=> x \in Uncounted  BY UncountedElements
  <2> QED  BY <2>1
<1>2. (\A w \in Counting : Range(batch[w]) \subseteq Range(rows))'
  BY DEF TotalInv
<1>3. (\A v, w \in Counting : v # w => Range(batch[v]) \cap Range(batch[w]) = {})'
  BY DEF TotalInv
<1> QED  BY <1>1, <1>2, <1>3 DEF TotalInv

LEMMA TotalInsert ==
  ASSUME OnceInv, TotalInv, NEW w \in Workers, Insert(w)
  PROVE  TotalInv'
<1> DEFINE b == Range(batch[w])
<1>1. /\ batch[w] \in Seq(Events) /\ rows \in Seq(Events) /\ IsInjective(batch[w])
      /\ call \in [Workers -> Calls]
      /\ call[w] = "insert" /\ rows' = rows \o batch[w]
      /\ call' = [call EXCEPT ![w] = "count"] /\ UNCHANGED <<batch, total>>
  BY DEF OnceInv, TypeInv, TypeOK, ExactlyOnce, NoCopies, Insert
<1>2. b \cap Range(rows) = {}
  BY <1>1 DEF OnceInv, ExactlyOnce, Apart, Held
<1>3. Counting' = Counting \cup {w} /\ w \notin Counting  BY <1>1 DEF Counting
<1>4. Range(rows') = Range(rows) \cup b  BY <1>1, RangeConcatenation
<1>5. Uncounted' = Uncounted \cup b
  <2>1. \A x : x \in Uncounted' <=> x \in Uncounted \cup b
    BY <1>1, <1>3, UncountedElements
  <2> QED  BY <2>1
<1>6. IsFiniteSet(b) /\ Cardinality(b) = Len(batch[w]) /\ Len(batch[w]) \in Nat
  BY <1>1, CardinalityOfRange
<1>7. Uncounted \cap b = {}  BY <1>2, UncountedFinite
<1>8. Cardinality(Uncounted') = Cardinality(Uncounted) + Len(batch[w])
  <2>1. Cardinality(Uncounted \cup b) = Cardinality(Uncounted) + Cardinality(b) - Cardinality({})
    BY <1>6, <1>7, UncountedFinite, FS_Union
  <2> QED  BY <1>5, <1>6, <2>1, FS_EmptySet, UncountedFinite
<1>9. Len(rows') = Len(rows) + Len(batch[w])  BY <1>1
<1>10. (\A v \in Counting : Range(batch[v]) \subseteq Range(rows))'
  BY <1>1, <1>3, <1>4 DEF TotalInv
<1>11. (\A v, u \in Counting : v # u => Range(batch[v]) \cap Range(batch[u]) = {})'
  <2>1. \A v \in Counting : Range(batch[v]) \cap b = {}  BY <1>2 DEF TotalInv
  <2> QED  BY <1>1, <1>3, <2>1 DEF TotalInv
<1>12. total' + Cardinality(Uncounted') = Len(rows')
  <2>1. total \in Nat /\ Len(rows) \in Nat  BY <1>1 DEF OnceInv, TypeInv, TypeOK
  <2>2. total + Cardinality(Uncounted) = Len(rows)  BY DEF TotalInv
  <2>3. Cardinality(Uncounted) \in Nat  BY UncountedFinite, FS_CardinalityType
  <2>4. total' = total  BY <1>1
  <2> QED  BY <1>6, <1>8, <1>9, <2>1, <2>2, <2>3, <2>4
<1> QED  BY <1>10, <1>11, <1>12 DEF TotalInv

LEMMA TotalCount ==
  ASSUME OnceInv, TotalInv, NEW w \in Workers, Count(w)
  PROVE  TotalInv'
<1> DEFINE b == Range(batch[w])
<1>1. /\ batch[w] \in Seq(Events) /\ IsInjective(batch[w])
      /\ batch \in [Workers -> Seq(Events)] /\ call \in [Workers -> Calls]
      /\ call[w] = "count" /\ total' = total + Len(batch[w]) /\ rows' = rows
      /\ call' = [call EXCEPT ![w] = "none"] /\ batch' = [batch EXCEPT ![w] = <<>>]
  BY DEF OnceInv, TypeInv, TypeOK, ExactlyOnce, NoCopies, Count
<1>2. Counting' = Counting \ {w} /\ w \in Counting  BY <1>1 DEF Counting
<1>3. \A v \in Counting' : v \in Workers /\ batch'[v] = batch[v]
  BY <1>1, <1>2 DEF Counting
<1>4. Uncounted' = Uncounted \ b /\ b \subseteq Uncounted
  <2>1. \A v \in Counting : v # w => Range(batch[v]) \cap b = {}
    BY <1>2 DEF TotalInv
  <2>2. \A x : x \in Uncounted' <=> x \in Uncounted \ b
    BY <1>2, <1>3, <2>1, UncountedElements
  <2>3. b \subseteq Uncounted  BY <1>2, UncountedElements
  <2> QED  BY <2>2, <2>3
<1>5. IsFiniteSet(b) /\ Cardinality(b) = Len(batch[w]) /\ Len(batch[w]) \in Nat
  BY <1>1, CardinalityOfRange
<1>6. Cardinality(Uncounted') = Cardinality(Uncounted) - Len(batch[w])
  <2>1. Uncounted \cap b = b  BY <1>4
  <2>2. Cardinality(Uncounted \ b) = Cardinality(Uncounted) - Cardinality(Uncounted \cap b)
    BY UncountedFinite, FS_Difference
  <2> QED  BY <1>4, <1>5, <2>1, <2>2
<1>7. (\A v \in Counting : Range(batch[v]) \subseteq Range(rows))'
  BY <1>1, <1>2, <1>3 DEF TotalInv
<1>8. (\A v, u \in Counting : v # u => Range(batch[v]) \cap Range(batch[u]) = {})'
  BY <1>2, <1>3 DEF TotalInv
<1>9. total' + Cardinality(Uncounted') = Len(rows')
  <2>1. total \in Nat  BY DEF OnceInv, TypeInv, TypeOK
  <2>2. total + Cardinality(Uncounted) = Len(rows)  BY DEF TotalInv
  <2>3. Cardinality(Uncounted) \in Nat  BY UncountedFinite, FS_CardinalityType
  <2>4. total' = total + Len(batch[w]) /\ Len(rows') = Len(rows)  BY <1>1
  <2> QED  BY <1>5, <1>6, <2>1, <2>2, <2>3, <2>4
<1> QED  BY <1>7, <1>8, <1>9 DEF TotalInv

LEMMA TotalInvStep == OnceInv /\ TotalInv /\ [AnyStep]_vars => TotalInv'
<1> SUFFICES ASSUME OnceInv, TotalInv, [AnyStep]_vars PROVE TotalInv'  OBVIOUS
<1>1. call \in [Workers -> Calls] /\ batch \in [Workers -> Seq(Events)]
  BY DEF OnceInv, TypeInv, TypeOK
<1>2. ASSUME UNCHANGED <<call, batch, rows, total>> PROVE TotalInv'
  BY <1>2, TotalSame DEF Counting
<1>3. ASSUME NEW w \in Workers, call[w] # "count", NEW b, NEW c, c # "count",
             batch' = [batch EXCEPT ![w] = b], call' = [call EXCEPT ![w] = c],
             UNCHANGED <<rows, total>>
      PROVE  TotalInv'
  <2>1. Counting' = Counting /\ w \notin Counting /\ Counting \subseteq Workers
    BY <1>1, <1>3 DEF Counting
  <2>2. \A v \in Counting : batch'[v] = batch[v]  BY <1>1, <1>3, <2>1
  <2> QED  BY <1>3, <2>1, <2>2, TotalSame
<1>4. ASSUME NEW w \in Workers, Worker(w) PROVE TotalInv'
  <2>1. CASE Receive(w)
    BY <1>3, <2>1 DEF Receive, AtLoop, storeVars
  <2>2. CASE ReceiveClosed(w) \/ Tick(w) \/ CtxDone(w) \/ DrainEmpty(w) \/ CtxPassed(w)
    <3>1. batch' = [batch EXCEPT ![w] = batch[w]] /\ call[w] # "count"
      BY <1>1, <2>2
         DEF ReceiveClosed, Tick, CtxDone, DrainEmpty, CtxPassed, Flush, AtLoop
    <3>2. PICK c \in {"none", "check", "insert"} : call' = [call EXCEPT ![w] = c]
      BY <1>1, <2>2
         DEF ReceiveClosed, Tick, CtxDone, DrainEmpty, CtxPassed, Flush, AtLoop
    <3>3. UNCHANGED <<rows, total>>
      BY <2>2 DEF ReceiveClosed, Tick, CtxDone, DrainEmpty, CtxPassed, storeVars
    <3> QED  BY <1>3, <3>1, <3>2, <3>3
  <2>3. CASE DrainClosed(w)
    BY <1>2, <2>3 DEF DrainClosed, storeVars
  <2>4. CASE CtxRefused(w) \/ InsertFails(w)
    BY <1>3, <2>4 DEF CtxRefused, InsertFails, Discard
  <2> QED  BY <1>4, <2>1, <2>2, <2>3, <2>4, TotalInsert, TotalCount DEF Worker
<1>5. ASSUME NEW e \in Events, Submit(e) PROVE TotalInv'
  BY <1>2, <1>5 DEF Submit, workerVars, storeVars
<1>6. CASE StoreBreaks \/ Stop \/ UNCHANGED vars
  BY <1>2, <1>6 DEF StoreBreaks, Stop, StopCancel, StopClose, StopDone, StopTimeout,
                    vars, workerVars, storeVars
<1> QED  BY <1>4, <1>5, <1>6 DEF AnyStep

\* A total without anything uncounted.
LEMMA TotalSettled ==
  ASSUME OnceInv, TotalInv, \A w \in Workers : Exited(w)
  PROVE  total = Len(rows)
<1>1. Uncounted = {}  BY UncountedElements DEF Counting, Exited
<1>2. total \in Nat /\ Len(rows) \in Nat  BY DEF OnceInv, TypeInv, TypeOK
<1> QED  BY <1>1, <1>2, FS_EmptySet DEF TotalInv

\* When Stop returns before its timeout the logged total is the number of the
\* interactions stored, whatever the workers did at the same time.
THEOREM TotalIsRight == Spec => []TotalIsExact
<1>1. OnceInv /\ TotalInv /\ StopInv => TotalIsExact
  BY TotalSettled DEF StopInv, TotalIsExact
<1>2. OnceInv => TypeInv  BY DEF OnceInv
<1> QED
  BY <1>1, <1>2, OnceInvInit, OnceInvStep, TotalInvInit, TotalInvStep, StopInvInit,
     StopInvStep, NextIsAny, PTL DEF Spec, Safety

-----------------------------------------------------------------------------
(* A closed bus runs out of work.                                          *)

PosLeft(w) == IF pos[w] = "select" THEN 2 ELSE IF pos[w] = "drain" THEN 1 ELSE 0
CallLeft(w) ==
  IF call[w] = "check" THEN 3 ELSE IF call[w] = "insert" THEN 2
  ELSE IF call[w] = "count" THEN 1 ELSE IF batch[w] # <<>> THEN 4 ELSE 0

\* The steps that a worker has left once the channel is closed, at most.
WorkLeft(w) == 5 * Len(ch) + PosLeft(w) + CallLeft(w)

\* Once the channel is closed every step of a worker leaves it fewer to take, and
\* nobody's step leaves another worker more: no loop of a worker spins, and the
\* pool is gone after a number of steps that the channel's capacity bounds.
ClosedBusRunsOut ==
  [][closed => \A w \in Workers :
       /\ WorkLeft(w)' \in Nat /\ WorkLeft(w)' <= WorkLeft(w)
       /\ Worker(w) => WorkLeft(w)' < WorkLeft(w)]_vars

LEMMA WorkTypes ==
  TypeOK => Len(ch) \in Nat /\ \A w \in Workers :
              PosLeft(w) \in 0..2 /\ CallLeft(w) \in 0..4 /\ WorkLeft(w) \in Nat
<1> SUFFICES ASSUME TypeOK, NEW w \in Workers
             PROVE  Len(ch) \in Nat /\ PosLeft(w) \in 0..2 /\ CallLeft(w) \in 0..4 /\ WorkLeft(w) \in Nat
  BY WorkersAssumption
<1>1. Len(ch) \in Nat  BY DEF TypeOK
<1>2. PosLeft(w) \in 0..2 /\ CallLeft(w) \in 0..4  BY DEF PosLeft, CallLeft
<1> QED  BY <1>1, <1>2 DEF WorkLeft

LEMMA WorkTypesNext ==
  TypeOK' => Len(ch') \in Nat /\ \A w \in Workers :
               PosLeft(w)' \in 0..2 /\ CallLeft(w)' \in 0..4 /\ WorkLeft(w)' \in Nat
<1>1. TypeOK' => (Len(ch) \in Nat /\ \A w \in Workers :
                    PosLeft(w) \in 0..2 /\ CallLeft(w) \in 0..4 /\ WorkLeft(w) \in Nat)'
  BY WorkTypes, PTL
<1> QED  BY <1>1

\* A step that changes none of it.
LEMMA WorkSame ==
  ASSUME TypeOK, NEW w \in Workers, ch' = ch,
         pos'[w] = pos[w], call'[w] = call[w], batch'[w] = batch[w]
  PROVE  WorkLeft(w)' = WorkLeft(w)
BY DEF WorkLeft, PosLeft, CallLeft

LEMMA WorkerWorks ==
  ASSUME TypeOK, TypeOK', NEW w \in Workers, Worker(w)
  PROVE  /\ WorkLeft(w)' < WorkLeft(w)
         /\ \A v \in Workers \ {w} : WorkLeft(v)' <= WorkLeft(v)
<1>1. /\ Len(ch) \in Nat /\ Len(ch') \in Nat
      /\ \A v \in Workers : /\ PosLeft(v) \in 0..2 /\ CallLeft(v) \in 0..4 /\ WorkLeft(v) \in Nat
                            /\ PosLeft(v)' \in 0..2 /\ CallLeft(v)' \in 0..4 /\ WorkLeft(v)' \in Nat
  BY WorkTypes, WorkTypesNext
<1>2. /\ DOMAIN pos = Workers /\ DOMAIN call = Workers /\ DOMAIN batch = Workers
      /\ pos[w] \in Positions
  BY DEF TypeOK
<1>3. \A v \in Workers \ {w} :
        pos'[v] = pos[v] /\ call'[v] = call[v] /\ batch'[v] = batch[v]
  BY <1>2 DEF Worker, Receive, ReceiveClosed, Tick, CtxDone, DrainClosed, DrainEmpty, CtxRefused,
              CtxPassed, Insert, InsertFails, Count, Flush, Discard
<1>4. CASE Receive(w)
  <2>1. Len(ch') = Len(ch) - 1  BY <1>4 DEF Receive, TypeOK
  <2>2. pos' = pos  BY <1>4 DEF Receive
  <2>3. \A v \in Workers : PosLeft(v)' = PosLeft(v)  BY <2>2 DEF PosLeft
  <2>4. \A v \in Workers \ {w} : CallLeft(v)' = CallLeft(v)  BY <1>3 DEF CallLeft
  <2>5. WorkLeft(w)' < WorkLeft(w)  BY <1>1, <2>1, <2>3 DEF WorkLeft
  <2>6. ASSUME NEW v \in Workers \ {w} PROVE WorkLeft(v)' <= WorkLeft(v)
    <3>1. PosLeft(v)' = PosLeft(v) /\ CallLeft(v)' = CallLeft(v)  BY <2>3, <2>4
    <3>2. PosLeft(v) \in 0..2 /\ CallLeft(v) \in 0..4  BY <1>1
    <3>3. Len(ch') = Len(ch) - 1 /\ Len(ch) \in Nat  BY <1>1, <2>1
    <3> QED  BY <3>1, <3>2, <3>3 DEF WorkLeft
  <2> QED  BY <2>5, <2>6
<1>5. ASSUME ch' = ch, PosLeft(w)' + CallLeft(w)' < PosLeft(w) + CallLeft(w)
      PROVE  /\ WorkLeft(w)' < WorkLeft(w)
             /\ \A v \in Workers \ {w} : WorkLeft(v)' <= WorkLeft(v)
  <2>1. WorkLeft(w)' < WorkLeft(w)
    <3>1. /\ PosLeft(w) \in 0..2 /\ CallLeft(w) \in 0..4
          /\ PosLeft(w)' \in 0..2 /\ CallLeft(w)' \in 0..4
      BY <1>1
    <3>2. Len(ch') = Len(ch) /\ Len(ch) \in Nat  BY <1>1, <1>5
    <3> QED  BY <1>5, <3>1, <3>2 DEF WorkLeft
  <2>2. ASSUME NEW v \in Workers \ {w} PROVE WorkLeft(v)' <= WorkLeft(v)
    <3>1. WorkLeft(v)' = WorkLeft(v)  BY <1>3, <1>5, WorkSame
    <3> QED  BY <1>1, <3>1
  <2> QED  BY <2>1, <2>2
<1>6. ASSUME NEW next \in {"select", "drain", "done"}, Flush(w, next), call[w] = "none",
             \/ pos[w] = "select" /\ (next # "select" \/ batch[w] # <<>>)
             \/ pos[w] = "drain" /\ next = "done"
      PROVE  PosLeft(w)' + CallLeft(w)' < PosLeft(w) + CallLeft(w)
  <2>1. pos'[w] = next /\ batch'[w] = batch[w]
        /\ call'[w] = IF batch[w] = <<>> THEN "none" ELSE "check"
    BY <1>2, <1>6 DEF Flush
  <2>2. CallLeft(w)' <= CallLeft(w) /\ (batch[w] # <<>> => CallLeft(w)' < CallLeft(w))
    BY <1>6, <2>1 DEF CallLeft
  <2>3. PosLeft(w)' <= PosLeft(w) /\ (pos[w] = next \/ PosLeft(w)' < PosLeft(w))
    BY <1>6, <2>1 DEF PosLeft
  <2> QED  BY <1>1, <1>6, <2>2, <2>3
<1>7. CASE ReceiveClosed(w) \/ Tick(w) \/ CtxDone(w) \/ DrainEmpty(w)
  <2>1. ch' = ch  BY <1>7 DEF ReceiveClosed, Tick, CtxDone, DrainEmpty
  <2>2. PosLeft(w)' + CallLeft(w)' < PosLeft(w) + CallLeft(w)
    <3>1. CASE ReceiveClosed(w)  BY <1>6, <3>1 DEF ReceiveClosed, AtLoop
    <3>2. CASE Tick(w)  BY <1>6, <3>2 DEF Tick, AtLoop
    <3>3. CASE CtxDone(w)  BY <1>6, <3>3 DEF CtxDone, AtLoop
    <3>4. CASE DrainEmpty(w)  BY <1>6, <3>4 DEF DrainEmpty, AtLoop
    <3> QED  BY <1>7, <3>1, <3>2, <3>3, <3>4
  <2> QED  BY <1>5, <2>1, <2>2
<1>8. CASE DrainClosed(w)
  <2>1. /\ ch' = ch /\ pos[w] = "drain" /\ pos'[w] = "done"
        /\ call' = call /\ batch' = batch
    BY <1>2, <1>8 DEF DrainClosed, AtLoop
  <2>2. PosLeft(w) = 1 /\ PosLeft(w)' = 0 /\ CallLeft(w)' = CallLeft(w)
    BY <2>1 DEF PosLeft, CallLeft
  <2> QED  BY <1>1, <1>5, <2>1, <2>2
<1>9. CASE CtxRefused(w) \/ CtxPassed(w) \/ Insert(w) \/ InsertFails(w) \/ Count(w)
  <2>1. ch' = ch /\ pos' = pos
    BY <1>9 DEF CtxRefused, CtxPassed, Insert, InsertFails, Count
  <2>2. \/ call[w] \in {"check", "insert", "count"} /\ call'[w] = "none" /\ batch'[w] = <<>>
        \/ call[w] = "check" /\ call'[w] = "insert"
        \/ call[w] = "insert" /\ call'[w] = "count"
    BY <1>2, <1>9 DEF CtxRefused, CtxPassed, Insert, InsertFails, Count, Discard
  <2>3. PosLeft(w)' = PosLeft(w)  BY <2>1 DEF PosLeft
  <2>4. CallLeft(w)' < CallLeft(w)  BY <2>2 DEF CallLeft
  <2> QED  BY <1>1, <1>5, <2>1, <2>3, <2>4
<1> QED  BY <1>4, <1>7, <1>8, <1>9 DEF Worker

THEOREM WorkersRunOut == Spec => ClosedBusRunsOut
<1>1. TypeInv /\ TypeInv' /\ [Next]_vars =>
        [closed => \A w \in Workers :
           /\ WorkLeft(w)' \in Nat /\ WorkLeft(w)' <= WorkLeft(w)
           /\ Worker(w) => WorkLeft(w)' < WorkLeft(w)]_vars
  <2> SUFFICES ASSUME TypeInv, TypeInv', Next, closed, ~UNCHANGED vars, NEW w \in Workers
               PROVE  /\ WorkLeft(w)' \in Nat /\ WorkLeft(w)' <= WorkLeft(w)
                      /\ Worker(w) => WorkLeft(w)' < WorkLeft(w)
    OBVIOUS
  <2>1. TypeOK /\ TypeOK'  BY DEF TypeInv
  <2>2. WorkLeft(w)' \in Nat /\ WorkLeft(w) \in Nat  BY <2>1, WorkTypes, WorkTypesNext
  <2>3. Worker(w) => WorkLeft(w)' < WorkLeft(w)  BY <2>1, WorkerWorks
  <2>4. CASE \E v \in Workers : Worker(v)
    <3>1. PICK v \in Workers : Worker(v)  BY <2>4
    <3>2. CASE v = w  BY <2>2, <2>3, <3>1, <3>2
    <3>3. CASE v # w  BY <2>1, <2>2, <2>3, <3>1, <3>3, WorkerWorks
    <3> QED  BY <3>2, <3>3
  <2>5. CASE ~(\E v \in Workers : Worker(v))
    <3>1. ch' = ch /\ UNCHANGED workerVars
      BY <2>5 DEF Next, Submit, SubmitAccepted, SubmitDropped, SubmitPanics, StoreBreaks,
                  Stop, StopCancel, StopClose, StopDone, StopTimeout, Finished, vars
    <3>2. WorkLeft(w)' = WorkLeft(w)  BY <2>1, <3>1, WorkSame DEF workerVars
    <3> QED  BY <2>2, <2>3, <3>2
  <2> QED  BY <2>4, <2>5
<1> QED  BY <1>1, TypeInvInit, TypeInvStep, NextIsAny, PTL DEF Spec, Safety, ClosedBusRunsOut
=============================================================================
