---------------------------- MODULE SQLiteProofs ----------------------------
(***************************************************************************)
(* The caps and the transactions of the SQLite store, for any workers,     *)
(* tokens, caps and batches, and any number of faults.                     *)
(***************************************************************************)
EXTENDS SQLiteStore, SeqFacts

Stages == {"idle", "tx", "caps", "trimToken", "trimAll"}

\* What a worker remembers at each statement.
Sound(j) ==
  /\ j.pc \in Stages
  /\ j.pc = "tx" => j.batch \in Seq(AnyToken)
  /\ j.pc = "caps" => j = [pc |-> "caps", ids |-> j.ids, todo |-> j.todo] /\ j.todo \subseteq Tokens
  /\ j.pc = "trimToken" => j.todo \subseteq Tokens /\ j.token \in j.todo
  /\ "ids" \in DOMAIN j <=> j.pc \in {"caps", "trimToken", "trimAll"}

\* The types, what the workers remember, and who may hold the write lock.
TxInv ==
  /\ SQLTypeOK
  /\ lastId \in Nat /\ pending \in Seq(AnyToken)
  /\ DOMAIN job = Workers /\ \A w \in Workers : Sound(job[w])
  /\ writer # NoOne =>
       /\ At(writer, "tx") /\ Len(pending) <= Len(job[writer].batch)
       /\ \A i \in 1..Len(pending) : pending[i] = job[writer].batch[i]

InFlight == UNION {job[w].ids : w \in {v \in Workers : "ids" \in DOMAIN job[v]}}

\* A token above its cap is still to be counted or trimmed, by the last worker
\* that added to it if by no other.
WillCount(t) ==
  \E w \in Workers : job[w].pc \in {"caps", "trimToken"} /\ t \in job[w].todo

CapsInv ==
  ~skipped =>
    /\ Cardinality(DOMAIN rows \ InFlight) <= MaxInteractions
    /\ \A t \in Tokens : Cardinality(OfToken(t)) <= MaxPerToken \/ WillCount(t)

-----------------------------------------------------------------------------
(* The table.                                                              *)

LEMMA RowsAreFinite ==
  ASSUME TxInv
  PROVE  /\ IsFiniteSet(DOMAIN rows) /\ DOMAIN rows \subseteq Nat
         /\ \A S : IsFiniteSet(DOMAIN rows \ S) /\ Cardinality(DOMAIN rows \ S) \in Nat
         /\ Cardinality(DOMAIN rows) \in Nat
         /\ \A t : OfToken(t) \subseteq DOMAIN rows /\ IsFiniteSet(OfToken(t))
                   /\ Cardinality(OfToken(t)) \in Nat
<1>1. lastId \in Nat /\ DOMAIN rows \subseteq 1..lastId  BY DEF TxInv, SQLTypeOK
<1>2. IsFiniteSet(1..lastId)  BY <1>1, FS_Interval
<1>3. IsFiniteSet(DOMAIN rows) /\ DOMAIN rows \subseteq Nat  BY <1>1, <1>2, FS_Subset
<1>4. \A S : IsFiniteSet(DOMAIN rows \ S) /\ Cardinality(DOMAIN rows \ S) \in Nat
  BY <1>3, FS_Difference, FS_CardinalityType
<1>5. \A t : OfToken(t) \subseteq DOMAIN rows  BY DEF OfToken
<1>6. \A t : IsFiniteSet(OfToken(t)) /\ Cardinality(OfToken(t)) \in Nat
  BY <1>3, <1>5, FS_Subset, FS_CardinalityType
<1> QED  BY <1>3, <1>4, <1>5, <1>6, FS_CardinalityType

\* Newest is NewestBy for the ids themselves.
LEMMA NewestIds ==
  ASSUME NEW S, IsFiniteSet(S), S \subseteq Nat, NEW n \in Nat
  PROVE  /\ Newest(S, n) \subseteq S /\ Cardinality(Newest(S, n)) <= n
         /\ Cardinality(Newest(S, n)) \in Nat
         /\ \A x \in S \ Newest(S, n) : \A y \in Newest(S, n) : y > x
         /\ S # Newest(S, n) => Cardinality(Newest(S, n)) = n
<1> DEFINE key == [i \in S |-> i]
<1>1. key \in [S -> Nat] /\ IsInjective(key) /\ \A i \in S : key[i] = i  BY DEF IsInjective
<1>2. \A x \in S : Above(S, key, x) = {j \in S : j >= x}  BY DEF Above
<1>3. Newest(S, n) = NewestBy(S, key, n)  BY <1>2 DEF Newest, NewestBy
<1> HIDE DEF key
<1>4. /\ NewestBy(S, key, n) \subseteq S /\ Cardinality(NewestBy(S, key, n)) <= n
      /\ Cardinality(NewestBy(S, key, n)) \in Nat
      /\ \A x \in S \ NewestBy(S, key, n) : \A y \in NewestBy(S, key, n) : key[y] > key[x]
      /\ S # NewestBy(S, key, n) => Cardinality(NewestBy(S, key, n)) = n
  BY <1>1, NewestFacts
<1>5. PICK N : N = Newest(S, n) /\ N = NewestBy(S, key, n)  BY <1>3
<1>6. N \subseteq S /\ Cardinality(N) <= n /\ Cardinality(N) \in Nat  BY <1>4, <1>5
<1>7. ASSUME NEW x \in S \ N, NEW y \in N PROVE y > x
  <2>1. key[y] > key[x]  BY <1>4, <1>5
  <2>2. x \in S /\ y \in S  BY <1>6
  <2>3. key[x] = x /\ key[y] = y  BY <1>1, <2>2
  <2> QED  BY <2>1, <2>3
<1>8. S # N => Cardinality(N) = n  BY <1>4, <1>5
<1> QED  BY <1>5, <1>6, <1>7, <1>8

\* What a DELETE leaves.
LEMMA KeepFacts ==
  ASSUME NEW S, S \subseteq DOMAIN rows, rows' = Keep(S), TxInv
  PROVE  /\ DOMAIN rows' = S /\ \A x \in S : rows'[x] = rows[x]
         /\ rows' \in [DOMAIN rows' -> AnyToken]
<1>1. DOMAIN rows' = S /\ \A x \in S : rows'[x] = rows[x]  BY DEF Keep, Restrict
<1>2. rows' = [x \in S |-> rows[x]]  BY DEF Keep, Restrict
<1>3. \A x \in S : rows[x] \in AnyToken  BY DEF TxInv, SQLTypeOK
<1> QED  BY <1>1, <1>2, <1>3

\* What a commit adds.
LEMMA CommitFacts ==
  ASSUME TxInv, NEW w \in Workers, TxCommit(w)
  PROVE  /\ DOMAIN rows' = DOMAIN rows \cup NewIds /\ DOMAIN rows \cap NewIds = {}
         /\ lastId' \in Nat /\ DOMAIN rows' \subseteq 1..lastId'
         /\ rows' \in [DOMAIN rows' -> AnyToken]
         /\ \A id \in DOMAIN rows : rows'[id] = rows[id]
         /\ \A id \in NewIds : rows'[id] \in Range(job[w].batch)
         /\ Cardinality(NewIds) = Len(pending)
<1>1. /\ lastId \in Nat /\ DOMAIN rows \subseteq 1..lastId /\ pending \in Seq(AnyToken)
      /\ rows \in [DOMAIN rows -> AnyToken]
      /\ Len(pending) \in Nat /\ DOMAIN pending = 1..Len(pending)
      /\ \A i \in 1..Len(pending) : pending[i] \in AnyToken
  BY DEF TxInv, SQLTypeOK
<1>2. /\ rows' = [id \in DOMAIN rows \cup NewIds |->
                    IF id > lastId THEN pending[id - lastId] ELSE rows[id]]
      /\ lastId' = lastId + Len(pending)
  BY DEF TxCommit, Commit
<1>3. /\ \A id \in DOMAIN rows : ~(id > lastId) /\ id \notin NewIds
      /\ \A id \in NewIds : id > lastId /\ id - lastId \in 1..Len(pending)
      /\ NewIds \subseteq 1..(lastId + Len(pending))
  BY <1>1 DEF NewIds
<1>4. \A id \in NewIds : rows'[id] = pending[id - lastId]  BY <1>2, <1>3
<1>5. \A id \in NewIds : rows'[id] \in AnyToken /\ rows'[id] \in Range(job[w].batch)
  <2>1. /\ Len(pending) = Len(job[w].batch) /\ job[w].batch \in Seq(AnyToken)
        /\ \A i \in 1..Len(pending) : pending[i] = job[w].batch[i]
    BY DEF TxInv, TxCommit, Sound, At, SQLTypeOK
  <2>2. DOMAIN job[w].batch = 1..Len(pending)  BY <2>1
  <2> QED  BY <1>1, <1>3, <1>4, <2>1, <2>2 DEF Range
<1>6. \A id \in DOMAIN rows : rows'[id] = rows[id] /\ rows'[id] \in AnyToken
  BY <1>1, <1>2, <1>3
<1>7. DOMAIN rows' = DOMAIN rows \cup NewIds  BY <1>2
<1>8. rows' \in [DOMAIN rows' -> AnyToken]
  <2>1. rows' = [id \in DOMAIN rows' |-> rows'[id]]  BY <1>2
  <2> QED  BY <1>5, <1>6, <1>7, <2>1
<1>9. Cardinality(NewIds) = Len(pending)
  <2> DEFINE a == lastId + 1
             b == lastId + Len(pending)
  <2>1. a \in Int /\ b \in Int /\ NewIds = a..b  BY <1>1 DEF NewIds
  <2> HIDE DEF a, b
  <2>2. Cardinality(NewIds) = IF a > b THEN 0 ELSE b - a + 1  BY <2>1, FS_Interval
  <2> QED  BY <1>1, <2>2 DEF a, b
<1>10. lastId' \in Nat /\ DOMAIN rows' \subseteq 1..lastId'
  BY <1>1, <1>2, <1>3, <1>7
<1> QED  BY <1>3, <1>5, <1>6, <1>7, <1>8, <1>9, <1>10

-----------------------------------------------------------------------------
(* The types and the write lock.                                           *)

LEMMA GotoFacts ==
  ASSUME TxInv, NEW w \in Workers, NEW next, Goto(w, next)
  PROVE  /\ DOMAIN job' = Workers /\ job'[w] = next
         /\ \A v \in Workers \ {w} : job'[v] = job[v]
         /\ Sound(next) => \A v \in Workers : Sound(job'[v])
<1>1. DOMAIN job' = Workers /\ job'[w] = next /\ \A v \in Workers \ {w} : job'[v] = job[v]
  BY DEF TxInv, Goto
<1> QED  BY <1>1 DEF TxInv

\* A statement of enforceCaps leaves the transaction of another worker alone.
LEMMA CapsStep ==
  ASSUME TxInv, NEW w \in Workers, ~At(w, "tx"), NEW next, Sound(next), Goto(w, next),
         lastId' = lastId, UNCHANGED txVars,
         rows' = rows \/ \E S \in SUBSET DOMAIN rows : rows' = Keep(S)
  PROVE  TxInv'
<1>1. /\ DOMAIN job' = Workers /\ \A v \in Workers : Sound(job'[v])
      /\ \A v \in Workers \ {w} : job'[v] = job[v]
  BY GotoFacts
<1>2. rows' \in [DOMAIN rows' -> AnyToken] /\ DOMAIN rows' \subseteq DOMAIN rows
  <2>1. CASE rows' = rows  BY <2>1 DEF TxInv, SQLTypeOK
  <2>2. CASE \E S \in SUBSET DOMAIN rows : rows' = Keep(S)  BY <2>2, KeepFacts
  <2> QED  BY <2>1, <2>2
<1>3. \A v \in Workers : job'[v].pc \in {"idle", "tx", "caps", "trimToken", "trimAll"}
  BY <1>1 DEF Sound, Stages
<1>4. SQLTypeOK'
  BY <1>2, <1>3 DEF TxInv, SQLTypeOK, txVars, AnyToken
<1>5. writer # NoOne => writer \in Workers \ {w} /\ job'[writer] = job[writer]
  BY <1>1 DEF TxInv, SQLTypeOK
<1> QED  BY <1>1, <1>4, <1>5 DEF TxInv, txVars, At, AnyToken

\* TrimToken's rows: the others, and the newest of the token.
TrimmedTo(t) == (DOMAIN rows \ OfToken(t)) \cup Newest(OfToken(t), MaxPerToken)

LEMMA NextStages ==
  ASSUME TxInv, NEW w \in Workers
  PROVE  /\ Sound(Idle)
         /\ \A i : Sound([pc |-> "trimAll", ids |-> i])
         /\ \A i : \A T \in SUBSET Tokens : Sound([pc |-> "caps", ids |-> i, todo |-> T])
         /\ \A i, n : \A T \in SUBSET Tokens : \A t \in T :
              Sound([pc |-> "trimToken", ids |-> i, todo |-> T, token |-> t, n |-> n])
         /\ At(w, "caps") => \A t \in job[w].todo :
              /\ [job[w] EXCEPT !.todo = @ \ {t}]
                   = [pc |-> "caps", ids |-> job[w].ids, todo |-> job[w].todo \ {t}]
              /\ Sound([job[w] EXCEPT !.todo = @ \ {t}])
         /\ At(w, "trimToken") => Sound(CapsAgain(w))
<1>1. Sound(Idle) /\ \A i : Sound([pc |-> "trimAll", ids |-> i])
  BY DEF Sound, Idle, Stages
<1>2. \A i : \A T \in SUBSET Tokens : Sound([pc |-> "caps", ids |-> i, todo |-> T])
  BY DEF Sound, Stages
<1>3. \A i, n : \A T \in SUBSET Tokens : \A t \in T :
        Sound([pc |-> "trimToken", ids |-> i, todo |-> T, token |-> t, n |-> n])
  BY DEF Sound, Stages
<1>4. ASSUME At(w, "caps"), NEW t \in job[w].todo
      PROVE  /\ [job[w] EXCEPT !.todo = @ \ {t}]
                  = [pc |-> "caps", ids |-> job[w].ids, todo |-> job[w].todo \ {t}]
             /\ Sound([job[w] EXCEPT !.todo = @ \ {t}])
  <2>1. /\ job[w] = [pc |-> "caps", ids |-> job[w].ids, todo |-> job[w].todo]
        /\ job[w].todo \subseteq Tokens
    BY <1>4 DEF TxInv, Sound, At
  <2>2. [job[w] EXCEPT !.todo = @ \ {t}]
          = [pc |-> "caps", ids |-> job[w].ids, todo |-> job[w].todo \ {t}]
    BY <2>1
  <2> QED  BY <1>2, <2>1, <2>2
<1>5. ASSUME At(w, "trimToken") PROVE Sound(CapsAgain(w))
  <2>1. job[w].todo \subseteq Tokens  BY <1>5 DEF TxInv, Sound, At
  <2> QED  BY <1>2, <2>1 DEF CapsAgain
<1> QED  BY <1>1, <1>2, <1>3, <1>4, <1>5

LEMMA TxInit ==
  SQLInit => TxInv
<1> SUFFICES ASSUME SQLInit PROVE TxInv  OBVIOUS
<1>1. rows = <<>> /\ DOMAIN rows = {} /\ lastId = 0 /\ writer = NoOne /\ pending = <<>>
  BY DEF SQLInit
<1>2. DOMAIN job = Workers /\ \A w \in Workers : job[w] = Idle  BY DEF SQLInit
<1>3. Sound(Idle) /\ Idle.pc = "idle"  BY DEF Sound, Idle, Stages
<1>4. rows \in [DOMAIN rows -> AnyToken]  BY <1>1
<1> QED  BY <1>1, <1>2, <1>3, <1>4 DEF TxInv, SQLTypeOK

LEMMA TxCall ==
  ASSUME TxInv, NEW w \in Workers, Call(w)
  PROVE  TxInv'
<1>0. PICK n \in 1..MaxBatch : \E b \in [1..n -> AnyToken] : Goto(w, [pc |-> "tx", batch |-> b])
  BY DEF Call
<1>1. PICK b \in [1..n -> AnyToken] : Goto(w, [pc |-> "tx", batch |-> b])
  BY <1>0
<1>2. b \in Seq(AnyToken)  BY <1>1, SQLBoundAssumption
<1>3. Sound([pc |-> "tx", batch |-> b])  BY <1>2 DEF Sound, Stages
<1> QED  BY <1>1, <1>3, CapsStep DEF Call, At, tableVars

LEMMA TxTxInsert ==
  ASSUME TxInv, NEW w \in Workers, TxInsert(w)
  PROVE  TxInv'
<1> DEFINE b == job[w].batch
<1>1. /\ pending \in Seq(AnyToken) /\ b \in Seq(AnyToken) /\ At(w, "tx")
      /\ Len(pending) < Len(b) /\ Len(pending) \in Nat /\ Len(b) \in Nat
      /\ pending' = Append(pending, b[Len(pending) + 1]) /\ writer' = w
      /\ UNCHANGED <<tableVars, job>>
  BY DEF TxInsert, TxInv, Sound, At
<1>2. \A i \in 1..Len(pending) : pending[i] = b[i]
  <2>1. CASE writer = w  BY <2>1, SQLWorkerAssumption DEF TxInv
  <2>2. CASE writer = NoOne
    <3>1. pending = <<>>  BY <2>2 DEF TxInv, SQLTypeOK
    <3> QED  BY <3>1
  <2> QED  BY <2>1, <2>2 DEF TxInsert
<1>3. b[Len(pending) + 1] \in AnyToken  BY <1>1
<1>4. /\ pending' \in Seq(AnyToken) /\ Len(pending') = Len(pending) + 1
      /\ \A i \in 1..Len(pending') : pending'[i] = b[i]
      /\ pending' # <<>>
  BY <1>1, <1>2, <1>3
<1>5. SQLTypeOK'
  BY <1>1, <1>4, SQLWorkerAssumption DEF TxInv, SQLTypeOK, tableVars, AnyToken
<1>6. At(writer, "tx")' /\ job'[writer'].batch = b /\ Len(pending') <= Len(b)
  BY <1>1, <1>4 DEF At
<1> QED  BY <1>1, <1>4, <1>5, <1>6 DEF TxInv, tableVars, AnyToken

LEMMA TxTxCommit ==
  ASSUME TxInv, NEW w \in Workers, TxCommit(w)
  PROVE  TxInv'
<1>1. Goto(w, AfterCommit(w)) /\ writer' = NoOne /\ pending' = <<>>
  BY DEF TxCommit, Commit
<1>2. job[w].batch \in Seq(AnyToken)  BY DEF TxCommit, TxInv, Sound, At
<1>3. Touched(job[w].batch) \subseteq Tokens
  <2>1. \A i \in DOMAIN job[w].batch : job[w].batch[i] \in AnyToken  BY <1>2
  <2> QED  BY <2>1 DEF Touched, Range, AnyToken
<1>4. Sound(AfterCommit(w))  BY <1>3, NextStages DEF AfterCommit
<1>5. DOMAIN job' = Workers /\ \A v \in Workers : Sound(job'[v])
  BY <1>1, <1>4, GotoFacts
<1>6. \A v \in Workers : job'[v].pc \in {"idle", "tx", "caps", "trimToken", "trimAll"}
  BY <1>5 DEF Sound, Stages
<1> QED  BY <1>1, <1>5, <1>6, CommitFacts DEF TxInv, SQLTypeOK, AnyToken

LEMMA TxTxFails ==
  ASSUME TxInv, NEW w \in Workers, TxFails(w)
  PROVE  TxInv'
<1>1. Goto(w, Idle) /\ UNCHANGED tableVars  BY DEF TxFails
<1>2. /\ DOMAIN job' = Workers /\ \A v \in Workers : Sound(job'[v])
      /\ \A v \in Workers \ {w} : job'[v] = job[v]
  BY <1>1, GotoFacts, NextStages
<1>3. \A v \in Workers : job'[v].pc \in {"idle", "tx", "caps", "trimToken", "trimAll"}
  BY <1>2 DEF Sound, Stages
<1>4. CASE writer = w
  <2>1. writer' = NoOne /\ pending' = <<>>  BY <1>4 DEF TxFails
  <2> QED  BY <1>1, <1>2, <1>3, <2>1 DEF TxInv, SQLTypeOK, tableVars, AnyToken
<1>5. CASE writer # w
  <2>1. UNCHANGED txVars  BY <1>5 DEF TxFails
  <2>2. writer # NoOne => writer \in Workers \ {w} /\ job'[writer] = job[writer]
    BY <1>2, <1>5 DEF TxInv, SQLTypeOK
  <2> QED  BY <1>1, <1>2, <1>3, <2>1, <2>2
       DEF TxInv, SQLTypeOK, tableVars, txVars, AnyToken, At
<1> QED  BY <1>4, <1>5

\* One step per statement; those of enforceCaps are instances of CapsStep.
LEMMA TxCaps ==
  ASSUME TxInv, NEW w \in Workers,
         CountToken(w) \/ TrimToken(w) \/ CountAll(w) \/ TrimAll(w) \/ CapsFail(w)
  PROVE  TxInv'
<1>1. CASE CountToken(w)
  <2>1. PICK t \in job[w].todo :
          Goto(w, IF Cardinality(OfToken(t)) <= MaxPerToken
                    THEN [job[w] EXCEPT !.todo = @ \ {t}]
                    ELSE [pc |-> "trimToken", ids |-> job[w].ids, todo |-> job[w].todo,
                          token |-> t, n |-> Cardinality(OfToken(t))])
    BY <1>1 DEF CountToken
  <2>2. At(w, "caps") /\ UNCHANGED <<tableVars, txVars>>  BY <1>1 DEF CountToken
  <2>3. job[w].todo \subseteq Tokens  BY <2>2 DEF TxInv, Sound, At
  <2>4. Sound([job[w] EXCEPT !.todo = @ \ {t}])  BY <2>2, NextStages
  <2>5. Sound([pc |-> "trimToken", ids |-> job[w].ids, todo |-> job[w].todo,
               token |-> t, n |-> Cardinality(OfToken(t))])
    BY <2>3, NextStages
  <2> QED  BY <2>1, <2>2, <2>4, <2>5, CapsStep DEF At, tableVars
<1>2. CASE TrimToken(w)
  <2>1. At(w, "trimToken") /\ Goto(w, CapsAgain(w)) /\ lastId' = lastId /\ UNCHANGED txVars
        /\ rows' = Keep(TrimmedTo(job[w].token))
    BY <1>2 DEF TrimToken, TrimmedTo
  <2>2. TrimmedTo(job[w].token) \in SUBSET DOMAIN rows
    BY DEF TrimmedTo, Newest, OfToken
  <2> QED  BY <2>1, <2>2, NextStages, CapsStep DEF At
<1>3. CASE CountAll(w)
  <2>1. At(w, "caps") /\ UNCHANGED <<tableVars, txVars>>  BY <1>3 DEF CountAll
  <2>2. PICK next \in {Idle, [pc |-> "trimAll", ids |-> job[w].ids]} : Goto(w, next)
    BY <1>3 DEF CountAll
  <2> QED  BY <2>1, <2>2, NextStages, CapsStep DEF At, tableVars
<1>4. CASE TrimAll(w)
  <2>1. At(w, "trimAll") /\ Goto(w, Idle) /\ lastId' = lastId /\ UNCHANGED txVars
        /\ rows' = Keep(Newest(DOMAIN rows, MaxInteractions))
    BY <1>4 DEF TrimAll
  <2>2. Newest(DOMAIN rows, MaxInteractions) \in SUBSET DOMAIN rows  BY DEF Newest
  <2> QED  BY <2>1, <2>2, NextStages, CapsStep DEF At
<1>5. CASE CapsFail(w)
  <2>1. UNCHANGED <<tableVars, txVars>>  BY <1>5 DEF CapsFail
  <2>2. \E next : Goto(w, next) /\ Sound(next) /\ ~At(w, "tx")
    <3>1. CASE At(w, "caps") /\ \E t \in job[w].todo : Goto(w, [job[w] EXCEPT !.todo = @ \ {t}])
      BY <3>1, NextStages DEF At
    <3>2. CASE At(w, "trimToken") /\ Goto(w, CapsAgain(w))  BY <3>2, NextStages DEF At
    <3>3. CASE At(w, "caps") /\ job[w].todo = {} /\ Goto(w, Idle)  BY <3>3, NextStages DEF At
    <3>4. CASE At(w, "trimAll") /\ Goto(w, Idle)  BY <3>4, NextStages DEF At
    <3> QED  BY <1>5, <3>1, <3>2, <3>3, <3>4 DEF CapsFail
  <2> QED  BY <2>1, <2>2, CapsStep DEF tableVars
<1> QED  BY <1>1, <1>2, <1>3, <1>4, <1>5

\* The API's and the sweeper's deletes.
Deletes ==
  \/ \E id \in DOMAIN rows : DeleteInteraction(id)
  \/ \E old \in SUBSET DOMAIN rows : DeleteOldInteractions(old)

LEMMA DeleteFacts ==
  ASSUME TxInv, Deletes
  PROVE  /\ TxInv' /\ UNCHANGED <<lastId, txVars, job, histVars>>
         /\ DOMAIN rows' \subseteq DOMAIN rows
         /\ \A x \in DOMAIN rows' : rows'[x] = rows[x]
<1>1. UNCHANGED <<lastId, txVars, job, histVars>>
  BY DEF Deletes, DeleteInteraction, DeleteOldInteractions
<1>2. \E S \in SUBSET DOMAIN rows : rows' = Keep(S)
  BY DEF Deletes, DeleteInteraction, DeleteOldInteractions
<1>3. /\ DOMAIN rows' \subseteq DOMAIN rows /\ \A x \in DOMAIN rows' : rows'[x] = rows[x]
      /\ rows' \in [DOMAIN rows' -> AnyToken]
  BY <1>2, KeepFacts
<1> QED  BY <1>1, <1>3 DEF TxInv, SQLTypeOK, txVars, At, AnyToken

LEMMA TxStep ==
  TxInv /\ [SQLNext]_sqlVars => TxInv'
<1> SUFFICES ASSUME TxInv, [SQLNext]_sqlVars PROVE TxInv'  OBVIOUS
<1>1. ASSUME NEW w \in Workers, Worker(w) PROVE TxInv'
  BY <1>1, TxCall, TxTxInsert, TxTxCommit, TxTxFails, TxCaps DEF Worker
<1>2. ASSUME Deletes
      PROVE  TxInv'
  BY <1>2, DeleteFacts
<1>3. CASE Crash
  <2>1. /\ writer' = NoOne /\ pending' = <<>> /\ UNCHANGED tableVars
        /\ DOMAIN job' = Workers /\ \A w \in Workers : job'[w] = Idle
    BY <1>3 DEF Crash
  <2>2. Sound(Idle) /\ Idle.pc = "idle"  BY DEF Sound, Idle, Stages
  <2> QED  BY <2>1, <2>2 DEF TxInv, SQLTypeOK, tableVars, AnyToken
<1>4. CASE UNCHANGED sqlVars
  BY <1>4 DEF sqlVars, tableVars, txVars, TxInv, SQLTypeOK, AnyToken, At
<1> QED  BY <1>1, <1>2, <1>3, <1>4 DEF SQLNext, Deletes

LEMMA TxAlways ==
  SQLSpec => []TxInv
<1> QED  BY TxInit, TxStep, PTL DEF SQLSpec

\* The table keeps its type, and its ids below those given out; only the worker
\* whose transaction has begun holds the write lock.
THEOREM SQLTypesHold ==
  SQLSpec => []SQLTypeOK
<1>1. TxInv => SQLTypeOK  BY DEF TxInv
<1> QED  BY <1>1, TxAlways, PTL

-----------------------------------------------------------------------------
(* What AddInteractions answers.                                           *)

\* Outside of its own commit a worker's step adds no row, and the commit adds a
\* row for each interaction of the batch.
LEMMA RowsGrowByCommit ==
  ASSUME TxInv, SQLNext
  PROVE  \/ \E w \in Workers : TxCommit(w)
         \/ DOMAIN rows' \subseteq DOMAIN rows
<1>1. ASSUME NEW w \in Workers, Worker(w), ~TxCommit(w) PROVE DOMAIN rows' \subseteq DOMAIN rows
  <2>1. CASE TrimToken(w)
    <3>1. rows' = Keep(TrimmedTo(job[w].token)) /\ TrimmedTo(job[w].token) \subseteq DOMAIN rows
      BY <2>1 DEF TrimToken, TrimmedTo, Newest, OfToken
    <3> QED  BY <3>1, KeepFacts
  <2>2. CASE TrimAll(w)
    <3>1. rows' = Keep(Newest(DOMAIN rows, MaxInteractions))
          /\ Newest(DOMAIN rows, MaxInteractions) \subseteq DOMAIN rows
      BY <2>2 DEF TrimAll, Newest
    <3> QED  BY <3>1, KeepFacts
  <2>3. CASE Call(w) \/ TxInsert(w) \/ TxFails(w) \/ CountToken(w) \/ CountAll(w) \/ CapsFail(w)
    BY <2>3 DEF Call, TxInsert, TxFails, CountToken, CountAll, CapsFail, tableVars
  <2> QED  BY <1>1, <2>1, <2>2, <2>3 DEF Worker
<1>2. CASE Crash  BY <1>2 DEF Crash, tableVars
<1> QED  BY <1>1, <1>2, DeleteFacts DEF SQLNext, Deletes

LEMMA TruthStep ==
  ASSUME TxInv, [SQLNext]_sqlVars, NEW w \in Workers, At(w, "tx")
  PROVE  IF job'[w].pc = "caps"
         THEN Cardinality(DOMAIN rows' \ DOMAIN rows) = Len(job[w].batch)
         ELSE job'[w] # job[w] \/ writer' = w => DOMAIN rows' \subseteq DOMAIN rows
<1>1. CASE UNCHANGED sqlVars
  BY <1>1 DEF sqlVars, tableVars, At
<1>2. CASE SQLNext /\ ~\E v \in Workers : TxCommit(v)
  <2>1. DOMAIN rows' \subseteq DOMAIN rows  BY <1>2, RowsGrowByCommit
  <2>2. job'[w].pc # "caps"
    <3>1. ASSUME NEW v \in Workers, NEW next, v # w, Goto(v, next) PROVE job'[w].pc = "tx"
      BY <3>1, GotoFacts DEF At
    <3>2. ASSUME NEW v \in Workers, Worker(v), v # w PROVE job'[w].pc = "tx"
      <4>1. CASE TxInsert(v)  BY <4>1 DEF TxInsert, At
      <4>2. CASE ~TxInsert(v)
        <5>1. \E next : Goto(v, next)
          BY <1>2, <3>2, <4>2
          DEF Worker, Call, TxFails, CountToken, TrimToken, CountAll, TrimAll, CapsFail
        <5> QED  BY <3>1, <3>2, <5>1
      <4> QED  BY <4>1, <4>2
    <3>3. CASE Worker(w)
      <4>1. TxInsert(w) \/ TxFails(w)
        BY <1>2, <3>3 DEF Worker, At, Call, CountToken, TrimToken, CountAll, TrimAll, CapsFail
      <4>2. CASE TxInsert(w)  BY <4>2 DEF TxInsert, At
      <4>3. CASE TxFails(w)  BY <4>3, GotoFacts DEF TxFails, Idle
      <4> QED  BY <4>1, <4>2, <4>3
    <3>4. CASE Crash  BY <3>4 DEF Crash, Idle
    <3>5. ASSUME Deletes
          PROVE  job'[w].pc = "tx"
      BY <3>5, DeleteFacts DEF At
    <3> QED  BY <1>2, <3>2, <3>3, <3>4, <3>5 DEF SQLNext, Deletes
  <2> QED  BY <2>1, <2>2
<1>3. ASSUME NEW v \in Workers, TxCommit(v)
      PROVE  IF job'[w].pc = "caps"
             THEN Cardinality(DOMAIN rows' \ DOMAIN rows) = Len(job[w].batch)
             ELSE job'[w] # job[w] \/ writer' = w => DOMAIN rows' \subseteq DOMAIN rows
  <2>1. Goto(v, AfterCommit(v)) /\ writer' = NoOne /\ Len(pending) = Len(job[v].batch)
    BY <1>3 DEF TxCommit, Commit
  <2>2. job'[v] = AfterCommit(v) /\ \A u \in Workers \ {v} : job'[u] = job[u]
    BY <2>1, GotoFacts
  <2>3. CASE v = w
    <3>1. job'[w].pc = "caps"  BY <2>2, <2>3 DEF AfterCommit
    <3>2. DOMAIN rows' = DOMAIN rows \cup NewIds /\ DOMAIN rows \cap NewIds = {}
          /\ Cardinality(NewIds) = Len(pending)
      BY <1>3, CommitFacts
    <3>3. DOMAIN rows' \ DOMAIN rows = NewIds  BY <3>2
    <3> QED  BY <2>1, <2>3, <3>1, <3>2, <3>3
  <2>4. CASE v # w
    BY <2>1, <2>2, <2>4, SQLWorkerAssumption DEF At
  <2> QED  BY <2>3, <2>4
<1> QED  BY <1>1, <1>2, <1>3

\* AddInteractions answers success exactly when the whole batch has been stored,
\* and an error only when none of it has.
THEOREM AnswersAreTrue ==
  SQLSpec => AnswerIsTrue
<1>1. TxInv /\ [SQLNext]_sqlVars =>
        [\A w \in Workers : At(w, "tx") =>
           IF job'[w].pc = "caps"
           THEN Cardinality(DOMAIN rows' \ DOMAIN rows) = Len(job[w].batch)
           ELSE job'[w] # job[w] \/ writer' = w => DOMAIN rows' \subseteq DOMAIN rows]_sqlVars
  BY TruthStep
<1> QED  BY <1>1, TxAlways, PTL DEF SQLSpec, AnswerIsTrue

-----------------------------------------------------------------------------
(* The caps.                                                               *)

Counts(j, t) == j.pc \in {"caps", "trimToken"} /\ t \in j.todo

\* A step of a worker that adds no row: its ids stay in flight unless the table
\* is back at its cap, and a token stays to be counted unless it is at its own.
LEMMA CapsKept ==
  ASSUME TxInv, CapsInv, UNCHANGED skipped,
         NEW w \in Workers, NEW next, Goto(w, next),
         DOMAIN rows' \subseteq DOMAIN rows, \A x \in DOMAIN rows' : rows'[x] = rows[x],
         \/ "ids" \in DOMAIN job[w] => "ids" \in DOMAIN next /\ next.ids = job[w].ids
         \/ Cardinality(DOMAIN rows') <= MaxInteractions,
         \A t \in Tokens : Counts(job[w], t) =>
           Counts(next, t) \/ Cardinality(OfToken(t)') <= MaxPerToken
  PROVE  CapsInv'
<1> SUFFICES ASSUME ~skipped
             PROVE  /\ Cardinality(DOMAIN rows' \ InFlight') <= MaxInteractions
                    /\ \A t \in Tokens : Cardinality(OfToken(t)') <= MaxPerToken \/ WillCount(t)'
  BY DEF CapsInv
<1>1. /\ DOMAIN job' = Workers /\ job'[w] = next
      /\ \A v \in Workers \ {w} : job'[v] = job[v]
  BY GotoFacts
<1>2. /\ Cardinality(DOMAIN rows \ InFlight) <= MaxInteractions
      /\ \A t \in Tokens : Cardinality(OfToken(t)) <= MaxPerToken \/ WillCount(t)
      /\ MaxInteractions \in Nat /\ MaxPerToken \in Nat
  BY SQLCapAssumption DEF CapsInv
<1>3. IsFiniteSet(DOMAIN rows') /\ Cardinality(DOMAIN rows') \in Nat
  BY RowsAreFinite, FS_Subset, FS_CardinalityType
<1>4. Cardinality(DOMAIN rows' \ InFlight') <= MaxInteractions
  <2>1. CASE "ids" \in DOMAIN job[w] => "ids" \in DOMAIN next /\ next.ids = job[w].ids
    <3>1. InFlight \subseteq InFlight'  BY <2>1, <1>1 DEF InFlight
    <3>2. DOMAIN rows' \ InFlight' \subseteq DOMAIN rows \ InFlight  BY <3>1
    <3>3. IsFiniteSet(DOMAIN rows \ InFlight)  BY RowsAreFinite
    <3>4. /\ Cardinality(DOMAIN rows' \ InFlight') <= Cardinality(DOMAIN rows \ InFlight)
          /\ Cardinality(DOMAIN rows' \ InFlight') \in Nat
          /\ Cardinality(DOMAIN rows \ InFlight) \in Nat
      BY <3>2, <3>3, FS_Subset, FS_CardinalityType
    <3> QED  BY <1>2, <3>4
  <2>2. CASE Cardinality(DOMAIN rows') <= MaxInteractions
    <3>1. DOMAIN rows' \ InFlight' \subseteq DOMAIN rows'  OBVIOUS
    <3>2. /\ Cardinality(DOMAIN rows' \ InFlight') <= Cardinality(DOMAIN rows')
          /\ Cardinality(DOMAIN rows' \ InFlight') \in Nat
      BY <1>3, <3>1, FS_Subset, FS_CardinalityType
    <3> QED  BY <1>2, <1>3, <2>2, <3>2
  <2> QED  BY <2>1, <2>2
<1>5. ASSUME NEW t \in Tokens PROVE Cardinality(OfToken(t)') <= MaxPerToken \/ WillCount(t)'
  <2>1. CASE Cardinality(OfToken(t)) <= MaxPerToken
    <3>1. OfToken(t)' \subseteq OfToken(t)  BY DEF OfToken
    <3>2. /\ Cardinality(OfToken(t)') <= Cardinality(OfToken(t))
          /\ Cardinality(OfToken(t)') \in Nat /\ Cardinality(OfToken(t)) \in Nat
      BY <3>1, RowsAreFinite, FS_Subset, FS_CardinalityType
    <3> QED  BY <1>2, <2>1, <3>2
  <2>2. ASSUME NEW v \in Workers, v # w, Counts(job[v], t) PROVE WillCount(t)'
    BY <1>1, <2>2 DEF WillCount, Counts
  <2>3. CASE Counts(next, t)  BY <1>1, <2>3 DEF WillCount, Counts
  <2> QED  BY <1>2, <2>1, <2>2, <2>3 DEF WillCount, Counts
<1> QED  BY <1>4, <1>5

LEMMA CapsCommit ==
  ASSUME TxInv, CapsInv, NEW w \in Workers, TxCommit(w)
  PROVE  CapsInv'
<1> SUFFICES ASSUME ~skipped
             PROVE  /\ Cardinality(DOMAIN rows' \ InFlight') <= MaxInteractions
                    /\ \A t \in Tokens : Cardinality(OfToken(t)') <= MaxPerToken \/ WillCount(t)'
  BY DEF CapsInv, TxCommit, Commit, histVars
<1>1. Goto(w, AfterCommit(w)) /\ At(w, "tx")  BY DEF TxCommit, Commit
<1>2. job'[w] = AfterCommit(w) /\ \A v \in Workers \ {w} : job'[v] = job[v]
  BY <1>1, GotoFacts
<1>3. "ids" \notin DOMAIN job[w] /\ job[w].pc = "tx"  BY <1>1 DEF TxInv, Sound, At
<1>4. /\ DOMAIN rows' = DOMAIN rows \cup NewIds
      /\ \A id \in DOMAIN rows : rows'[id] = rows[id]
      /\ \A id \in NewIds : rows'[id] \in Range(job[w].batch)
  BY CommitFacts
<1>5. Cardinality(DOMAIN rows' \ InFlight') <= MaxInteractions
  <2>1. "ids" \in DOMAIN AfterCommit(w) /\ AfterCommit(w).ids = NewIds  BY DEF AfterCommit
  <2>2. InFlight \subseteq InFlight' /\ NewIds \subseteq InFlight'
    BY <1>2, <1>3, <2>1 DEF InFlight
  <2>3. DOMAIN rows' \ InFlight' \subseteq DOMAIN rows \ InFlight  BY <1>4, <2>2
  <2>4. IsFiniteSet(DOMAIN rows \ InFlight)  BY RowsAreFinite
  <2>5. /\ Cardinality(DOMAIN rows' \ InFlight') <= Cardinality(DOMAIN rows \ InFlight)
        /\ Cardinality(DOMAIN rows' \ InFlight') \in Nat
        /\ Cardinality(DOMAIN rows \ InFlight) \in Nat
    BY <2>3, <2>4, FS_Subset, FS_CardinalityType
  <2> QED  BY <2>5, SQLCapAssumption DEF CapsInv
<1>6. ASSUME NEW t \in Tokens PROVE Cardinality(OfToken(t)') <= MaxPerToken \/ WillCount(t)'
  <2>1. CASE t \in Range(job[w].batch)
    <3>1. t \in Touched(job[w].batch)  BY <2>1, SQLTokenAssumption DEF Touched
    <3> QED  BY <1>2, <3>1 DEF WillCount, AfterCommit
  <2>2. CASE t \notin Range(job[w].batch)
    <3>1. OfToken(t)' = OfToken(t)  BY <1>4, <2>2 DEF OfToken
    <3>2. ASSUME NEW v \in Workers, Counts(job[v], t) PROVE WillCount(t)'
      <4>1. v # w  BY <1>3, <3>2 DEF Counts
      <4> QED  BY <1>2, <3>2, <4>1 DEF WillCount, Counts
    <3> QED  BY <3>1, <3>2 DEF CapsInv, WillCount, Counts
  <2> QED  BY <2>1, <2>2
<1> QED  BY <1>5, <1>6

LEMMA CapsCountToken ==
  ASSUME TxInv, CapsInv, NEW w \in Workers, CountToken(w)
  PROVE  CapsInv'
<1>1. At(w, "caps") /\ UNCHANGED <<tableVars, histVars>>  BY DEF CountToken
<1>2. job[w] = [pc |-> "caps", ids |-> job[w].ids, todo |-> job[w].todo]
  BY <1>1 DEF TxInv, Sound, At
<1>3. PICK t \in job[w].todo :
        Goto(w, IF Cardinality(OfToken(t)) <= MaxPerToken
                  THEN [job[w] EXCEPT !.todo = @ \ {t}]
                  ELSE [pc |-> "trimToken", ids |-> job[w].ids, todo |-> job[w].todo,
                        token |-> t, n |-> Cardinality(OfToken(t))])
  BY DEF CountToken
<1>4. CASE Cardinality(OfToken(t)) <= MaxPerToken
  <2> DEFINE next == [pc |-> "caps", ids |-> job[w].ids, todo |-> job[w].todo \ {t}]
  <2>1. Goto(w, next)  BY <1>1, <1>3, <1>4, NextStages
  <2>2. OfToken(t)' = OfToken(t)  BY <1>1 DEF OfToken, tableVars
  <2>3. \A u \in Tokens : Counts(job[w], u) =>
          Counts(next, u) \/ Cardinality(OfToken(u)') <= MaxPerToken
    BY <1>4, <2>2 DEF Counts
  <2>4. "ids" \in DOMAIN next /\ next.ids = job[w].ids  OBVIOUS
  <2> HIDE DEF next
  <2> QED  BY <1>1, <2>1, <2>3, <2>4, CapsKept DEF tableVars, histVars
<1>5. CASE ~(Cardinality(OfToken(t)) <= MaxPerToken)
  <2> DEFINE next == [pc |-> "trimToken", ids |-> job[w].ids, todo |-> job[w].todo,
                      token |-> t, n |-> Cardinality(OfToken(t))]
  <2>1. Goto(w, next)  BY <1>3, <1>5
  <2>2. \A u \in Tokens : Counts(job[w], u) => Counts(next, u)  BY DEF Counts
  <2>3. "ids" \in DOMAIN next /\ next.ids = job[w].ids  OBVIOUS
  <2> HIDE DEF next
  <2> QED  BY <1>1, <2>1, <2>2, <2>3, CapsKept DEF tableVars, histVars
<1> QED  BY <1>4, <1>5

LEMMA CapsTrimToken ==
  ASSUME TxInv, CapsInv, NEW w \in Workers, TrimToken(w)
  PROVE  CapsInv'
<1>0. PICK t : t = job[w].token  OBVIOUS
<1>1. At(w, "trimToken") /\ Goto(w, CapsAgain(w)) /\ UNCHANGED histVars
      /\ rows' = Keep(TrimmedTo(t))
  BY <1>0 DEF TrimToken, TrimmedTo
<1>2. Newest(OfToken(t), MaxPerToken) \subseteq OfToken(t)
      /\ Cardinality(Newest(OfToken(t), MaxPerToken)) <= MaxPerToken
  BY RowsAreFinite, NewestIds, SQLCapAssumption
<1>3. DOMAIN rows' = TrimmedTo(t) /\ TrimmedTo(t) \subseteq DOMAIN rows
      /\ \A x \in DOMAIN rows' : rows'[x] = rows[x]
  BY <1>1, <1>2, KeepFacts DEF TrimmedTo, OfToken
<1>4. OfToken(t)' = Newest(OfToken(t), MaxPerToken)
  BY <1>2, <1>3 DEF OfToken, TrimmedTo
<1>5. \A u \in Tokens : Counts(job[w], u) =>
        Counts(CapsAgain(w), u) \/ Cardinality(OfToken(u)') <= MaxPerToken
  BY <1>0, <1>2, <1>4 DEF Counts, CapsAgain
<1>6. "ids" \in DOMAIN CapsAgain(w) /\ CapsAgain(w).ids = job[w].ids  BY DEF CapsAgain
<1> QED  BY <1>1, <1>3, <1>5, <1>6, CapsKept DEF histVars

LEMMA CapsCountAll ==
  ASSUME TxInv, CapsInv, NEW w \in Workers, CountAll(w)
  PROVE  CapsInv'
<1>1. At(w, "caps") /\ job[w].todo = {} /\ UNCHANGED <<tableVars, histVars>>
  BY DEF CountAll
<1>2. \A u \in Tokens : ~Counts(job[w], u)  BY <1>1 DEF Counts
<1>3. CASE Cardinality(DOMAIN rows) <= MaxInteractions
  BY <1>1, <1>2, <1>3, CapsKept DEF CountAll, tableVars, histVars
<1>4. CASE ~(Cardinality(DOMAIN rows) <= MaxInteractions)
  <2> DEFINE next == [pc |-> "trimAll", ids |-> job[w].ids]
  <2>1. Goto(w, next)  BY <1>4 DEF CountAll
  <2>2. "ids" \in DOMAIN next /\ next.ids = job[w].ids  OBVIOUS
  <2> HIDE DEF next
  <2> QED  BY <1>1, <1>2, <2>1, <2>2, CapsKept DEF tableVars, histVars
<1> QED  BY <1>3, <1>4

LEMMA CapsTrimAll ==
  ASSUME TxInv, CapsInv, NEW w \in Workers, TrimAll(w)
  PROVE  CapsInv'
<1>1. At(w, "trimAll") /\ Goto(w, Idle) /\ UNCHANGED histVars
      /\ rows' = Keep(Newest(DOMAIN rows, MaxInteractions))
  BY DEF TrimAll
<1>2. Newest(DOMAIN rows, MaxInteractions) \subseteq DOMAIN rows
      /\ Cardinality(Newest(DOMAIN rows, MaxInteractions)) <= MaxInteractions
  BY RowsAreFinite, NewestIds, SQLCapAssumption
<1>3. DOMAIN rows' = Newest(DOMAIN rows, MaxInteractions)
      /\ \A x \in DOMAIN rows' : rows'[x] = rows[x]
  BY <1>1, <1>2, KeepFacts
<1>4. \A u \in Tokens : ~Counts(job[w], u)  BY <1>1 DEF At, Counts
<1> QED  BY <1>1, <1>2, <1>3, <1>4, CapsKept DEF histVars

LEMMA CapsInit ==
  SQLInit => CapsInv
<1> SUFFICES ASSUME SQLInit PROVE CapsInv  OBVIOUS
<1>1. DOMAIN rows = {}  BY DEF SQLInit
<1>2. DOMAIN rows \ InFlight = {} /\ \A t : OfToken(t) = {}  BY <1>1 DEF OfToken
<1> QED  BY <1>2, FS_EmptySet, SQLCapAssumption DEF CapsInv

LEMMA CapsInvStep ==
  TxInv /\ CapsInv /\ [SQLNext]_sqlVars => CapsInv'
<1> SUFFICES ASSUME TxInv, CapsInv, [SQLNext]_sqlVars PROVE CapsInv'  OBVIOUS
<1>1. ASSUME NEW w \in Workers, Worker(w) PROVE CapsInv'
  <2>1. CASE Call(w) \/ TxFails(w)
    <3>1. /\ \E next : Goto(w, next)
          /\ UNCHANGED <<tableVars, skipped>> /\ (At(w, "idle") \/ At(w, "tx"))
      BY <2>1 DEF Call, TxFails
    <3>2. "ids" \notin DOMAIN job[w] /\ \A t \in Tokens : ~Counts(job[w], t)
      BY <3>1 DEF TxInv, Sound, At, Counts
    <3> QED  BY <3>1, <3>2, CapsKept DEF tableVars
  <2>2. CASE TxInsert(w)
    BY <2>2 DEF TxInsert, tableVars, histVars, CapsInv, InFlight, OfToken, WillCount
  <2>3. CASE CapsFail(w)  BY <2>3 DEF CapsFail, CapsInv
  <2> QED  BY <1>1, <2>1, <2>2, <2>3, CapsCommit, CapsCountToken, CapsTrimToken,
              CapsCountAll, CapsTrimAll DEF Worker
<1>2. ASSUME Deletes
      PROVE  CapsInv'
  <2>1. /\ UNCHANGED job /\ UNCHANGED skipped /\ DOMAIN rows' \subseteq DOMAIN rows
        /\ \A x \in DOMAIN rows' : rows'[x] = rows[x]
    BY <1>2, DeleteFacts DEF histVars
  <2>2. InFlight' = InFlight /\ \A t : WillCount(t)' = WillCount(t)
    BY <2>1 DEF InFlight, WillCount
  <2>3. DOMAIN rows' \ InFlight' \subseteq DOMAIN rows \ InFlight  BY <2>1, <2>2
  <2>4. /\ Cardinality(DOMAIN rows' \ InFlight') <= Cardinality(DOMAIN rows \ InFlight)
        /\ Cardinality(DOMAIN rows' \ InFlight') \in Nat
        /\ Cardinality(DOMAIN rows \ InFlight) \in Nat
    BY <2>3, RowsAreFinite, FS_Subset, FS_CardinalityType
  <2>5. ASSUME NEW t PROVE /\ Cardinality(OfToken(t)') <= Cardinality(OfToken(t))
                           /\ Cardinality(OfToken(t)') \in Nat
                           /\ Cardinality(OfToken(t)) \in Nat
    <3>1. OfToken(t)' \subseteq OfToken(t)  BY <2>1 DEF OfToken
    <3> QED  BY <3>1, RowsAreFinite, FS_Subset, FS_CardinalityType
  <2> QED  BY <2>1, <2>2, <2>4, <2>5, SQLCapAssumption DEF CapsInv
<1>3. CASE Crash  BY <1>3 DEF Crash, CapsInv
<1>4. CASE UNCHANGED sqlVars
  BY <1>4 DEF sqlVars, tableVars, histVars, CapsInv, InFlight, OfToken, WillCount
<1> QED  BY <1>1, <1>2, <1>3, <1>4 DEF SQLNext, Deletes

LEMMA CapsAlways ==
  SQLSpec => [](TxInv /\ CapsInv)
<1>1. SQLInit => TxInv /\ CapsInv  BY TxInit, CapsInit
<1>2. (TxInv /\ CapsInv) /\ [SQLNext]_sqlVars => (TxInv /\ CapsInv)'
  BY TxStep, CapsInvStep
<1> QED  BY <1>1, <1>2, PTL DEF SQLSpec

\* However the COUNTs and DELETEs of the workers interleave, the caps hold when
\* no batch is being added and no statement of enforceCaps has failed.
THEOREM CapsAtRest ==
  SQLSpec => []CapsHoldAtRest
<1>1. TxInv /\ CapsInv => CapsHoldAtRest
  <2> SUFFICES ASSUME TxInv, CapsInv, ~skipped, \A w \in Workers : At(w, "idle")
               PROVE  /\ Cardinality(DOMAIN rows) <= MaxInteractions
                      /\ \A t \in Tokens : Cardinality(OfToken(t)) <= MaxPerToken
    BY DEF CapsHoldAtRest
  <2>1. InFlight = {} /\ \A t : ~WillCount(t)
    BY DEF TxInv, Sound, At, InFlight, WillCount
  <2>2. DOMAIN rows \ InFlight = DOMAIN rows  BY <2>1
  <2> QED  BY <2>1, <2>2 DEF CapsInv
<1> QED  BY <1>1, CapsAlways, PTL

\* While batches are being added, the rows above the cap are among those of the
\* batches whose caps are still to be enforced.
THEOREM OvershootsAreInFlight ==
  SQLSpec => []OvershootIsInFlight
<1>1. CapsInv => OvershootIsInFlight
  BY DEF CapsInv, InFlight, OvershootIsInFlight
<1> QED  BY <1>1, CapsAlways, PTL

-----------------------------------------------------------------------------
(* What the caps evict.                                                    *)

LEMMA OldestStep ==
  ASSUME TxInv, [SQLNext]_sqlVars, NEW w \in Workers,
         job[w].pc \in {"trimToken", "trimAll"}, job'[w] # job[w],
         NEW id \in DOMAIN rows \ DOMAIN rows'
  PROVE  \/ Cardinality({j \in DOMAIN rows' : j > id}) >= MaxInteractions
         \/ Cardinality({j \in DOMAIN rows' : j > id /\ rows[j] = rows[id]}) >= MaxPerToken
<1>1. TrimToken(w) \/ TrimAll(w)
  <2>1. ASSUME NEW v \in Workers, v # w, Worker(v) PROVE job'[w] = job[w]
    <3>1. CASE TxInsert(v)  BY <3>1 DEF TxInsert
    <3>2. CASE ~TxInsert(v)
      <4>1. \E next : Goto(v, next)
        BY <2>1, <3>2
        DEF Worker, Call, TxCommit, Commit, TxFails, CountToken, TrimToken, CountAll,
            TrimAll, CapsFail
      <4> QED  BY <2>1, <4>1, GotoFacts
    <3> QED  BY <3>1, <3>2
  <2>2. ASSUME Deletes
        PROVE  job'[w] = job[w]
    BY <2>2, DeleteFacts
  <2>3. ~Crash /\ ~UNCHANGED sqlVars /\ ~CapsFail(w)
    BY DEF Crash, CapsFail, sqlVars, tableVars
  <2>4. Worker(w)  BY <2>1, <2>2, <2>3 DEF SQLNext, Deletes
  <2> QED
    BY <2>3, <2>4 DEF Worker, Call, TxInsert, TxCommit, TxFails, CountToken, CountAll, At
<1>2. /\ IsFiniteSet(DOMAIN rows) /\ DOMAIN rows \subseteq Nat
      /\ MaxInteractions \in Nat /\ MaxPerToken \in Nat
  BY RowsAreFinite, SQLCapAssumption
<1>3. CASE TrimToken(w)
  <2>1. PICK t : t = job[w].token  OBVIOUS
  <2> DEFINE N == Newest(OfToken(t), MaxPerToken)
             J == {j \in DOMAIN rows' : j > id /\ rows[j] = rows[id]}
  <2>2. rows' = Keep(TrimmedTo(t))  BY <1>3, <2>1 DEF TrimToken, TrimmedTo
  <2>3. /\ N \subseteq OfToken(t) /\ Cardinality(N) \in Nat
        /\ \A x \in OfToken(t) \ N : \A y \in N : y > x
        /\ OfToken(t) # N => Cardinality(N) = MaxPerToken
    <3>1. IsFiniteSet(OfToken(t)) /\ OfToken(t) \subseteq Nat  BY <1>2, RowsAreFinite
    <3> QED  BY <1>2, <3>1, NewestIds
  <2>4. DOMAIN rows' = TrimmedTo(t)
    BY <2>2, <2>3, KeepFacts DEF TrimmedTo, OfToken
  <2>5. id \in OfToken(t) \ N  BY <2>4 DEF TrimmedTo
  <2>6. N \subseteq J  BY <2>3, <2>4, <2>5 DEF TrimmedTo, OfToken
  <2>7. IsFiniteSet(J) /\ Cardinality(J) \in Nat
    <3>1. J \subseteq DOMAIN rows  BY <2>3, <2>4 DEF TrimmedTo, OfToken
    <3> QED  BY <1>2, <3>1, FS_Subset, FS_CardinalityType
  <2>8. Cardinality(N) = MaxPerToken  BY <2>3, <2>5
  <2>9. Cardinality(N) <= Cardinality(J)  BY <2>6, <2>7, FS_Subset
  <2> QED  BY <1>2, <2>7, <2>8, <2>9
<1>4. CASE TrimAll(w)
  <2> DEFINE N == Newest(DOMAIN rows, MaxInteractions)
             J == {j \in DOMAIN rows' : j > id}
  <2>1. rows' = Keep(N)  BY <1>4 DEF TrimAll
  <2>2. /\ N \subseteq DOMAIN rows /\ Cardinality(N) \in Nat
        /\ \A x \in DOMAIN rows \ N : \A y \in N : y > x
        /\ DOMAIN rows # N => Cardinality(N) = MaxInteractions
    BY <1>2, NewestIds
  <2>3. DOMAIN rows' = N  BY <2>1, <2>2, KeepFacts
  <2>4. N \subseteq J  BY <2>2, <2>3
  <2>5. IsFiniteSet(J) /\ Cardinality(J) \in Nat
    <3>1. J \subseteq DOMAIN rows  BY <2>2, <2>3
    <3> QED  BY <1>2, <3>1, FS_Subset, FS_CardinalityType
  <2>6. Cardinality(N) = MaxInteractions  BY <2>2, <2>3
  <2>7. Cardinality(N) <= Cardinality(J)  BY <2>4, <2>5, FS_Subset
  <2> QED  BY <1>2, <2>5, <2>6, <2>7
<1> QED  BY <1>1, <1>3, <1>4

\* An evicted row leaves a full store, or a full token, of newer rows behind,
\* also when other workers trimmed the same token between COUNT and DELETE.
THEOREM CapsEvictTheOldest ==
  SQLSpec => CapsTakeTheOldest
<1>1. TxInv /\ [SQLNext]_sqlVars =>
        [\A w \in Workers : job[w].pc \in {"trimToken", "trimAll"} /\ job'[w] # job[w] =>
           \A id \in DOMAIN rows \ DOMAIN rows' :
             \/ Cardinality({j \in DOMAIN rows' : j > id}) >= MaxInteractions
             \/ Cardinality({j \in DOMAIN rows' : j > id /\ rows[j] = rows[id]})
                  >= MaxPerToken]_sqlVars
  BY OldestStep
<1> QED  BY <1>1, TxAlways, PTL DEF SQLSpec, CapsTakeTheOldest
=============================================================================
