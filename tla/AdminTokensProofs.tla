-------------------------- MODULE AdminTokensProofs --------------------------
(***************************************************************************)
(* Proofs about AdminTokens: whatever the number of visitors, requests,    *)
(* values and sweeps, no interleaving of the Store calls gives a value to  *)
(* two tokens, deletes what is another's, or leaves a sweep incomplete.    *)
(***************************************************************************)
EXTENDS AdminTokens, FiniteSetTheorems, TLAPS

\* A request that has read something holds what it may act upon: a token of its
\* visitor under an id that is not reused, or a callback it has looked up.
Sound(q) ==
  /\ q.pc \in {"idle", "attempt", "insert", "delToken", "owns", "delIv"}
  /\ q.pc # "idle" => q.by \in Visitors
  /\ q.pc = "insert" => q.value \in Values
  /\ q.pc = "delToken" =>
       /\ q.id \in 1..lastToken
       /\ q.id \in DOMAIN tokens => tokens[q.id].owner = q.by
  /\ q.pc \in {"owns", "delIv"} =>
       /\ q.iv \in 1..lastIv
       /\ q.iv \in DOMAIN ivs => ivs[q.iv] = q.token

Requests == DOMAIN req = Slots /\ \A r \in Slots : Sound(req[r])

Counters == lastToken \in Nat /\ lastIv \in Nat

\* From a marking to the next purge no active token has expired before it.
Marked ==
  marked # Never =>
    /\ marked <= now
    /\ \A id \in DOMAIN tokens : tokens[id].status = "active" => marked <= tokens[id].expires

AdminInv == AdminTypeOK /\ ValuesUnique /\ Requests /\ Counters /\ Marked

LEMMA AdminInvInit == AdminInit => AdminInv
  BY TokenAssumption, TokenBoundAssumption
     DEF AdminInit, AdminInv, AdminTypeOK, ValuesUnique, Requests, Sound,
         Counters, Marked, Idle, Never

-----------------------------------------------------------------------------
(* Requests.                                                               *)

\* What a request holds stays sound while tokens and callbacks come under new
\* ids, tokens keep their owners.
LEMMA SoundStays ==
  ASSUME Counters, Counters', lastToken <= lastToken', lastIv <= lastIv',
         \A id \in DOMAIN tokens' :
           id \in 1..lastToken => id \in DOMAIN tokens /\ tokens'[id].owner = tokens[id].owner,
         \A i \in DOMAIN ivs' :
           i \in 1..lastIv => i \in DOMAIN ivs /\ ivs'[i] = ivs[i]
  PROVE  \A q : Sound(q) => Sound(q)'
  BY DEF Sound, Counters

\* A request moves on to something sound; the others stay where they are.
LEMMA AnswerIsSound ==
  ASSUME Requests, NEW r \in Slots, NEW next, Answer(r, next), Sound(next),
         \A q : Sound(q) => Sound(q)'
  PROVE  Requests'
<1>1. DOMAIN req' = Slots /\ \A s \in Slots : req'[s] = IF s = r THEN next ELSE req[s]
  BY DEF Answer, Requests
<1>2. \A s \in Slots : Sound(req'[s])  BY <1>1 DEF Requests
<1>3. \A s \in Slots : Sound(req[s])'
  <2> SUFFICES ASSUME NEW s \in Slots PROVE Sound(req[s])'  OBVIOUS
  <2> DEFINE q == req'[s]
  <2>1. Sound(q)  BY <1>2
  <2> QED  BY <2>1 DEF Sound
<1> QED  BY <1>1, <1>3 DEF Requests

-----------------------------------------------------------------------------
(* Steps.                                                                  *)

\* What the data must do for the invariant, when a request is answered.
Data == AdminTypeOK /\ ValuesUnique /\ Counters /\ Marked

\* The steps that only move a request on.
LEMMA ReadStep ==
  ASSUME AdminInv, UNCHANGED <<tokenVars, ivVars, sweepVars, now>>,
         untested' \in [Visitors -> Nat]
  PROVE  Data' /\ \A q : Sound(q) => Sound(q)'
<1>1. Data'
  BY DEF AdminInv, Data, AdminTypeOK, ValuesUnique, Counters, Marked,
         tokenVars, ivVars, sweepVars
<1>2. \A q : Sound(q) => Sound(q)'
  BY DEF Sound, tokenVars, ivVars
<1> QED  BY <1>1, <1>2

\* The INSERT of a value that no token has.
LEMMA InsertStep ==
  ASSUME AdminInv, NEW r \in Slots, NEW val \in Values, ~Taken(val),
         req[r].by \in Visitors,
         InsertToken(r, val), UNCHANGED <<ivVars, sweepVars, now, untested>>
  PROVE  AdminInv'
<1> DEFINE v == req[r].by
           n == lastToken + 1
<1>1. /\ lastToken \in Nat /\ lastToken' = n
      /\ DOMAIN tokens \subseteq 1..lastToken
      /\ tokens' = [id \in DOMAIN tokens \cup {n} |->
                      IF id = n THEN NewToken(val, v) ELSE tokens[id]]
      /\ untested' = untested
  BY DEF InsertToken, AdminInv, Counters, AdminTypeOK
<1>2. /\ DOMAIN tokens' = DOMAIN tokens \cup {n} /\ n \notin DOMAIN tokens
      /\ tokens'[n] = NewToken(val, v)
      /\ \A id \in DOMAIN tokens : tokens'[id] = tokens[id]
  BY <1>1
<1>3. /\ NewToken(val, v).value = val /\ NewToken(val, v).owner = v
      /\ NewToken(val, v).status = "active" /\ NewToken(val, v).expires = now + TTL
      /\ NewToken(val, v) \in [value : Values, owner : Visitors,
                                status : {"active", "expired"}, expires : Nat]
  BY TokenAssumption, TokenBoundAssumption DEF NewToken, AdminInv, AdminTypeOK
<1> HIDE DEF v, n
<1>4. AdminTypeOK'
  <2>1. tokens' \in [DOMAIN tokens' -> [value : Values, owner : Visitors,
                                       status : {"active", "expired"}, expires : Nat]]
    BY <1>1, <1>3 DEF AdminInv, AdminTypeOK
  <2>2. DOMAIN tokens' \subseteq 1..lastToken'  BY <1>1, <1>2 DEF n
  <2> QED  BY <2>1, <2>2 DEF AdminInv, AdminTypeOK, ivVars, sweepVars
<1>5. ValuesUnique'
  BY <1>2, <1>3 DEF AdminInv, ValuesUnique, Taken, WithValue
<1>7. Counters' /\ lastToken <= lastToken' /\ lastIv <= lastIv'
  BY <1>1 DEF AdminInv, Counters, ivVars, n
<1>8. Marked'
  <2>1. now \in Nat /\ TTL \in Nat
    BY TokenAssumption, TokenBoundAssumption DEF AdminInv, AdminTypeOK
  <2>2. marked # Never => marked \in Nat
    BY TokenBoundAssumption DEF AdminInv, AdminTypeOK
  <2> QED  BY <1>2, <1>3, <2>1, <2>2 DEF AdminInv, Marked, sweepVars
<1>9. Requests'
  <2>1. \A q : Sound(q) => Sound(q)'
    <3>2. \A id \in DOMAIN tokens' : id \in 1..lastToken =>
            id \in DOMAIN tokens /\ tokens'[id].owner = tokens[id].owner
      BY <1>1, <1>2 DEF n
    <3> QED  BY <1>7, <3>2, SoundStays DEF AdminInv, ivVars
  <2>2. Sound(Idle)  BY DEF Sound, Idle
  <2> QED  BY <2>1, <2>2, AnswerIsSound DEF InsertToken, AdminInv
<1> QED  BY <1>4, <1>5, <1>7, <1>8, <1>9 DEF AdminInv

\* Steps that take tokens away, and change of the others at most the status
\* from active to expired.
LEMMA TokensGoStep ==
  ASSUME AdminInv, UNCHANGED <<lastToken, ivVars, now, untested>>,
         DOMAIN tokens' \subseteq DOMAIN tokens,
         tokens' \in [DOMAIN tokens' -> [value : Values, owner : Visitors,
                                        status : {"active", "expired"}, expires : Nat]],
         \A id \in DOMAIN tokens' :
           /\ tokens'[id].value = tokens[id].value
           /\ tokens'[id].owner = tokens[id].owner
           /\ tokens'[id].expires = tokens[id].expires
           /\ tokens'[id].status = "active" => tokens[id].status = "active"
  PROVE  /\ ValuesUnique' /\ Counters'
         /\ UNCHANGED sweepVars => AdminTypeOK' /\ Marked'
         /\ \A q : Sound(q) => Sound(q)'
<1>1. ValuesUnique'  BY DEF AdminInv, ValuesUnique
<1>3. Counters' /\ lastToken <= lastToken' /\ lastIv <= lastIv'
  BY DEF AdminInv, Counters, ivVars
<1>4. UNCHANGED sweepVars => AdminTypeOK' /\ Marked'
  BY DEF AdminInv, AdminTypeOK, Marked, ivVars, sweepVars
<1>5. \A q : Sound(q) => Sound(q)'
  BY <1>3, SoundStays DEF AdminInv, ivVars
<1> QED  BY <1>1, <1>3, <1>4, <1>5 DEF AdminInv

\* Steps that change the callbacks and nothing else of the data.
LEMMA CallbackStep ==
  ASSUME AdminInv, UNCHANGED <<tokenVars, sweepVars, now, untested>>,
         lastIv' \in Nat, lastIv <= lastIv',
         ivs' \in [DOMAIN ivs' -> Values], DOMAIN ivs' \subseteq 1..lastIv',
         \A i \in DOMAIN ivs' : i \in 1..lastIv => i \in DOMAIN ivs /\ ivs'[i] = ivs[i]
  PROVE  Data' /\ \A q : Sound(q) => Sound(q)'
<1>1. Data'
  BY DEF AdminInv, Data, AdminTypeOK, ValuesUnique, Counters, Marked,
         tokenVars, sweepVars
<1>2. \A q : Sound(q) => Sound(q)'
  BY <1>1, SoundStays DEF AdminInv, Counters, Data, tokenVars
<1> QED  BY <1>1, <1>2

\* The requests that are not answered in a step.
LEMMA NoAnswer ==
  ASSUME Requests, req' = req, \A q : Sound(q) => Sound(q)'
  PROVE  Requests'
<1>1. \A s \in Slots : Sound(req[s])'
  <2> SUFFICES ASSUME NEW s \in Slots PROVE Sound(req[s])'  OBVIOUS
  <2> DEFINE q == req[s]
  <2>1. Sound(req[s])  BY DEF Requests
  <2>2. PICK c : c = req[s] /\ req'[s] = c  OBVIOUS
  <2>3. Sound(c) /\ (Sound(c) => Sound(c)')  BY <2>1, <2>2
  <2> QED  BY <2>2, <2>3 DEF Sound
<1> QED  BY <1>1 DEF Requests

LEMMA BeginStep ==
  ASSUME AdminInv, NEW r \in Slots, Begin(r)
  PROVE  AdminInv'
<1>1. UNCHANGED <<tokenVars, ivVars, sweepVars, now>> /\ untested' \in [Visitors -> Nat]
  <2>1. untested \in [Visitors -> Nat]  BY DEF AdminInv, AdminTypeOK
  <2>2. UNCHANGED <<tokenVars, ivVars, sweepVars, now>>
    BY DEF Begin, BeginCreate, BeginCreateUntested, BeginDelete, GetInteraction
  <2>3. untested' = untested
          \/ \E v \in Visitors : untested' = [untested EXCEPT ![v] = @ + 1]
    BY DEF Begin, BeginCreate, BeginCreateUntested, BeginDelete, GetInteraction
  <2> QED  BY <2>1, <2>2, <2>3
<1>2. PICK next : Answer(r, next) /\ Sound(next)
  <2>1. PICK v \in Visitors :
          \/ BeginCreate(r, v) \/ BeginCreateUntested(r, v)
          \/ \E id \in DOMAIN tokens : BeginDelete(r, v, id)
          \/ \E i \in DOMAIN ivs : GetInteraction(r, v, i)
    BY DEF Begin
  <2>2. CASE BeginCreate(r, v) \/ BeginCreateUntested(r, v)
    BY <2>2 DEF BeginCreate, BeginCreateUntested, Creating, Sound
  <2>4. ASSUME NEW id \in DOMAIN tokens, BeginDelete(r, v, id)
        PROVE  \E next : Answer(r, next) /\ Sound(next)
    BY <2>4 DEF BeginDelete, TokensOf, Sound, AdminInv, AdminTypeOK
  <2>5. ASSUME NEW i \in DOMAIN ivs, GetInteraction(r, v, i)
        PROVE  \E next : Answer(r, next) /\ Sound(next)
    BY <2>5 DEF GetInteraction, Sound, AdminInv, AdminTypeOK
  <2> QED  BY <2>1, <2>2, <2>4, <2>5
<1> QED
  BY <1>1, <1>2, ReadStep, AnswerIsSound DEF AdminInv, Data

LEMMA CreateStep ==
  ASSUME AdminInv, NEW r \in Slots,
         (\E val \in Values : CreateAttempt(r, val)) \/ CreateInsert(r)
  PROVE  AdminInv'
<1>1. Requests /\ Sound(req[r])  BY DEF AdminInv, Requests
<1>2. ASSUME UNCHANGED <<tokenVars, ivVars, sweepVars, now, untested>>,
             NEW next, Answer(r, next), Sound(next)
      PROVE  AdminInv'
  BY <1>2, ReadStep, AnswerIsSound DEF AdminInv, Data, AdminTypeOK
<1>3. Sound(Idle)  BY DEF Sound, Idle
<1>4. ASSUME NEW val \in Values, CreateAttempt(r, val) PROVE AdminInv'
  <2>1. req[r].by \in Visitors /\ req[r].pc = "attempt"
    BY <1>1, <1>4 DEF CreateAttempt, At, Sound
  <2>2. CASE Taken(val)
    <3>1. PICK next \in {Idle, Creating(req[r].by, req[r].tries + 1)} :
            Answer(r, next)
      BY <1>4, <2>2 DEF CreateAttempt, Conflict
    <3>2. Sound(next)
      BY <3>1, <1>3, <2>1 DEF Sound, Creating
    <3> QED  BY <1>2, <1>4, <2>2, <3>1, <3>2 DEF CreateAttempt, Conflict
  <2>3. CASE ~Taken(val) /\ InMemory
    BY <1>4, <2>1, <2>3, InsertStep DEF CreateAttempt
  <2>4. CASE ~Taken(val) /\ ~InMemory
    <3>1. Sound([pc |-> "insert", by |-> req[r].by, value |-> val])
      BY <2>1 DEF Sound
    <3> QED  BY <1>2, <1>4, <2>4, <3>1 DEF CreateAttempt
  <2> QED  BY <2>2, <2>3, <2>4
<1>5. ASSUME CreateInsert(r) PROVE AdminInv'
  <2>1. req[r].by \in Visitors /\ req[r].value \in Values
    BY <1>1, <1>5 DEF CreateInsert, At, Sound
  <2>2. CASE Taken(req[r].value)
    BY <1>2, <1>3, <1>5, <2>2 DEF CreateInsert
  <2>3. CASE ~Taken(req[r].value)
    BY <1>5, <2>1, <2>3, InsertStep DEF CreateInsert
  <2> QED  BY <2>2, <2>3
<1> QED  BY <1>4, <1>5

\* Taking a set of ids away.
LEMMA WithoutTokens ==
  ASSUME AdminInv, NEW S, tokens' = Without(tokens, S)
  PROVE  /\ DOMAIN tokens' = DOMAIN tokens \ S
         /\ \A id \in DOMAIN tokens' : tokens'[id] = tokens[id]
         /\ tokens' \in [DOMAIN tokens' -> [value : Values, owner : Visitors,
                                        status : {"active", "expired"}, expires : Nat]]
  BY DEF Without, Restrict, AdminInv, AdminTypeOK

LEMMA WithoutIvs ==
  ASSUME AdminInv, NEW S, ivs' = Without(ivs, S)
  PROVE  /\ DOMAIN ivs' = DOMAIN ivs \ S
         /\ \A i \in DOMAIN ivs' : ivs'[i] = ivs[i]
         /\ ivs' \in [DOMAIN ivs' -> Values] /\ DOMAIN ivs' \subseteq 1..lastIv
  BY DEF Without, Restrict, AdminInv, AdminTypeOK

LEMMA ServeStep ==
  ASSUME AdminInv, NEW r \in Slots, Serve(r)
  PROVE  AdminInv'
<1>1. Requests /\ Sound(req[r]) /\ Sound(Idle)
  BY DEF AdminInv, Requests, Sound, Idle
<1>2. CASE DeleteToken(r)
  <2>1. tokens' = Without(tokens, {req[r].id}) /\ Answer(r, Idle) /\ UNCHANGED sweepVars
        /\ UNCHANGED <<lastToken, ivVars, now, untested>>
    BY <1>2 DEF DeleteToken
  <2> QED  BY <1>1, <2>1, WithoutTokens, TokensGoStep, AnswerIsSound DEF AdminInv
<1>3. CASE OwnsInteraction(r)
  <2>1. PICK next : Answer(r, next) /\ Sound(next)
    <3>1. CASE OwnedBy(req[r].token, req[r].by)
      <4> DEFINE next == [pc |-> "delIv", by |-> req[r].by, iv |-> req[r].iv,
                          token |-> req[r].token]
      <4>1. Answer(r, next)  BY <1>3, <3>1 DEF OwnsInteraction
      <4>2. Sound(next)  BY <1>1, <1>3 DEF OwnsInteraction, At, Sound
      <4> QED  BY <4>1, <4>2
    <3>2. CASE ~OwnedBy(req[r].token, req[r].by)
      BY <1>1, <1>3, <3>2 DEF OwnsInteraction
    <3> QED  BY <3>1, <3>2
  <2> QED  BY <1>3, <2>1, ReadStep, AnswerIsSound DEF OwnsInteraction, AdminInv, Data, AdminTypeOK
<1>4. CASE DeleteInteraction(r)
  <2>1. ivs' = Without(ivs, {req[r].iv}) /\ Answer(r, Idle) /\ lastIv' = lastIv
        /\ UNCHANGED <<tokenVars, sweepVars, now, untested>>
    BY <1>4 DEF DeleteInteraction
  <2>2. /\ DOMAIN ivs' \subseteq DOMAIN ivs /\ \A i \in DOMAIN ivs' : ivs'[i] = ivs[i]
        /\ ivs' \in [DOMAIN ivs' -> Values] /\ DOMAIN ivs' \subseteq 1..lastIv'
    BY <2>1, WithoutIvs
  <2>3. lastIv' \in Nat /\ lastIv <= lastIv'
    BY <2>1 DEF AdminInv, Counters
  <2>4. Data' /\ \A q : Sound(q) => Sound(q)'
    BY <2>1, <2>2, <2>3, CallbackStep
  <2> QED  BY <1>1, <2>1, <2>4, AnswerIsSound DEF AdminInv, Data
<1>5. CASE CallFails(r)
  BY <1>1, <1>5, ReadStep, AnswerIsSound DEF CallFails, AdminInv, Data, AdminTypeOK
<1> QED  BY <1>2, <1>3, <1>4, <1>5, CreateStep DEF Serve

LEMMA WorldStep ==
  ASSUME AdminInv,
         \/ \E val \in Values : Callback(val)
         \/ Evict \/ SweepExpired \/ SweepPurged \/ SweepCallFails \/ Tick
  PROVE  AdminInv'
<1>1. req' = req /\ Requests
  BY DEF Callback, Evict, SweepExpired, SweepPurged, SweepCallFails, Tick, reqVars, AdminInv
<1>2. SUFFICES Data' /\ \A q : Sound(q) => Sound(q)'
  BY <1>1, NoAnswer DEF AdminInv, Data
<1>3. lastIv \in Nat /\ ivs \in [DOMAIN ivs -> Values] /\ DOMAIN ivs \subseteq 1..lastIv
  BY DEF AdminInv, Counters, AdminTypeOK
<1>4. now \in Nat /\ now \in 0..MaxTime /\ (marked # Never => marked \in Nat /\ marked <= now)
  BY TokenBoundAssumption DEF AdminInv, AdminTypeOK, Marked
<1>5. CASE \E val \in Values : Callback(val)
  <2>1. PICK val \in Values : Callback(val)  BY <1>5
  <2>2. /\ UNCHANGED <<tokenVars, sweepVars, now, untested>> /\ lastIv' = lastIv + 1
        /\ ivs' = [i \in DOMAIN ivs \cup {lastIv + 1} |->
                     IF i = lastIv + 1 THEN val ELSE ivs[i]]
    BY <2>1 DEF Callback, NextIv, reqVars
  <2> QED  BY <1>3, <2>2, CallbackStep
<1>6. CASE Evict
  <2>1. PICK S : ivs' = Without(ivs, S)  BY <1>6 DEF Evict
  <2>2. UNCHANGED <<tokenVars, sweepVars, now, untested, lastIv>>  BY <1>6 DEF Evict, reqVars
  <2>3. /\ DOMAIN ivs' \subseteq DOMAIN ivs /\ \A i \in DOMAIN ivs' : ivs'[i] = ivs[i]
        /\ ivs' \in [DOMAIN ivs' -> Values] /\ DOMAIN ivs' \subseteq 1..lastIv'
    BY <2>1, <2>2, WithoutIvs
  <2> QED  BY <1>3, <2>2, <2>3, CallbackStep
<1>7. CASE SweepExpired
  <2> DEFINE Past(id) == tokens[id].status = "active" /\ now > tokens[id].expires
  <2>1. /\ UNCHANGED <<lastToken, ivVars, now, untested>> /\ sweep' = "purge" /\ marked' = now
        /\ DOMAIN tokens' = DOMAIN tokens
        /\ \A id \in DOMAIN tokens :
             tokens'[id] = IF Past(id) THEN [tokens[id] EXCEPT !.status = "expired"]
                           ELSE tokens[id]
        /\ tokens' = [id \in DOMAIN tokens |-> tokens'[id]]
    BY <1>7 DEF SweepExpired, reqVars
  <2>2. \A id \in DOMAIN tokens :
          /\ tokens[id] \in [value : Values, owner : Visitors,
                             status : {"active", "expired"}, expires : Nat]
          /\ tokens'[id] \in [value : Values, owner : Visitors,
                              status : {"active", "expired"}, expires : Nat]
          /\ tokens'[id].value = tokens[id].value
          /\ tokens'[id].owner = tokens[id].owner
          /\ tokens'[id].expires = tokens[id].expires
          /\ tokens'[id].status = IF Past(id) THEN "expired" ELSE tokens[id].status
    <3>1. \A id \in DOMAIN tokens :
            tokens[id] \in [value : Values, owner : Visitors,
                            status : {"active", "expired"}, expires : Nat]
      BY DEF AdminInv, AdminTypeOK
    <3>2. ASSUME NEW t \in [value : Values, owner : Visitors,
                            status : {"active", "expired"}, expires : Nat],
                 NEW u, u = [t EXCEPT !.status = "expired"]
          PROVE  /\ u \in [value : Values, owner : Visitors,
                            status : {"active", "expired"}, expires : Nat]
                 /\ u.value = t.value /\ u.owner = t.owner /\ u.expires = t.expires
                 /\ u.status = "expired"
      BY <3>2
    <3> QED  BY <2>1, <3>1, <3>2
  <2>3. /\ tokens' \in [DOMAIN tokens' -> [value : Values, owner : Visitors,
                                  status : {"active", "expired"}, expires : Nat]]
        /\ \A id \in DOMAIN tokens' : tokens'[id].status = "active" => tokens[id].status = "active"
    BY <2>1, <2>2
  <2>4. ValuesUnique' /\ Counters' /\ \A q : Sound(q) => Sound(q)'
    BY <2>1, <2>2, <2>3, TokensGoStep
  <2>5. Marked'
    BY <1>4, <2>1, <2>2 DEF Marked
  <2>6. AdminTypeOK'
    BY <1>3, <1>4, <2>1, <2>3 DEF AdminInv, AdminTypeOK, ivVars
  <2> QED  BY <2>4, <2>5, <2>6 DEF Data
<1>8. CASE SweepPurged
  <2>1. PICK S : tokens' = Without(tokens, S)  BY <1>8 DEF SweepPurged
  <2>2. UNCHANGED <<lastToken, ivVars, now, untested>> /\ sweep' = "wait" /\ marked' = Never
    BY <1>8 DEF SweepPurged, reqVars
  <2>3. ValuesUnique' /\ Counters' /\ \A q : Sound(q) => Sound(q)'
    BY <2>1, <2>2, WithoutTokens, TokensGoStep
  <2>4. Marked'  BY <2>2 DEF Marked
  <2>5. AdminTypeOK'
    BY <1>3, <1>4, <2>1, <2>2, WithoutTokens DEF AdminInv, AdminTypeOK, ivVars
  <2> QED  BY <2>3, <2>4, <2>5 DEF Data
<1>9. CASE Tick
  <2>1. UNCHANGED <<tokens, lastToken, ivs, lastIv, untested, sweep, marked>> /\ now' = now + 1
        /\ now' \in 0..MaxTime
    BY <1>4, <1>9, TokenBoundAssumption
       DEF Tick, tokenVars, ivVars, reqVars, sweepVars
  <2>2. \A q : Sound(q) => Sound(q)'  BY <2>1 DEF Sound
  <2>3. Marked'  BY <1>4, <2>1 DEF AdminInv, Marked
  <2> QED
    BY <2>1, <2>2, <2>3 DEF AdminInv, Data, AdminTypeOK, ValuesUnique, Counters
<1>10. CASE SweepCallFails
  <2>1. UNCHANGED <<tokens, lastToken, ivs, lastIv, untested, now>> /\ marked' = Never
        /\ sweep' \in {"wait", "purge"}
    BY <1>10 DEF SweepCallFails, tokenVars, ivVars, reqVars
  <2> QED
    BY <2>1 DEF AdminInv, Data, AdminTypeOK, ValuesUnique, Counters, Marked, Sound
<1> QED  BY <1>5, <1>6, <1>7, <1>8, <1>9, <1>10

LEMMA AdminInvStep == AdminInv /\ [AdminNext]_adminVars => AdminInv'
<1> SUFFICES ASSUME AdminInv, [AdminNext]_adminVars PROVE AdminInv'  OBVIOUS
<1>1. CASE UNCHANGED adminVars
  <2>1. UNCHANGED <<tokenVars, ivVars, sweepVars, now, untested, req>>
    BY <1>1 DEF adminVars, reqVars
  <2> QED  BY <2>1, ReadStep, NoAnswer DEF AdminInv, Data, AdminTypeOK
<1>2. ASSUME NEW r \in Slots, Begin(r) \/ Serve(r) PROVE AdminInv'
  BY <1>2, BeginStep, ServeStep
<1> QED  BY <1>1, <1>2, WorldStep DEF AdminNext

-----------------------------------------------------------------------------
(* What a step does.                                                       *)

\* A request's own steps leave the other requests and the sweeper alone.
LEMMA OneAnswer ==
  ASSUME AdminInv, NEW r \in Slots, Begin(r) \/ Serve(r)
  PROVE  UNCHANGED sweepVars /\ \A s \in Slots \ {r} : req'[s] = req[s]
  BY DEF Begin, BeginCreate, BeginCreateUntested, BeginDelete, GetInteraction, Serve,
         CreateAttempt, Conflict, InsertToken, CreateInsert, DeleteToken,
         OwnsInteraction, DeleteInteraction, CallFails, Answer,
         AdminInv, Requests

LEMMA GoStep == AdminInv /\ [AdminNext]_adminVars => [GoForAReason]_adminVars
<1> SUFFICES ASSUME AdminInv, AdminNext,
                    NEW id \in DOMAIN tokens \ DOMAIN tokens'
             PROVE  \/ now - Grace > tokens[id].expires
                    \/ \E r \in Slots : At(r, "delToken") /\ req[r].by = tokens[id].owner
  BY DEF GoForAReason
<1>1. ASSUME NEW r \in Slots, Begin(r) \/ Serve(r)
      PROVE  At(r, "delToken") /\ req[r].by = tokens[id].owner
  <2>1. CASE DeleteToken(r)
    <3> DEFINE S == {req[r].id}
    <3>1. tokens' = Without(tokens, S) /\ At(r, "delToken")  BY <2>1 DEF DeleteToken
    <3> HIDE DEF S
    <3>2. DOMAIN tokens' = DOMAIN tokens \ S  BY <3>1, WithoutTokens
    <3>3. id \in S  BY <3>2
    <3>4. id = req[r].id  BY <3>3 DEF S
    <3> QED  BY <3>1, <3>4 DEF AdminInv, Requests, Sound, At
  <2>2. CASE ~DeleteToken(r)
    <3>1. DOMAIN tokens \subseteq DOMAIN tokens'
      BY <1>1, <2>2 DEF Begin, BeginCreate, BeginCreateUntested, BeginDelete, GetInteraction, Serve,
           CreateAttempt, Conflict, InsertToken, CreateInsert, OwnsInteraction,
           DeleteInteraction, CallFails, tokenVars
    <3> QED  BY <3>1
  <2> QED  BY <2>1, <2>2
<1>2. CASE SweepPurged
  <2> DEFINE S == {t \in DOMAIN tokens : Purgeable(tokens[t])}
  <2>1. tokens' = Without(tokens, S)  BY <1>2 DEF SweepPurged
  <2> HIDE DEF S
  <2>2. DOMAIN tokens' = DOMAIN tokens \ S  BY <2>1, WithoutTokens
  <2>3. id \in S  BY <2>2
  <2> QED  BY <2>3 DEF S, Purgeable
<1>3. CASE \/ \E val \in Values : Callback(val)
           \/ Evict \/ SweepExpired \/ SweepCallFails \/ Tick
  <2>1. DOMAIN tokens' = DOMAIN tokens
    BY <1>3 DEF Callback, Evict, SweepExpired, SweepCallFails, Tick, tokenVars
  <2> QED  BY <2>1
<1> QED  BY <1>1, <1>2, <1>3 DEF AdminNext

LEMMA DeleteStep == AdminInv /\ [AdminNext]_adminVars => [DeletesChecked]_adminVars
<1> SUFFICES ASSUME AdminInv, AdminNext, NEW r \in Slots, At(r, "delIv"), Free(r)',
                    NEW i \in DOMAIN ivs \ DOMAIN ivs'
             PROVE  ivs[i] = req[r].token
  BY DEF DeletesChecked
<1>1. req' # req  BY DEF Free, At
<1>2. PICK s \in Slots : Begin(s) \/ Serve(s)
  BY <1>1 DEF AdminNext, Callback, Evict, SweepExpired, SweepPurged, SweepCallFails, Tick, reqVars
<1>3. s = r  BY <1>2, OneAnswer DEF Free, At
<1>4. CASE DeleteInteraction(r)
  <2> DEFINE S == {req[r].iv}
  <2>1. ivs' = Without(ivs, S)  BY <1>4 DEF DeleteInteraction
  <2> HIDE DEF S
  <2>2. i \in S  BY <2>1, WithoutIvs
  <2>3. i = req[r].iv  BY <2>2 DEF S
  <2> QED  BY <2>3 DEF AdminInv, Requests, Sound, At
<1>5. CASE CallFails(r)
  BY <1>5 DEF CallFails, ivVars
<1> QED
  BY <1>2, <1>3, <1>4, <1>5 DEF Begin, BeginCreate, BeginCreateUntested, BeginDelete, GetInteraction,
       Serve, CreateAttempt, CreateInsert, DeleteToken, OwnsInteraction, Free, At

LEMMA SweepStep == AdminInv /\ [AdminNext]_adminVars => [SweepsAll]_adminVars
<1> SUFFICES ASSUME AdminInv, AdminNext, marked # Never, SweepPurged,
                    NEW id \in DOMAIN tokens'
             PROVE  marked - Grace <= tokens'[id].expires
  BY DEF SweepsAll
<1>2. /\ now \in Nat /\ Grace \in Nat /\ marked \in Nat /\ marked <= now
      /\ id \in DOMAIN tokens /\ tokens'[id] = tokens[id] /\ ~Purgeable(tokens[id])
      /\ tokens[id].expires \in Nat /\ tokens[id].status \in {"active", "expired"}
  <2> DEFINE S == {t \in DOMAIN tokens : Purgeable(tokens[t])}
  <2>1. tokens' = Without(tokens, S)  BY DEF SweepPurged
  <2> HIDE DEF S
  <2>2. id \in DOMAIN tokens /\ id \notin S /\ tokens'[id] = tokens[id]
    BY <2>1, WithoutTokens
  <2>3. ~Purgeable(tokens[id])  BY <2>2 DEF S
  <2>4. /\ now \in Nat /\ Grace \in Nat /\ marked \in Nat /\ marked <= now
    BY TokenAssumption, TokenBoundAssumption DEF AdminInv, AdminTypeOK, Marked
  <2> QED  BY <2>2, <2>3, <2>4 DEF AdminInv, AdminTypeOK
<1>3. tokens[id].status = "active" => marked <= tokens[id].expires
  BY <1>2 DEF AdminInv, Marked
<1> QED  BY <1>2, <1>3 DEF Purgeable

-----------------------------------------------------------------------------
(* The cap.                                                                *)

\* A visitor's creates that are past the test of the cap, but not yet answered.
InProgress(v) ==
  {r \in Slots : req[r].pc \in {"attempt", "insert"} /\ req[r].by = v}

Limit(v) == MaxPerVisitor + untested[v] + Cardinality(Slots) - 1

\* They count as the tokens they may become.
CapInv ==
  \A v \in Visitors : Cardinality(TokensOf(v)) + Cardinality(InProgress(v)) <= Limit(v)

LEMMA CapArithmetic ==
  ASSUME AdminInv, NEW v \in Visitors
  PROVE  /\ IsFiniteSet(TokensOf(v)) /\ Cardinality(TokensOf(v)) \in Nat
         /\ IsFiniteSet(InProgress(v)) /\ Cardinality(InProgress(v)) \in Nat
         /\ Cardinality(InProgress(v)) <= Cardinality(Slots) /\ Cardinality(Slots) \in Nat
         /\ untested[v] \in Nat /\ MaxPerVisitor \in Nat \ {0}
<1>1. InProgress(v) \subseteq Slots  BY DEF InProgress
<1>2. TokensOf(v) \subseteq 1..lastToken /\ lastToken \in Nat
  BY DEF TokensOf, AdminInv, AdminTypeOK, Counters
<1>3. IsFiniteSet(1..lastToken)  BY <1>2, FS_Interval
<1>4. untested[v] \in Nat /\ MaxPerVisitor \in Nat \ {0}
  BY TokenAssumption DEF AdminInv, AdminTypeOK
<1>5. IsFiniteSet(TokensOf(v))  BY <1>2, <1>3, FS_Subset
<1> QED  BY <1>1, <1>4, <1>5, SlotsAssumption, FS_Subset, FS_CardinalityType

LEMMA CapInvInit == AdminInit => CapInv
<1> SUFFICES ASSUME AdminInit, NEW v \in Visitors
             PROVE  Cardinality(TokensOf(v)) + Cardinality(InProgress(v)) <= Limit(v)
  BY DEF CapInv
<1>1. TokensOf(v) = {} /\ InProgress(v) = {} /\ untested[v] = 0
  BY DEF AdminInit, TokensOf, InProgress, Idle
<1>2. Cardinality(Slots) \in Nat /\ MaxPerVisitor \in Nat \ {0}
  BY CapArithmetic, AdminInvInit
<1> QED  BY <1>1, <1>2, FS_EmptySet DEF Limit

\* A visitor that gets no token and no new request stays below the cap.
LEMMA CapStays ==
  ASSUME AdminInv, CapInv, NEW v \in Visitors, untested'[v] = untested[v],
         TokensOf(v)' \subseteq TokensOf(v), InProgress(v)' \subseteq InProgress(v)
  PROVE  (Cardinality(TokensOf(v)) + Cardinality(InProgress(v)) <= Limit(v))'
<1>1. /\ Cardinality(TokensOf(v)') <= Cardinality(TokensOf(v))
      /\ Cardinality(TokensOf(v)') \in Nat
  BY CapArithmetic, FS_Subset, FS_CardinalityType
<1>2. /\ Cardinality(InProgress(v)') <= Cardinality(InProgress(v))
      /\ Cardinality(InProgress(v)') \in Nat
  BY CapArithmetic, FS_Subset, FS_CardinalityType
<1>3. Cardinality(TokensOf(v)) + Cardinality(InProgress(v)) <= Limit(v)  BY DEF CapInv
<1> QED  BY <1>1, <1>2, <1>3, CapArithmetic DEF Limit

\* The test of the cap lets one request in; a list that fails lets in one that
\* the limit counts.
LEMMA CapBegin ==
  ASSUME AdminInv, CapInv, NEW r \in Slots, NEW u \in Visitors,
         BeginCreate(r, u) \/ BeginCreateUntested(r, u)
  PROVE  CapInv'
<1>1. /\ tokens' = tokens /\ req[r].pc = "idle" /\ DOMAIN req = Slots
      /\ req' = [req EXCEPT ![r] = Creating(u, 0)]
  BY DEF BeginCreate, BeginCreateUntested, Free, At, Answer, AdminInv, Requests, tokenVars
<1>2. \A v \in Visitors : TokensOf(v)' = TokensOf(v)  BY <1>1 DEF TokensOf
<1>3. \A v \in Visitors : v # u => InProgress(v)' \subseteq InProgress(v)
  BY <1>1 DEF InProgress, Creating
<1>4. \A v \in Visitors : v # u => untested'[v] = untested[v]
  BY DEF BeginCreate, BeginCreateUntested, AdminInv, AdminTypeOK
<1>5. (Cardinality(TokensOf(u)) + Cardinality(InProgress(u)) <= Limit(u))'
  <2>1. InProgress(u)' = InProgress(u) \cup {r} /\ r \notin InProgress(u)
    BY <1>1 DEF InProgress, Creating
  <2>2. Cardinality(InProgress(u)') = Cardinality(InProgress(u)) + 1
    BY <2>1, CapArithmetic, FS_AddElement
  <2>3. Cardinality(InProgress(u)') <= Cardinality(Slots)
    <3>1. InProgress(u)' \subseteq Slots  BY DEF InProgress
    <3> QED  BY <3>1, SlotsAssumption, FS_Subset
  <2>4. Cardinality(TokensOf(u)') = Cardinality(TokensOf(u))  BY <1>2
  <2>5. CASE BeginCreate(r, u)
    <3>1. Cardinality(TokensOf(u)) < MaxPerVisitor /\ untested' = untested
      BY <2>5 DEF BeginCreate
    <3> QED  BY <2>2, <2>3, <2>4, <3>1, CapArithmetic DEF Limit
  <2>6. CASE BeginCreateUntested(r, u)
    <3>1. untested'[u] = untested[u] + 1
      BY <2>6 DEF BeginCreateUntested, AdminInv, AdminTypeOK
    <3>2. Cardinality(TokensOf(u)) + Cardinality(InProgress(u)) <= Limit(u)  BY DEF CapInv
    <3> QED  BY <2>2, <2>4, <3>1, <3>2, CapArithmetic DEF Limit
  <2> QED  BY <2>5, <2>6
<1>6. \A v \in Visitors :
        (Cardinality(TokensOf(v)) + Cardinality(InProgress(v)) <= Limit(v))'
  BY <1>2, <1>3, <1>4, <1>5, CapStays
<1> QED  BY <1>6 DEF CapInv

\* A request that was let in becomes a token.
LEMMA CapInsert ==
  ASSUME AdminInv, CapInv, NEW r \in Slots, NEW val \in Values, InsertToken(r, val),
         req[r].pc \in {"attempt", "insert"}, untested' = untested
  PROVE  CapInv'
<1> PICK u \in Visitors : u = req[r].by
  BY DEF AdminInv, Requests, Sound
<1> PICK n \in Nat : n = lastToken + 1
  BY DEF AdminInv, Counters
<1>1. /\ DOMAIN req = Slots /\ n \notin DOMAIN tokens
      /\ req' = [req EXCEPT ![r] = Idle]
      /\ tokens' = [id \in DOMAIN tokens \cup {n} |->
                      IF id = n THEN NewToken(val, u) ELSE tokens[id]]
  BY DEF InsertToken, Answer, AdminInv, Requests, Counters, AdminTypeOK
<1>2. NewToken(val, u).owner = u  BY DEF NewToken
<1>3. \A v \in Visitors : v # u => TokensOf(v)' \subseteq TokensOf(v)
  BY <1>1, <1>2 DEF TokensOf
<1>4. \A v \in Visitors : InProgress(v)' \subseteq InProgress(v)
  BY <1>1 DEF InProgress, Idle
<1>5. (Cardinality(TokensOf(u)) + Cardinality(InProgress(u)) <= Limit(u))'
  <2>1. Cardinality(TokensOf(u)') = Cardinality(TokensOf(u)) + 1
    <3> DEFINE T == TokensOf(u)
    <3>1. IsFiniteSet(T) /\ n \notin T
      BY <1>1, CapArithmetic DEF TokensOf
    <3>2. TokensOf(u)' = T \cup {n}
      BY <1>1, <1>2 DEF TokensOf
    <3> HIDE DEF T
    <3>3. Cardinality(T \cup {n}) = Cardinality(T) + 1
      BY <3>1, FS_AddElement
    <3> QED  BY <3>2, <3>3 DEF T
  <2>2. InProgress(u)' \subseteq InProgress(u) \ {r} /\ r \in InProgress(u)
    BY <1>1, <1>4 DEF InProgress, Idle
  <2>3. /\ Cardinality(InProgress(u) \ {r}) = Cardinality(InProgress(u)) - 1
        /\ IsFiniteSet(InProgress(u) \ {r})
    BY <2>2, FS_RemoveElement, CapArithmetic
  <2>4. /\ Cardinality(InProgress(u)') <= Cardinality(InProgress(u)) - 1
        /\ Cardinality(InProgress(u)') \in Nat
    BY <2>2, <2>3, FS_Subset, FS_CardinalityType
  <2>5. Cardinality(TokensOf(u)) + Cardinality(InProgress(u)) <= Limit(u)  BY DEF CapInv
  <2> QED  BY <2>1, <2>4, <2>5, CapArithmetic DEF Limit
<1>6. \A v \in Visitors :
        (Cardinality(TokensOf(v)) + Cardinality(InProgress(v)) <= Limit(v))'
  BY <1>3, <1>4, <1>5, CapStays
<1> QED  BY <1>6 DEF CapInv

\* Every other step takes tokens and requests away, if anything.
LEMMA CapInvStep == AdminInv /\ CapInv /\ [AdminNext]_adminVars => CapInv'
<1> SUFFICES ASSUME AdminInv, CapInv, [AdminNext]_adminVars PROVE CapInv'  OBVIOUS
<1>1. ASSUME \A v \in Visitors : TokensOf(v)' \subseteq TokensOf(v),
             \A v \in Visitors : InProgress(v)' \subseteq InProgress(v),
             untested' = untested
      PROVE  CapInv'
  BY <1>1, CapStays DEF CapInv
<1>2. ASSUME tokens' = tokens
      PROVE  \A v \in Visitors : TokensOf(v)' \subseteq TokensOf(v)
  BY <1>2 DEF TokensOf
<1>3. ASSUME NEW r \in Slots, NEW next, Answer(r, next),
             \/ next.pc \notin {"attempt", "insert"}
             \/ /\ req[r].pc \in {"attempt", "insert"}
                /\ next.by = req[r].by
      PROVE  \A v \in Visitors : InProgress(v)' \subseteq InProgress(v)
  BY <1>3 DEF Answer, InProgress, AdminInv, Requests
<1>4. ASSUME NEW r \in Slots, NEW next, Answer(r, next), tokens' = tokens, untested' = untested,
              \/ next.pc \notin {"attempt", "insert"}
              \/ /\ req[r].pc \in {"attempt", "insert"}
                 /\ next.by = req[r].by
       PROVE  CapInv'
  BY <1>1, <1>2, <1>3, <1>4
<1>5. ASSUME NEW r \in Slots, Begin(r) PROVE CapInv'
  <2>1. PICK v \in Visitors :
          \/ BeginCreate(r, v) \/ BeginCreateUntested(r, v)
          \/ \E id \in DOMAIN tokens : BeginDelete(r, v, id)
          \/ \E i \in DOMAIN ivs : GetInteraction(r, v, i)
    BY <1>5 DEF Begin
  <2>2. CASE ~(BeginCreate(r, v) \/ BeginCreateUntested(r, v))
    BY <1>4, <2>1, <2>2 DEF BeginDelete, GetInteraction, tokenVars
  <2> QED  BY <2>2, CapBegin
<1>6. ASSUME NEW r \in Slots, NEW val \in Values, CreateAttempt(r, val) PROVE CapInv'
  <2>1. req[r].pc = "attempt"  BY <1>6 DEF CreateAttempt, At
  <2>2. CASE Taken(val) \/ ~InMemory
    <3>1. UNCHANGED <<tokens, untested>>
      BY <1>6, <2>2 DEF CreateAttempt, Conflict, tokenVars
    <3>2. PICK next \in {Idle, Creating(req[r].by, req[r].tries + 1),
                         [pc |-> "insert", by |-> req[r].by, value |-> val]} :
            Answer(r, next)
      BY <1>6, <2>2 DEF CreateAttempt, Conflict
    <3> QED  BY <1>4, <2>1, <3>1, <3>2 DEF Idle, Creating
  <2>3. CASE ~Taken(val) /\ InMemory
    BY <1>6, <2>1, <2>3, CapInsert DEF CreateAttempt
  <2> QED  BY <2>2, <2>3
<1>7. ASSUME NEW r \in Slots, CreateInsert(r) PROVE CapInv'
  <2>1. req[r].pc = "insert" /\ req[r].value \in Values
    BY <1>7 DEF CreateInsert, At, AdminInv, Requests, Sound
  <2>2. CASE Taken(req[r].value)
    BY <1>7, <1>4, <2>2 DEF CreateInsert, tokenVars, Idle
  <2>3. CASE ~Taken(req[r].value)
    BY <1>7, <2>1, <2>3, CapInsert DEF CreateInsert
  <2> QED  BY <2>2, <2>3
<1>8. ASSUME NEW r \in Slots, DeleteToken(r) PROVE CapInv'
  <2>1. tokens' = Without(tokens, {req[r].id}) /\ Answer(r, Idle) /\ untested' = untested
    BY <1>8 DEF DeleteToken
  <2>2. \A v \in Visitors : TokensOf(v)' \subseteq TokensOf(v)
    BY <2>1 DEF TokensOf, Without, Restrict
  <2> QED  BY <1>1, <1>3, <2>1, <2>2 DEF Idle
<1>9. ASSUME NEW r \in Slots,
             \/ OwnsInteraction(r) \/ DeleteInteraction(r)
             \/ CallFails(r)
      PROVE  CapInv'
  BY <1>9, <1>4
     DEF OwnsInteraction, DeleteInteraction, CallFails,
         tokenVars, Idle
<1>10. ASSUME (\E val \in Values : Callback(val)) \/ Evict \/ Tick \/ SweepCallFails
                \/ UNCHANGED adminVars
      PROVE  CapInv'
  <2>1. UNCHANGED <<tokens, req, untested>>
    BY <1>10 DEF Callback, Evict, Tick, SweepCallFails, adminVars, tokenVars, reqVars
  <2>2. \A v \in Visitors : InProgress(v)' \subseteq InProgress(v)  BY <2>1 DEF InProgress
  <2> QED  BY <1>1, <1>2, <2>1, <2>2
<1>11. ASSUME SweepExpired \/ SweepPurged PROVE CapInv'
  <2>1. UNCHANGED <<req, untested>>
    BY <1>11 DEF SweepExpired, SweepPurged, reqVars
  <2>2. \A v \in Visitors : InProgress(v)' \subseteq InProgress(v)  BY <2>1 DEF InProgress
  <2>3. \A v \in Visitors : TokensOf(v)' \subseteq TokensOf(v)
    <3>1. CASE SweepPurged
      BY <2>1, <3>1 DEF SweepPurged, TokensOf, Without, Restrict
    <3>2. CASE SweepExpired
      <4>1. \A id \in DOMAIN tokens : tokens'[id].owner = tokens[id].owner
        <5>1. ASSUME NEW t \in [value : Values, owner : Visitors,
                                status : {"active", "expired"}, expires : Nat]
              PROVE  [t EXCEPT !.status = "expired"].owner = t.owner
          OBVIOUS
        <5> QED  BY <3>2, <5>1 DEF SweepExpired, AdminInv, AdminTypeOK
      <4> QED  BY <2>1, <3>2, <4>1 DEF SweepExpired, TokensOf
    <3> QED  BY <1>11, <3>1, <3>2
  <2> QED  BY <1>1, <2>1, <2>2, <2>3
<1> QED
  BY <1>5, <1>6, <1>7, <1>8, <1>9, <1>10, <1>11 DEF AdminNext, Serve

-----------------------------------------------------------------------------

\* However many requests of a visitor run in parallel, its tokens pass the cap by
\* less than their number, and by one for each create whose list failed.
THEOREM CapHolds == AdminSpec => []CapUnderConcurrency
<1>1. AdminInv /\ CapInv => CapUnderConcurrency
  <2> SUFFICES ASSUME AdminInv, CapInv, NEW v \in Visitors
               PROVE  Cardinality(TokensOf(v)) <= Limit(v)
    BY DEF CapUnderConcurrency, Limit
  <2>1. Cardinality(TokensOf(v)) + Cardinality(InProgress(v)) <= Limit(v)  BY DEF CapInv
  <2> QED  BY <2>1, CapArithmetic DEF Limit
<1> QED  BY <1>1, AdminInvInit, AdminInvStep, CapInvInit, CapInvStep, PTL DEF AdminSpec

\* The store's tokens and callbacks, and the requests in progress, keep their
\* types.
THEOREM AdminTypesHold == AdminSpec => []AdminTypeOK
<1>1. AdminInv => AdminTypeOK  BY DEF AdminInv
<1> QED  BY <1>1, AdminInvInit, AdminInvStep, PTL DEF AdminSpec

\* Two creates that race for a value never both get it.
THEOREM ValuesStayUnique == AdminSpec => []ValuesUnique
<1>1. AdminInv => ValuesUnique  BY DEF AdminInv
<1> QED  BY <1>1, AdminInvInit, AdminInvStep, PTL DEF AdminSpec

\* A token goes only because it outlived the grace period or because its owner
\* asked, however lookups, deletes, creates and sweeps interleave.
THEOREM TokensAreKept == AdminSpec => TokensGoForAReason
  BY AdminInvInit, AdminInvStep, GoStep, PTL DEF AdminSpec, TokensGoForAReason

\* A request deletes only a callback for the value that it has checked.
THEOREM DeletesAreChecked == AdminSpec => DeletesWhatItChecked
  BY AdminInvInit, AdminInvStep, DeleteStep, PTL DEF AdminSpec, DeletesWhatItChecked

\* A sweep leaves no token that had outlived the grace period when it began.
THEOREM SweepsAreComplete == AdminSpec => SweepIsComplete
  BY AdminInvInit, AdminInvStep, SweepStep, PTL DEF AdminSpec, SweepIsComplete
=============================================================================
