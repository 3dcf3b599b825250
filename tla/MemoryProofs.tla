---------------------------- MODULE MemoryProofs ----------------------------
(***************************************************************************)
(* The indexes, the caps and the retention sweep of the memory store, for  *)
(* any tokens, caps, batches and times.                                    *)
(***************************************************************************)
EXTENDS MemoryReads, SeqFacts

\* The ids of a token.
Ids(t) == {id \in DOMAIN interactions : interactions[id].token = t}

\* The types and the indexes, with the ids that were given out and the batch
\* that is being added.
IndexInv ==
  /\ MemTypeOK /\ IndexesAgree
  /\ DOMAIN interactions \subseteq 1..nextID
  /\ lock \in {"insert", "cap"} => todo # <<>>

-----------------------------------------------------------------------------
(* Ascending lists.                                                        *)

LEMMA AscendingInjective ==
  ASSUME NEW s \in Seq(Nat), Ascending(s) PROVE IsInjective(s)
<1>1. DOMAIN s = 1..Len(s) /\ \A i \in DOMAIN s : s[i] \in Nat  OBVIOUS
<1>2. ASSUME NEW i \in DOMAIN s, NEW j \in DOMAIN s, s[i] = s[j] PROVE i = j
  <2>1. ~(i < j) /\ ~(j < i)  BY <1>1, <1>2 DEF Ascending
  <2> QED  BY <1>1, <2>1
<1> QED  BY <1>2 DEF IsInjective

LEMMA AscendingAppend ==
  ASSUME NEW s \in Seq(Nat), Ascending(s), NEW e \in Nat, \A x \in Range(s) : x < e
  PROVE  Ascending(Append(s, e))
<1> DEFINE t == Append(s, e)
<1>1. /\ DOMAIN t = 1..(Len(s) + 1) /\ DOMAIN s = 1..Len(s) /\ Len(s) \in Nat
      /\ t[Len(s) + 1] = e /\ \A i \in 1..Len(s) : t[i] = s[i]
  OBVIOUS
<1>2. \A i \in 1..Len(s) : s[i] < e  BY <1>1 DEF Range
<1>3. ASSUME NEW i \in DOMAIN t, NEW j \in DOMAIN t, i < j PROVE t[i] < t[j]
  <2>1. i \in 1..Len(s)  BY <1>1, <1>3
  <2>2. CASE j \in 1..Len(s)  BY <1>1, <1>3, <2>1, <2>2 DEF Ascending
  <2>3. CASE j = Len(s) + 1  BY <1>1, <1>2, <2>1, <2>3
  <2> QED  BY <1>1, <2>2, <2>3
<1> QED  BY <1>3 DEF Ascending

\* Removing the element that holds an id removes the id and nothing else.
LEMMA UnlinkFacts ==
  ASSUME NEW S, S \subseteq Nat, NEW s \in Seq(S), Ascending(s), NEW id \in Range(s)
  PROVE  /\ Unlink(s, id) \in Seq(S) /\ Len(Unlink(s, id)) = Len(s) - 1
         /\ Range(Unlink(s, id)) = Range(s) \ {id}
         /\ Ascending(Unlink(s, id))
<1> DEFINE at == CHOOSE i \in DOMAIN s : s[i] = id
           t == Unlink(s, id)
<1>1. /\ DOMAIN s = 1..Len(s) /\ Len(s) \in Nat /\ \A i \in DOMAIN s : s[i] \in S /\ s[i] \in Nat
  <2>1. DOMAIN s = 1..Len(s) /\ Len(s) \in Nat /\ \A i \in 1..Len(s) : s[i] \in S
    OBVIOUS
  <2> QED  BY <2>1
<1>2. at \in 1..Len(s) /\ s[at] = id  BY <1>1 DEF Range
<1>3. t = [i \in 1..(Len(s) - 1) |-> IF i < at THEN s[i] ELSE s[i + 1]]  BY DEF Unlink
<1>4. IsInjective(s)
  <2>1. s \in Seq(Nat)  BY SeqMonotonic
  <2> QED  BY <2>1, AscendingInjective
<1> HIDE DEF at, t
<1>5. Len(s) - 1 \in Nat /\ \A i \in 1..(Len(s) - 1) : i \in DOMAIN s /\ i + 1 \in DOMAIN s
  BY <1>1, <1>2
<1>6. \A i \in 1..(Len(s) - 1) : t[i] = IF i < at THEN s[i] ELSE s[i + 1]  BY <1>3
<1>7. t \in Seq(S) /\ Len(t) = Len(s) - 1 /\ DOMAIN t = 1..(Len(s) - 1)
  <2>1. \A i \in 1..(Len(s) - 1) : t[i] \in S  BY <1>1, <1>5, <1>6
  <2>2. t \in [1..(Len(s) - 1) -> S]  BY <1>3, <2>1
  <2> QED  BY <1>5, <2>2
<1>8. ASSUME NEW x \in Range(t) PROVE x \in Range(s) \ {id}
  <2>1. PICK i \in 1..(Len(s) - 1) : x = t[i]  BY <1>7, <1>8 DEF Range
  <2>2. CASE i < at
    <3>1. x = s[i] /\ i \in DOMAIN s /\ i # at  BY <1>2, <1>5, <1>6, <2>1, <2>2
    <3> QED  BY <1>1, <1>2, <1>4, <3>1 DEF Range, IsInjective
  <2>3. CASE ~(i < at)
    <3>1. x = s[i + 1] /\ i + 1 \in DOMAIN s /\ i + 1 # at
      BY <1>2, <1>5, <1>6, <2>1, <2>3
    <3> QED  BY <1>1, <1>2, <1>4, <3>1 DEF Range, IsInjective
  <2> QED  BY <2>2, <2>3
<1>9. ASSUME NEW x \in Range(s) \ {id} PROVE x \in Range(t)
  <2>1. PICK i \in 1..Len(s) : x = s[i]  BY <1>1 DEF Range
  <2>2. i # at  BY <1>2, <2>1
  <2>3. CASE i < at
    <3>1. i \in 1..(Len(s) - 1) /\ t[i] = x  BY <1>1, <1>2, <1>6, <2>1, <2>3
    <3> QED  BY <1>7, <3>1 DEF Range
  <2>4. CASE i > at
    <3>1. i - 1 \in 1..(Len(s) - 1) /\ ~(i - 1 < at) /\ (i - 1) + 1 = i
      BY <1>1, <1>2, <2>1, <2>4
    <3>2. t[i - 1] = x  BY <1>6, <2>1, <3>1
    <3> QED  BY <1>7, <3>1, <3>2 DEF Range
  <2> QED  BY <1>1, <1>2, <2>1, <2>2, <2>3, <2>4
<1>10. Ascending(t)
  <2>1. ASSUME NEW i \in 1..(Len(s) - 1), NEW j \in 1..(Len(s) - 1), i < j
        PROVE  t[i] < t[j]
    <3>1. CASE j < at
      <4>1. i < at  BY <1>2, <2>1, <3>1
      <4>2. t[i] = s[i] /\ t[j] = s[j]  BY <1>6, <2>1, <3>1, <4>1
      <4> QED  BY <1>5, <2>1, <4>2 DEF Ascending
    <3>2. CASE ~(j < at) /\ i < at
      <4>1. t[i] = s[i] /\ t[j] = s[j + 1] /\ i < j + 1  BY <1>6, <2>1, <3>2
      <4> QED  BY <1>5, <4>1 DEF Ascending
    <3>3. CASE ~(j < at) /\ ~(i < at)
      <4>1. t[i] = s[i + 1] /\ t[j] = s[j + 1] /\ i + 1 < j + 1  BY <1>6, <2>1, <3>3
      <4> QED  BY <1>5, <4>1 DEF Ascending
    <3>4. (j < at) \/ (~(j < at) /\ i < at) \/ (~(j < at) /\ ~(i < at))  OBVIOUS
    <3> QED  BY <3>1, <3>2, <3>3, <3>4
  <2> QED  BY <1>7, <2>1 DEF Ascending
<1> QED  BY <1>7, <1>8, <1>9, <1>10 DEF t

-----------------------------------------------------------------------------
(* Insertion and eviction keep the indexes.                                *)

LEMMA ListTypes ==
  ASSUME MemTypeOK
  PROVE  /\ 1..nextID \subseteq Nat /\ order \in Seq(Nat)
         /\ \A t \in DOMAIN byToken : byToken[t] \in Seq(1..nextID) /\ byToken[t] \in Seq(Nat)
<1>1. 1..nextID \subseteq Nat /\ order \in Seq(1..nextID)
      /\ \A t \in DOMAIN byToken : byToken[t] \in Seq(1..nextID)
  BY DEF MemTypeOK
<1> QED  BY <1>1, SeqMonotonic

\* What EvictOne leaves of each index.
LEMMA EvictFacts ==
  ASSUME IndexInv, NEW id \in DOMAIN interactions, EvictOne(id)
  PROVE  /\ DOMAIN interactions' = DOMAIN interactions \ {id}
         /\ \A x \in DOMAIN interactions' : interactions'[x] = interactions[x]
         /\ interactions' \in [DOMAIN interactions' -> Interaction]
         /\ order' \in Seq(1..nextID) /\ Len(order') = Len(order) - 1
         /\ byToken' \in [DOMAIN byToken' -> Seq(1..nextID)]
         /\ DOMAIN byToken' \subseteq DOMAIN byToken
         /\ \A u \in DOMAIN byToken' :
              Len(byToken'[u]) = IF u = interactions[id].token THEN Len(byToken[u]) - 1
                                 ELSE Len(byToken[u])
         /\ IndexesAgree'
<1> DEFINE t == interactions[id].token
           rest == Unlink(byToken[t], id)
<1>1. /\ MemTypeOK /\ 1..nextID \subseteq Nat
      /\ interactions \in [DOMAIN interactions -> Interaction]
      /\ order \in Seq(1..nextID)
      /\ \A u \in DOMAIN byToken : byToken[u] \in Seq(1..nextID)
  BY ListTypes DEF IndexInv, MemTypeOK
<1>2. /\ id \in idToElem /\ id \in idToTokenElem /\ id \in Range(order)
      /\ t \in DOMAIN byToken /\ id \in Range(byToken[t])
      /\ Ascending(order) /\ Ascending(byToken[t])
  BY DEF IndexInv, IndexesAgree
<1>3. /\ interactions' = Drop(interactions, id) /\ order' = Unlink(order, id)
      /\ byToken' = IF rest = <<>> THEN Drop(byToken, t) ELSE Put(byToken, t, rest)
      /\ idToElem' = idToElem \ {id} /\ idToTokenElem' = idToTokenElem \ {id}
  BY <1>2 DEF EvictOne, ByTokenWithout
<1>4. /\ DOMAIN interactions' = DOMAIN interactions \ {id}
      /\ \A x \in DOMAIN interactions' : interactions'[x] = interactions[x]
  BY <1>3 DEF Drop, Restrict
<1>5. /\ order' \in Seq(1..nextID) /\ Len(order') = Len(order) - 1
      /\ Range(order') = Range(order) \ {id} /\ Ascending(order')
  BY <1>1, <1>2, <1>3, UnlinkFacts
<1>6. /\ rest \in Seq(1..nextID) /\ Len(rest) = Len(byToken[t]) - 1
      /\ Range(rest) = Range(byToken[t]) \ {id} /\ Ascending(rest)
  BY <1>1, <1>2, UnlinkFacts
<1> HIDE DEF rest
<1>7. /\ DOMAIN byToken' = IF rest = <<>> THEN DOMAIN byToken \ {t} ELSE DOMAIN byToken
      /\ \A u \in DOMAIN byToken' : byToken'[u] = IF u = t THEN rest ELSE byToken[u]
  BY <1>2, <1>3 DEF Drop, Restrict, Put
<1>8. byToken' \in [DOMAIN byToken' -> Seq(1..nextID)]
  <2>1. \A u \in DOMAIN byToken' : byToken'[u] \in Seq(1..nextID)  BY <1>1, <1>6, <1>7
  <2>2. byToken' = [u \in DOMAIN byToken' |-> byToken'[u]]
    BY <1>3 DEF Drop, Restrict, Put
  <2> QED  BY <2>1, <2>2
<1>9. interactions' \in [DOMAIN interactions' -> Interaction]
  <2>1. interactions' = [x \in DOMAIN interactions' |-> interactions'[x]]
    BY <1>3 DEF Drop, Restrict
  <2>2. \A x \in DOMAIN interactions' : interactions'[x] \in Interaction  BY <1>1, <1>4
  <2> QED  BY <2>1, <2>2
<1>10. \A x : x \in Range(rest) <=> x \in DOMAIN interactions' /\ interactions'[x].token = t
  BY <1>2, <1>4, <1>6 DEF IndexInv, IndexesAgree
<1>11. rest = <<>> <=> Range(rest) = {}
  BY <1>6, EmptySeqFacts DEF Range
<1>12. IndexesAgree'
  <2>1. Range(order') = DOMAIN interactions' /\ Ascending(order')
    BY <1>4, <1>5 DEF IndexInv, IndexesAgree
  <2>2. idToElem' = DOMAIN interactions' /\ idToTokenElem' = DOMAIN interactions'
    BY <1>3, <1>4 DEF IndexInv, IndexesAgree
  <2>3. DOMAIN byToken' = {interactions'[x].token : x \in DOMAIN interactions'}
    <3>1. \A u : u \in DOMAIN byToken <=> \E x \in DOMAIN interactions : interactions[x].token = u
      BY DEF IndexInv, IndexesAgree
    <3>2. \A u : u # t => (u \in DOMAIN byToken' <=>
                             \E x \in DOMAIN interactions' : interactions'[x].token = u)
      BY <1>4, <1>7, <3>1
    <3>3. t \in DOMAIN byToken' <=> \E x \in DOMAIN interactions' : interactions'[x].token = t
      BY <1>2, <1>7, <1>10, <1>11
    <3> QED  BY <3>2, <3>3
  <2>4. ASSUME NEW u \in DOMAIN byToken'
        PROVE  /\ Range(byToken'[u]) = {x \in DOMAIN interactions' : interactions'[x].token = u}
               /\ Ascending(byToken'[u])
    <3>1. CASE u = t  BY <1>6, <1>7, <1>10, <2>4, <3>1
    <3>2. CASE u # t
      <4>1. u \in DOMAIN byToken /\ byToken'[u] = byToken[u]  BY <1>7, <2>4, <3>2
      <4>2. /\ Range(byToken[u]) = {x \in DOMAIN interactions : interactions[x].token = u}
            /\ Ascending(byToken[u])
        BY <4>1 DEF IndexInv, IndexesAgree
      <4>3. id \notin {x \in DOMAIN interactions : interactions[x].token = u}  BY <3>2
      <4> QED  BY <1>4, <4>1, <4>2, <4>3
    <3> QED  BY <3>1, <3>2
  <2> QED  BY <2>1, <2>2, <2>3, <2>4 DEF IndexesAgree
<1> QED  BY <1>4, <1>5, <1>6, <1>7, <1>8, <1>9, <1>12

\* What InsertOne adds to each index.
LEMMA InsertFacts ==
  ASSUME IndexInv, nextID' = nextID + 1, NEW t \in Tokens, InsertOne(nextID', t)
  PROVE  /\ DOMAIN interactions' = DOMAIN interactions \cup {nextID'}
         /\ interactions'[nextID'] = [token |-> t, at |-> now]
         /\ \A x \in DOMAIN interactions : interactions'[x] = interactions[x]
         /\ interactions' \in [DOMAIN interactions' -> Interaction]
         /\ order' \in Seq(1..nextID') /\ Len(order') = Len(order) + 1
         /\ byToken' \in [DOMAIN byToken' -> Seq(1..nextID')]
         /\ DOMAIN byToken' = DOMAIN byToken \cup {t}
         /\ \A u \in DOMAIN byToken' \ {t} : byToken'[u] = byToken[u]
         /\ Len(byToken'[t]) = IF t \in DOMAIN byToken THEN Len(byToken[t]) + 1 ELSE 1
         /\ IndexesAgree'
<1> DEFINE n == nextID'
           l == Append(ListOf(t), n)
<1>1. /\ MemTypeOK /\ 1..nextID \subseteq Nat /\ nextID \in Nat /\ n \in Nat
      /\ interactions \in [DOMAIN interactions -> Interaction]
      /\ DOMAIN interactions \subseteq 1..nextID
      /\ order \in Seq(1..nextID) /\ now \in 0..MaxTime
      /\ \A u \in DOMAIN byToken : byToken[u] \in Seq(1..nextID)
  BY ListTypes DEF IndexInv, MemTypeOK
<1>2. /\ interactions' = Put(interactions, n, [token |-> t, at |-> now])
      /\ order' = Append(order, n) /\ idToElem' = idToElem \cup {n}
      /\ byToken' = Put(byToken, t, l) /\ idToTokenElem' = idToTokenElem \cup {n}
  BY DEF InsertOne
<1>3. n \notin DOMAIN interactions  BY <1>1
<1>4. /\ DOMAIN interactions' = DOMAIN interactions \cup {n}
      /\ interactions'[n] = [token |-> t, at |-> now]
      /\ \A x \in DOMAIN interactions : interactions'[x] = interactions[x]
  BY <1>2, <1>3 DEF Put
<1>5. 1..nextID \subseteq 1..n /\ 1..n \subseteq Nat /\ n \in 1..n  BY <1>1
<1>6. /\ order \in Seq(1..n) /\ \A u \in DOMAIN byToken : byToken[u] \in Seq(1..n)
  BY <1>1, <1>5, SeqMonotonic
<1>7. ASSUME NEW s \in Seq(1..n), Ascending(s), Range(s) \subseteq DOMAIN interactions
      PROVE  /\ Append(s, n) \in Seq(1..n) /\ Len(Append(s, n)) = Len(s) + 1
             /\ Range(Append(s, n)) = Range(s) \cup {n} /\ Ascending(Append(s, n))
  <2>1. s \in Seq(Nat)  BY <1>5, SeqMonotonic
  <2>2. \A x \in Range(s) : x < n  BY <1>1, <1>7
  <2>3. Append(s, n) \in Seq(1..n) /\ Len(Append(s, n)) = Len(s) + 1  BY <1>5
  <2>4. Range(Append(s, n)) = Range(s) \cup {n}  BY <1>5, RangeAppend
  <2>5. Ascending(Append(s, n))  BY <1>1, <2>1, <2>2, <1>7, AscendingAppend
  <2> QED  BY <2>3, <2>4, <2>5
<1>8. /\ order' \in Seq(1..n) /\ Len(order') = Len(order) + 1
      /\ Range(order') = Range(order) \cup {n} /\ Ascending(order')
  BY <1>2, <1>6, <1>7 DEF IndexInv, IndexesAgree
<1>9. /\ ListOf(t) \in Seq(1..n) /\ Ascending(ListOf(t)) /\ Range(ListOf(t)) = Ids(t)
  <2>1. CASE t \in DOMAIN byToken
    BY <1>6, <2>1 DEF ListOf, Ids, IndexInv, IndexesAgree
  <2>2. CASE t \notin DOMAIN byToken
    <3>1. Ids(t) = {}  BY <2>2 DEF Ids, IndexInv, IndexesAgree
    <3>2. <<>> \in Seq(1..n) /\ Ascending(<<>>)  BY DEF Ascending
    <3> QED  BY <2>2, <3>1, <3>2, EmptySeqFacts DEF ListOf
  <2> QED  BY <2>1, <2>2
<1>10. /\ l \in Seq(1..n) /\ Len(l) = Len(ListOf(t)) + 1
       /\ Range(l) = Ids(t) \cup {n} /\ Ascending(l)
  BY <1>7, <1>9 DEF Ids
<1>11. Len(l) = IF t \in DOMAIN byToken THEN Len(byToken[t]) + 1 ELSE 1
  BY <1>10 DEF ListOf
<1> HIDE DEF l
<1>12. /\ DOMAIN byToken' = DOMAIN byToken \cup {t} /\ byToken'[t] = l
       /\ \A u \in DOMAIN byToken' \ {t} : u \in DOMAIN byToken /\ byToken'[u] = byToken[u]
  BY <1>2 DEF Put
<1>13. byToken' \in [DOMAIN byToken' -> Seq(1..n)]
  <2>1. \A u \in DOMAIN byToken' : byToken'[u] \in Seq(1..n)  BY <1>6, <1>10, <1>12
  <2>2. byToken' = [u \in DOMAIN byToken' |-> byToken'[u]]  BY <1>2 DEF Put
  <2> QED  BY <2>1, <2>2
<1>14. interactions' \in [DOMAIN interactions' -> Interaction]
  <2>1. interactions' = [x \in DOMAIN interactions' |-> interactions'[x]]
    BY <1>2 DEF Put
  <2>2. \A x \in DOMAIN interactions' : interactions'[x] \in Interaction
    BY <1>1, <1>4 DEF Interaction
  <2> QED  BY <2>1, <2>2
<1>15. IndexesAgree'
  <2>1. Range(order') = DOMAIN interactions' /\ Ascending(order')
    BY <1>4, <1>8 DEF IndexInv, IndexesAgree
  <2>2. idToElem' = DOMAIN interactions' /\ idToTokenElem' = DOMAIN interactions'
    BY <1>2, <1>4 DEF IndexInv, IndexesAgree
  <2>3. DOMAIN byToken' = {interactions'[x].token : x \in DOMAIN interactions'}
    <3>1. \A u : u \in DOMAIN byToken <=> \E x \in DOMAIN interactions : interactions[x].token = u
      BY DEF IndexInv, IndexesAgree
    <3>2. \A u : u \in DOMAIN byToken' <=>
                   \E x \in DOMAIN interactions' : interactions'[x].token = u
      BY <1>4, <1>12, <3>1
    <3> QED  BY <3>2
  <2>4. ASSUME NEW u \in DOMAIN byToken'
        PROVE  /\ Range(byToken'[u]) = {x \in DOMAIN interactions' : interactions'[x].token = u}
               /\ Ascending(byToken'[u])
    <3>1. CASE u = t
      <4>1. \A x : x \in Range(l) <=> x \in DOMAIN interactions' /\ interactions'[x].token = t
        BY <1>3, <1>4, <1>10 DEF Ids
      <4> QED  BY <1>10, <1>12, <3>1, <4>1
    <3>2. CASE u # t
      <4>1. u \in DOMAIN byToken /\ byToken'[u] = byToken[u]  BY <1>12, <2>4, <3>2
      <4>2. /\ Range(byToken[u]) = {x \in DOMAIN interactions : interactions[x].token = u}
            /\ Ascending(byToken[u])
        BY <4>1 DEF IndexInv, IndexesAgree
      <4> QED  BY <1>3, <1>4, <3>2, <4>1, <4>2
    <3> QED  BY <3>1, <3>2
  <2> QED  BY <2>1, <2>2, <2>3, <2>4 DEF IndexesAgree
<1> QED  BY <1>4, <1>8, <1>11, <1>12, <1>13, <1>14, <1>15

-----------------------------------------------------------------------------
(* The inductive invariant, one step per action.                           *)

\* The variables an eviction or an insertion does not touch.
RestTypeOK ==
  /\ lock \in {"free", "insert", "cap", "trim", "sweep"}
  /\ todo \in Seq(Tokens)
  /\ cutoff \in 0..MaxTime \cup {None}
  /\ now \in 0..MaxTime /\ stepped \in BOOLEAN
  /\ lock \in {"insert", "cap"} => todo # <<>>

\* While a batch is added one list may be one too long, and it is the list that
\* is looked at next; the store as a whole may be over its cap until it is
\* trimmed.
CapInv ==
  /\ lock = "cap" =>
       Head(todo) \in DOMAIN byToken /\ Len(byToken[Head(todo)]) <= MaxPerToken + 1
  /\ \A t \in DOMAIN byToken :
       (lock = "cap" /\ t = Head(todo)) \/ Len(byToken[t]) <= MaxPerToken
  /\ lock \in {"free", "sweep"} => Len(order) <= MaxInteractions

\* While the clock was not set back, later ids carry later stamps.
StampInv ==
  ~stepped =>
    /\ \A id \in DOMAIN interactions : interactions[id].at <= now
    /\ \A a, b \in DOMAIN interactions : a < b => interactions[a].at <= interactions[b].at

MemInv == IndexInv /\ CapInv /\ StampInv

LEMMA MemInitInv == MemInit => MemInv
<1> SUFFICES ASSUME MemInit PROVE MemInv  OBVIOUS
<1>1. DOMAIN interactions = {} /\ DOMAIN byToken = {} /\ order = <<>> /\ todo = <<>>
      /\ byToken = <<>> /\ interactions = <<>>
  BY DEF MemInit
<1>2. Range(order) = {} /\ Ascending(order)  BY <1>1, EmptySeqFacts DEF Ascending
<1>3. MemTypeOK
  <2>1. interactions \in [DOMAIN interactions -> Interaction]  BY <1>1
  <2>2. byToken \in [DOMAIN byToken -> Seq(1..nextID)]  BY <1>1
  <2>3. order \in Seq(1..nextID) /\ todo \in Seq(Tokens)  BY <1>1
  <2>4. nextID \in Nat /\ idToElem \subseteq 1..nextID /\ idToTokenElem \subseteq 1..nextID
    BY DEF MemInit
  <2>5. now \in 0..MaxTime  BY MemoryBoundAssumption DEF MemInit
  <2>6. /\ DOMAIN byToken \subseteq Tokens /\ lock = "free" /\ stepped \in BOOLEAN
        /\ cutoff \in 0..MaxTime \cup {None}
    BY <1>1 DEF MemInit
  <2> QED  BY <2>1, <2>2, <2>3, <2>4, <2>5, <2>6 DEF MemTypeOK
<1>4. IndexesAgree  BY <1>1, <1>2 DEF MemInit, IndexesAgree
<1>5. CapInv  BY <1>1, CapAssumption DEF MemInit, CapInv
<1>6. StampInv  BY <1>1 DEF StampInv
<1> QED  BY <1>1, <1>3, <1>4, <1>5, <1>6 DEF MemInit, MemInv, IndexInv

\* An eviction keeps the indexes and the order of the stamps, and lengthens no
\* list.
LEMMA EvictStep ==
  ASSUME IndexInv, StampInv, NEW id \in DOMAIN interactions, EvictOne(id),
         nextID' = nextID, RestTypeOK', UNCHANGED clockVars
  PROVE  /\ IndexInv' /\ StampInv'
         /\ Len(order') = Len(order) - 1
         /\ \A u \in DOMAIN byToken' :
              /\ u \in DOMAIN byToken
              /\ Len(byToken'[u]) = IF u = interactions[id].token THEN Len(byToken[u]) - 1
                                    ELSE Len(byToken[u])
<1>1. /\ DOMAIN interactions' = DOMAIN interactions \ {id}
      /\ \A x \in DOMAIN interactions' : interactions'[x] = interactions[x]
      /\ interactions' \in [DOMAIN interactions' -> Interaction]
      /\ order' \in Seq(1..nextID) /\ Len(order') = Len(order) - 1
      /\ byToken' \in [DOMAIN byToken' -> Seq(1..nextID)]
      /\ DOMAIN byToken' \subseteq DOMAIN byToken
      /\ \A u \in DOMAIN byToken' :
           Len(byToken'[u]) = IF u = interactions[id].token THEN Len(byToken[u]) - 1
                              ELSE Len(byToken[u])
      /\ IndexesAgree'
  BY EvictFacts
<1>2. idToElem' \subseteq 1..nextID /\ idToTokenElem' \subseteq 1..nextID
  BY <1>1 DEF IndexInv, IndexesAgree
<1>3. MemTypeOK'
  BY <1>1, <1>2 DEF IndexInv, MemTypeOK, RestTypeOK
<1>4. IndexInv'  BY <1>1, <1>3 DEF IndexInv, RestTypeOK
<1>5. StampInv'  BY <1>1 DEF StampInv, clockVars
<1> QED  BY <1>1, <1>4, <1>5

\* A step that leaves the indexes and the clock alone.
LEMMA QuietStep ==
  ASSUME IndexInv, StampInv, UNCHANGED <<nextID, indexVars, clockVars>>, RestTypeOK'
  PROVE  IndexInv' /\ StampInv'
BY DEF IndexInv, StampInv, MemTypeOK, RestTypeOK, IndexesAgree, indexVars, clockVars

LEMMA HeadsAreStored ==
  ASSUME MemInv
  PROVE  /\ RestTypeOK
         /\ order # <<>> => Head(order) \in DOMAIN interactions
         /\ \A t \in DOMAIN byToken : byToken[t] # <<>> =>
              /\ Head(byToken[t]) \in DOMAIN interactions
              /\ interactions[Head(byToken[t])].token = t
         /\ Len(order) \in Nat /\ \A t \in DOMAIN byToken : Len(byToken[t]) \in Nat
<1>1. /\ order \in Seq(Nat) /\ \A t \in DOMAIN byToken : byToken[t] \in Seq(Nat)
  BY ListTypes DEF MemInv, IndexInv
<1>2. ASSUME NEW s \in Seq(Nat), s # <<>> PROVE Head(s) \in Range(s)
  <2>1. 1 \in DOMAIN s /\ Head(s) = s[1]  BY <1>2
  <2> QED  BY <2>1 DEF Range
<1>3. RestTypeOK  BY DEF MemInv, IndexInv, MemTypeOK, RestTypeOK
<1>4. order # <<>> => Head(order) \in DOMAIN interactions
  BY <1>1, <1>2 DEF MemInv, IndexInv, IndexesAgree
<1>5. ASSUME NEW t \in DOMAIN byToken, byToken[t] # <<>>
      PROVE  Head(byToken[t]) \in DOMAIN interactions
             /\ interactions[Head(byToken[t])].token = t
  <2>1. Head(byToken[t]) \in Range(byToken[t])  BY <1>1, <1>2, <1>5
  <2> QED  BY <2>1 DEF MemInv, IndexInv, IndexesAgree
<1>6. Len(order) \in Nat /\ \A t \in DOMAIN byToken : Len(byToken[t]) \in Nat
  BY <1>1
<1> QED  BY <1>3, <1>4, <1>5, <1>6

\* The lists are as long as there are ids in them, and begin with the oldest.
LEMMA ListFacts ==
  ASSUME MemInv
  PROVE  /\ IsFiniteSet(DOMAIN interactions) /\ DOMAIN interactions \subseteq 1..nextID
         /\ nextID \in Nat /\ 1..nextID \subseteq Nat
         /\ Cardinality(DOMAIN interactions) = Len(order)
         /\ order # <<>> => \A x \in DOMAIN interactions : Head(order) <= x
         /\ \A t : IsFiniteSet(Ids(t)) /\ Cardinality(Ids(t)) \in Nat
         /\ \A t \in DOMAIN byToken :
              /\ Cardinality(Ids(t)) = Len(byToken[t])
              /\ byToken[t] # <<>> => \A x \in Ids(t) : Head(byToken[t]) <= x
         /\ \A t : t \notin DOMAIN byToken => Cardinality(Ids(t)) = 0
<1>1. /\ order \in Seq(Nat) /\ \A t \in DOMAIN byToken : byToken[t] \in Seq(Nat)
      /\ 1..nextID \subseteq Nat
  BY ListTypes DEF MemInv, IndexInv
<1>2. ASSUME NEW s \in Seq(Nat), Ascending(s)
      PROVE  /\ IsFiniteSet(Range(s)) /\ Cardinality(Range(s)) = Len(s)
             /\ s # <<>> => \A x \in Range(s) : Head(s) <= x
  <2>1. IsFiniteSet(Range(s)) /\ Cardinality(Range(s)) = Len(s)
    BY <1>2, AscendingInjective, CardinalityOfRange
  <2>2. ASSUME s # <<>>, NEW x \in Range(s) PROVE Head(s) <= x
    <3>1. PICK i \in DOMAIN s : s[i] = x  BY <2>2 DEF Range
    <3>2. 1 \in DOMAIN s /\ Head(s) = s[1] /\ DOMAIN s = 1..Len(s) /\ \A j \in DOMAIN s : s[j] \in Nat
      BY <2>2
    <3>3. i = 1 \/ 1 < i  BY <3>1, <3>2
    <3> QED  BY <1>2, <3>1, <3>2, <3>3 DEF Ascending
  <2> QED  BY <2>1, <2>2
<1>3. /\ IsFiniteSet(DOMAIN interactions) /\ Cardinality(DOMAIN interactions) = Len(order)
      /\ order # <<>> => \A x \in DOMAIN interactions : Head(order) <= x
  BY <1>1, <1>2 DEF MemInv, IndexInv, IndexesAgree
<1>4. \A t : IsFiniteSet(Ids(t)) /\ Cardinality(Ids(t)) \in Nat
  BY <1>3, FS_Subset, FS_CardinalityType DEF Ids
<1>5. ASSUME NEW t \in DOMAIN byToken
      PROVE  /\ Cardinality(Ids(t)) = Len(byToken[t])
             /\ byToken[t] # <<>> => \A x \in Ids(t) : Head(byToken[t]) <= x
  <2>1. Range(byToken[t]) = Ids(t) /\ Ascending(byToken[t])
    BY DEF MemInv, IndexInv, IndexesAgree, Ids
  <2> QED  BY <1>1, <1>2, <2>1
<1>6. ASSUME NEW t, t \notin DOMAIN byToken PROVE Cardinality(Ids(t)) = 0
  <2>1. Ids(t) = {}  BY <1>6 DEF MemInv, IndexInv, IndexesAgree, Ids
  <2> QED  BY <2>1, FS_EmptySet
<1> QED  BY <1>1, <1>3, <1>4, <1>5, <1>6 DEF MemInv, IndexInv, MemTypeOK

LEMMA ListFactsNext ==
  MemInv' => (/\ \A t \in DOMAIN byToken : Cardinality(Ids(t)) = Len(byToken[t])
              /\ \A t : t \notin DOMAIN byToken => Cardinality(Ids(t)) = 0)'
<1>1. MemInv => /\ \A t \in DOMAIN byToken : Cardinality(Ids(t)) = Len(byToken[t])
                /\ \A t : t \notin DOMAIN byToken => Cardinality(Ids(t)) = 0
  BY ListFacts
<1> QED  BY <1>1, PTL

LEMMA MemStepInv == MemInv /\ [MemNext]_memVars => MemInv'
<1> SUFFICES ASSUME MemInv, [MemNext]_memVars PROVE MemInv'  OBVIOUS
<1> USE CapAssumption
<1>1. /\ IndexInv /\ CapInv /\ StampInv /\ RestTypeOK
      /\ order # <<>> => Head(order) \in DOMAIN interactions
      /\ \A t \in DOMAIN byToken : byToken[t] # <<>> =>
           /\ Head(byToken[t]) \in DOMAIN interactions
           /\ interactions[Head(byToken[t])].token = t
      /\ Len(order) \in Nat /\ \A t \in DOMAIN byToken : Len(byToken[t]) \in Nat
  BY HeadsAreStored DEF MemInv
<1>2. CASE AddStart
  <2>1. PICK n \in 1..MaxBatch : todo' \in [1..n -> Tokens]  BY <1>2 DEF AddStart
  <2>2. todo' \in Seq(Tokens) /\ todo' # <<>>
    <3>1. n \in Nat /\ 1 \in 1..n  OBVIOUS
    <3>2. DOMAIN todo' = 1..n /\ todo' \in Seq(Tokens)  BY <2>1, <3>1
    <3> QED  BY <3>1, <3>2, EmptySeqFacts
  <2>3. RestTypeOK'  BY <1>1, <1>2, <2>2 DEF AddStart, RestTypeOK, clockVars
  <2>4. IndexInv' /\ StampInv'  BY <1>1, <1>2, <2>3, QuietStep DEF AddStart
  <2>5. CapInv'  BY <1>1, <1>2 DEF AddStart, CapInv, indexVars
  <2> QED  BY <2>4, <2>5 DEF MemInv
<1>3. CASE AddItem
  <2> DEFINE t == Head(todo)
  <2>1. t \in Tokens  BY <1>1, <1>3 DEF AddItem, RestTypeOK
  <2>2. /\ DOMAIN interactions' = DOMAIN interactions \cup {nextID'}
        /\ interactions'[nextID'] = [token |-> t, at |-> now]
        /\ \A x \in DOMAIN interactions : interactions'[x] = interactions[x]
        /\ interactions' \in [DOMAIN interactions' -> Interaction]
        /\ order' \in Seq(1..nextID')
        /\ byToken' \in [DOMAIN byToken' -> Seq(1..nextID')]
        /\ DOMAIN byToken' = DOMAIN byToken \cup {t}
        /\ \A u \in DOMAIN byToken' \ {t} : byToken'[u] = byToken[u]
        /\ Len(byToken'[t]) = IF t \in DOMAIN byToken THEN Len(byToken[t]) + 1 ELSE 1
        /\ IndexesAgree'
    BY <1>1, <1>3, <2>1, InsertFacts DEF AddItem
  <2>3. RestTypeOK' /\ todo' = todo /\ todo # <<>> /\ now' = now /\ stepped' = stepped
        /\ lock = "insert" /\ lock' = "cap" /\ nextID' = nextID + 1
    BY <1>1, <1>3 DEF AddItem, RestTypeOK, clockVars
  <2>4. nextID \in Nat /\ DOMAIN interactions \subseteq 1..nextID /\ DOMAIN byToken \subseteq Tokens
        /\ now \in 0..MaxTime
    BY <1>1 DEF IndexInv, MemTypeOK
  <2>5. nextID' \in Nat /\ DOMAIN interactions' \subseteq 1..nextID'  BY <2>2, <2>3, <2>4
  <2>6. idToElem' \subseteq 1..nextID' /\ idToTokenElem' \subseteq 1..nextID'
    BY <2>2, <2>5 DEF IndexesAgree
  <2>7. DOMAIN byToken' \subseteq Tokens  BY <2>1, <2>2, <2>4
  <2>8. MemTypeOK'  BY <2>2, <2>3, <2>5, <2>6, <2>7 DEF MemTypeOK, RestTypeOK
  <2>9. IndexInv'  BY <2>2, <2>3, <2>5, <2>8 DEF IndexInv
  <2>10. StampInv'
    <3> SUFFICES ASSUME ~stepped PROVE StampInv'  BY <2>3 DEF StampInv
    <3>1. \A id \in DOMAIN interactions : interactions[id].at <= now
      BY <1>1 DEF StampInv
    <3>2. \A id \in DOMAIN interactions : interactions[id].at \in 0..MaxTime
      BY <1>1 DEF IndexInv, MemTypeOK, Interaction
    <3>3. interactions'[nextID'].at = now  BY <2>2
    <3>4. \A id \in DOMAIN interactions' : interactions'[id].at <= now
      BY <2>2, <2>4, <3>1, <3>3
    <3>5. ASSUME NEW a \in DOMAIN interactions', NEW b \in DOMAIN interactions', a < b
          PROVE  interactions'[a].at <= interactions'[b].at
      <4>1. a # nextID'  BY <2>5, <3>5
      <4>2. a \in DOMAIN interactions  BY <2>2, <4>1
      <4>3. CASE b = nextID'  BY <2>2, <3>1, <3>3, <4>2, <4>3
      <4>4. CASE b # nextID'
        <5>1. b \in DOMAIN interactions  BY <2>2, <4>4
        <5> QED  BY <1>1, <2>2, <3>5, <4>2, <5>1 DEF StampInv
      <4> QED  BY <4>3, <4>4
    <3> QED  BY <2>3, <3>4, <3>5 DEF StampInv
  <2>11. CapInv'
    <3>1. \A u \in DOMAIN byToken : Len(byToken[u]) <= MaxPerToken
      BY <1>1, <2>3 DEF CapInv
    <3>2. Len(byToken'[t]) <= MaxPerToken + 1  BY <1>1, <2>2, <3>1
    <3>3. \A u \in DOMAIN byToken' : u = t \/ Len(byToken'[u]) <= MaxPerToken
      BY <2>2, <3>1
    <3> QED  BY <2>2, <2>3, <3>2, <3>3 DEF CapInv
  <2> QED  BY <2>9, <2>10, <2>11 DEF MemInv
<1>4. ASSUME lock = "cap", NextItem
      PROVE  /\ RestTypeOK /\ nextID' = nextID /\ now' = now /\ stepped' = stepped
             /\ lock' \in {"insert", "trim"} /\ RestTypeOK'
  <2>1. Tail(todo) \in Seq(Tokens)  BY <1>1, <1>4 DEF RestTypeOK
  <2> QED  BY <1>1, <1>4, <2>1 DEF NextItem, RestTypeOK, clockVars
<1>5. CASE CapEvict
  <2> DEFINE t == Head(todo)
             id == Head(byToken[t])
  <2>1. t \in DOMAIN byToken /\ Len(byToken[t]) <= MaxPerToken + 1 /\ lock = "cap" /\ NextItem
    BY <1>1, <1>5 DEF CapEvict, CapInv
  <2>2. Len(byToken[t]) > MaxPerToken /\ EvictOne(id)
    BY <1>5, <2>1 DEF CapEvict, ListOf
  <2>3. byToken[t] # <<>>
    <3>1. Len(<<>>) = 0  OBVIOUS
    <3> QED  BY <1>1, <2>1, <2>2, <3>1
  <2>4. id \in DOMAIN interactions /\ interactions[id].token = t  BY <1>1, <2>1, <2>3
  <2> HIDE DEF t, id
  <2>5. /\ IndexInv' /\ StampInv'
        /\ \A u \in DOMAIN byToken' :
             /\ u \in DOMAIN byToken
             /\ Len(byToken'[u]) = IF u = t THEN Len(byToken[u]) - 1 ELSE Len(byToken[u])
    BY <1>1, <1>4, <2>1, <2>2, <2>4, EvictStep DEF clockVars
  <2>6. \A u \in DOMAIN byToken : u = t \/ Len(byToken[u]) <= MaxPerToken
    BY <1>1 DEF CapInv, t
  <2>7. \A u \in DOMAIN byToken' : Len(byToken'[u]) <= MaxPerToken
    BY <1>1, <2>1, <2>5, <2>6
  <2>8. CapInv'  BY <1>4, <2>1, <2>7 DEF CapInv
  <2> QED  BY <2>5, <2>8 DEF MemInv
<1>6. CASE CapKept
  <2>1. lock = "cap" /\ NextItem /\ UNCHANGED indexVars  BY <1>6 DEF CapKept
  <2>2. IndexInv' /\ StampInv'  BY <1>1, <1>4, <2>1, QuietStep DEF clockVars
  <2>3. \A u \in DOMAIN byToken : Len(byToken[u]) <= MaxPerToken
    BY <1>1, <1>6 DEF CapKept, CapInv, ListOf
  <2>4. CapInv'  BY <1>4, <2>1, <2>3 DEF CapInv, indexVars
  <2> QED  BY <2>2, <2>4 DEF MemInv
<1>7. ASSUME order # <<>>, EvictOne(Head(order)), lock \in {"trim", "sweep"},
             UNCHANGED <<nextID, lockVars, clockVars>>
      PROVE  MemInv'
  <2>1. Head(order) \in DOMAIN interactions  BY <1>1, <1>7
  <2>2. RestTypeOK' /\ nextID' = nextID /\ UNCHANGED clockVars /\ lock' = lock
    BY <1>1, <1>7 DEF RestTypeOK, lockVars, clockVars
  <2>3. /\ IndexInv' /\ StampInv'
        /\ Len(order') = Len(order) - 1
        /\ \A u \in DOMAIN byToken' :
             /\ u \in DOMAIN byToken
             /\ Len(byToken'[u]) = IF u = interactions[Head(order)].token
                                   THEN Len(byToken[u]) - 1 ELSE Len(byToken[u])
    BY <1>1, <1>7, <2>1, <2>2, EvictStep
  <2>4. \A u \in DOMAIN byToken : Len(byToken[u]) <= MaxPerToken
    BY <1>1, <1>7 DEF CapInv
  <2>5. \A u \in DOMAIN byToken' : Len(byToken'[u]) <= MaxPerToken
    BY <1>1, <2>3, <2>4
  <2>6. lock = "sweep" => Len(order') <= MaxInteractions
    BY <1>1, <2>3 DEF CapInv
  <2>7. CapInv'  BY <1>7, <2>2, <2>5, <2>6 DEF CapInv
  <2> QED  BY <2>3, <2>7 DEF MemInv
<1>8. CASE TrimEvict
  <2>1. order # <<>>
    <3>1. Len(<<>>) = 0  OBVIOUS
    <3> QED  BY <1>8, <3>1 DEF TrimEvict
  <2> QED  BY <1>7, <1>8, <2>1 DEF TrimEvict
<1>9. CASE TrimDone
  <2>1. RestTypeOK'  BY <1>1, <1>9 DEF TrimDone, RestTypeOK, clockVars
  <2>2. IndexInv' /\ StampInv'  BY <1>1, <1>9, <2>1, QuietStep DEF TrimDone
  <2>3. CapInv'  BY <1>1, <1>9 DEF TrimDone, CapInv, indexVars
  <2> QED  BY <2>2, <2>3 DEF MemInv
<1>10. ASSUME NEW id \in 1..MaxId, DeleteOne(id) PROVE MemInv'
  <2>1. id \in DOMAIN interactions /\ EvictOne(id) /\ lock = "free" /\ lock' = lock
        /\ nextID' = nextID /\ UNCHANGED clockVars
    BY <1>10 DEF DeleteOne
  <2>2. RestTypeOK'  BY <1>1, <1>10 DEF DeleteOne, RestTypeOK, clockVars
  <2>3. /\ IndexInv' /\ StampInv'
        /\ Len(order') = Len(order) - 1
        /\ \A u \in DOMAIN byToken' :
             /\ u \in DOMAIN byToken
             /\ Len(byToken'[u]) = IF u = interactions[id].token
                                   THEN Len(byToken[u]) - 1 ELSE Len(byToken[u])
    BY <1>1, <2>1, <2>2, EvictStep
  <2>4. \A u \in DOMAIN byToken' : Len(byToken'[u]) <= MaxPerToken
    BY <1>1, <2>1, <2>3 DEF CapInv
  <2>5. Len(order') <= MaxInteractions  BY <1>1, <2>1, <2>3 DEF CapInv
  <2>6. CapInv'  BY <2>1, <2>4, <2>5 DEF CapInv
  <2> QED  BY <2>3, <2>6 DEF MemInv
<1>11. CASE SweepTick
  <2>1. cutoff' \in 0..MaxTime
    BY <1>1, <1>11, RetentionAssumption, MemoryBoundAssumption DEF SweepTick, RestTypeOK
  <2>2. RestTypeOK'  BY <1>1, <1>11, <2>1 DEF SweepTick, RestTypeOK, clockVars
  <2>3. IndexInv' /\ StampInv'  BY <1>1, <1>11, <2>2, QuietStep DEF SweepTick
  <2>4. CapInv'  BY <1>1, <1>11 DEF SweepTick, CapInv, indexVars
  <2> QED  BY <2>3, <2>4 DEF MemInv
<1>12. CASE SweepStart
  <2>1. RestTypeOK'  BY <1>1, <1>12 DEF SweepStart, RestTypeOK, clockVars
  <2>2. IndexInv' /\ StampInv'  BY <1>1, <1>12, <2>1, QuietStep DEF SweepStart
  <2>3. CapInv'  BY <1>1, <1>12 DEF SweepStart, CapInv, indexVars
  <2> QED  BY <2>2, <2>3 DEF MemInv
<1>13. CASE SweepEvict
  BY <1>7, <1>13 DEF SweepEvict, FrontGoes
<1>14. CASE SweepDone
  <2>1. RestTypeOK'  BY <1>1, <1>14 DEF SweepDone, RestTypeOK, clockVars
  <2>2. IndexInv' /\ StampInv'  BY <1>1, <1>14, <2>1, QuietStep DEF SweepDone
  <2>3. CapInv'  BY <1>1, <1>14 DEF SweepDone, CapInv, indexVars
  <2> QED  BY <2>2, <2>3 DEF MemInv
<1>15. CASE ClockTicks \/ ClockSetBack
  <2>1. /\ UNCHANGED <<nextID, indexVars, lockVars>>
        /\ now' \in 0..MaxTime /\ now' \in Int
        /\ stepped' \/ (stepped' = stepped /\ now' = now + 1)
        /\ stepped' \in BOOLEAN
    <3>1. now \in 0..MaxTime /\ stepped \in BOOLEAN  BY <1>1 DEF RestTypeOK
    <3>2. CASE ClockTicks
      <4>1. now' = now + 1 /\ now < MaxTime /\ stepped' = stepped
            /\ UNCHANGED <<nextID, indexVars, lockVars>>
        BY <3>2 DEF ClockTicks
      <4>2. now' \in 0..MaxTime /\ now' \in Int  BY <3>1, <4>1, MemoryBoundAssumption
      <4> QED  BY <3>1, <4>1, <4>2
    <3>3. CASE ClockSetBack
      <4>1. now' = now - 1 /\ now > 0 /\ stepped' = TRUE
            /\ UNCHANGED <<nextID, indexVars, lockVars>>
        BY <3>3 DEF ClockSetBack
      <4>2. now' \in 0..MaxTime /\ now' \in Int  BY <3>1, <4>1, MemoryBoundAssumption
      <4> QED  BY <4>1, <4>2
    <3> QED  BY <1>15, <3>2, <3>3
  <2>2. RestTypeOK'  BY <1>1, <2>1 DEF RestTypeOK, lockVars
  <2>3. IndexInv'
    <3>1. MemTypeOK'  BY <1>1, <2>1, <2>2 DEF IndexInv, MemTypeOK, RestTypeOK, indexVars
    <3>2. IndexesAgree'  BY <1>1, <2>1 DEF IndexInv, IndexesAgree, indexVars
    <3> QED  BY <1>1, <2>1, <2>2, <3>1, <3>2 DEF IndexInv, RestTypeOK, indexVars
  <2>4. StampInv'
    <3>1. \A id \in DOMAIN interactions : interactions[id].at \in Nat /\ now \in Nat
      BY <1>1, MemoryBoundAssumption DEF IndexInv, MemTypeOK, Interaction
    <3> QED  BY <1>1, <2>1, <3>1 DEF StampInv, indexVars
  <2>5. CapInv'  BY <1>1, <2>1 DEF CapInv, indexVars, lockVars
  <2> QED  BY <2>3, <2>4, <2>5 DEF MemInv
<1>16. CASE UNCHANGED memVars
  <2>1. RestTypeOK'  BY <1>1, <1>16 DEF memVars, lockVars, clockVars, RestTypeOK
  <2>2. IndexInv' /\ StampInv'  BY <1>1, <1>16, <2>1, QuietStep DEF memVars
  <2>3. CapInv'  BY <1>1, <1>16 DEF memVars, lockVars, CapInv, indexVars
  <2> QED  BY <2>2, <2>3 DEF MemInv
<1> QED
  BY <1>2, <1>3, <1>5, <1>6, <1>8, <1>9, <1>10, <1>11, <1>12, <1>13, <1>14, <1>15, <1>16
  DEF MemNext, AddNext, SweepNext

-----------------------------------------------------------------------------
(* The theorems.                                                           *)

LEMMA MemInvHolds == MemSpec => []MemInv
BY MemInitInv, MemStepInv, PTL DEF MemSpec, MemSafety

\* The variables of the store keep their types.
THEOREM MemTypesHold == MemSpec => []MemTypeOK
<1>1. MemInv => MemTypeOK  BY DEF MemInv, IndexInv
<1> QED  BY <1>1, MemInvHolds, PTL

\* After every insertion and every eviction, in whatever loop, the five indexes
\* describe the same interactions.
THEOREM IndexesAlwaysAgree == MemSpec => []IndexesAgree
<1>1. MemInv => IndexesAgree  BY DEF MemInv, IndexInv
<1> QED  BY <1>1, MemInvHolds, PTL

\* Whenever the lock is free, neither the store nor a token is over its cap,
\* for any caps and any batches.
THEOREM CapsAlwaysHold == MemSpec => []CapsHold
<1>1. MemInv => CapsHold
  <2> SUFFICES ASSUME MemInv, lock = "free" PROVE
        /\ Cardinality(DOMAIN interactions) <= MaxInteractions
        /\ \A t \in Tokens :
             Cardinality({id \in DOMAIN interactions : interactions[id].token = t}) <= MaxPerToken
    BY DEF CapsHold
  <2>1. Cardinality(DOMAIN interactions) = Len(order)  BY ListFacts
  <2>2. ASSUME NEW t \in Tokens PROVE Cardinality(Ids(t)) <= MaxPerToken
    <3>1. CASE t \in DOMAIN byToken  BY <3>1, ListFacts DEF MemInv, CapInv
    <3>2. CASE t \notin DOMAIN byToken  BY <3>2, ListFacts, CapAssumption
    <3> QED  BY <3>1, <3>2
  <2> QED  BY <2>1, <2>2 DEF MemInv, CapInv, Ids
<1> QED  BY <1>1, MemInvHolds, PTL

\* A sweep that was not disturbed by a clock set back leaves nothing older than
\* its cutoff, although it stops at the first interaction that is not.
THEOREM SweepsAreExact == MemSpec => SweepIsExact
<1>1. MemInv /\ [MemNext]_memVars =>
        [SweepDone /\ ~stepped => \A id \in DOMAIN interactions : ~Older(id, cutoff)]_memVars
  <2> SUFFICES ASSUME MemInv, SweepDone, ~stepped, NEW id \in DOMAIN interactions
               PROVE  ~Older(id, cutoff)
    OBVIOUS
  <2>1. /\ order \in Seq(Nat) /\ Range(order) = DOMAIN interactions /\ Ascending(order)
    BY ListTypes DEF MemInv, IndexInv, IndexesAgree
  <2>2. PICK i \in DOMAIN order : order[i] = id  BY <2>1 DEF Range
  <2>3. order # <<>> /\ 1 \in DOMAIN order /\ Head(order) = order[1] /\ DOMAIN order = 1..Len(order)
        /\ \A j \in DOMAIN order : order[j] \in Nat
    BY <2>1, <2>2
  <2>4. Head(order) \in DOMAIN interactions  BY <2>1, <2>3 DEF Range
  <2>5. ~(interactions[Head(order)].at < cutoff)  BY <2>3, <2>4 DEF SweepDone, FrontGoes
  <2>6. interactions[Head(order)].at <= interactions[id].at
    <3>1. CASE i = 1
      <4>1. id = Head(order) /\ interactions[id].at \in Nat
        BY <2>2, <2>3, <2>4, <3>1, MemoryBoundAssumption
        DEF MemInv, IndexInv, MemTypeOK, Interaction
      <4> QED  BY <4>1
    <3>2. CASE i # 1
      <4>1. Head(order) < id  BY <2>1, <2>2, <2>3, <3>2 DEF Ascending
      <4> QED  BY <2>4, <4>1 DEF MemInv, StampInv
    <3> QED  BY <3>1, <3>2
  <2>7. interactions[Head(order)].at \in Int /\ interactions[id].at \in Int /\ cutoff \in Int
    BY <2>4, MemoryBoundAssumption DEF MemInv, IndexInv, MemTypeOK, Interaction, None
  <2> QED  BY <2>5, <2>6, <2>7 DEF Older
<1> QED  BY <1>1, MemInvHolds, PTL DEF MemSpec, MemSafety, SweepIsExact

-----------------------------------------------------------------------------
(* The reads: what the lists hold, and in which order.                     *)

Descending(s) == \A i, j \in DOMAIN s : i < j => s[i] > s[j]

\* The list of a token holds its ids, whether or not there is one.
LEMMA ListOfFacts ==
  ASSUME MemInv, NEW t
  PROVE  /\ ListOf(t) \in Seq(Nat) /\ Ascending(ListOf(t))
         /\ Range(ListOf(t)) = Ids(t) /\ Len(ListOf(t)) = Cardinality(Ids(t))
<1>1. CASE t \in DOMAIN byToken
  <2>1. ListOf(t) = byToken[t]  BY <1>1 DEF ListOf
  <2>2. byToken[t] \in Seq(Nat) /\ Cardinality(Ids(t)) = Len(byToken[t])
    BY <1>1, ListTypes, ListFacts DEF MemInv, IndexInv
  <2>3. Ascending(byToken[t]) /\ Range(byToken[t]) = Ids(t)
    BY <1>1 DEF MemInv, IndexInv, IndexesAgree, Ids
  <2> QED  BY <2>1, <2>2, <2>3
<1>2. CASE t \notin DOMAIN byToken
  <2>1. ListOf(t) = <<>>  BY <1>2 DEF ListOf
  <2>2. Ids(t) = {}  BY <1>2 DEF MemInv, IndexInv, IndexesAgree, Ids
  <2>3. Cardinality(Ids(t)) = 0  BY <2>2, FS_EmptySet
  <2> QED  BY <2>1, <2>2, <2>3 DEF Range, Ascending
<1> QED  BY <1>1, <1>2

\* A list read from its back.
LEMMA ReverseFacts ==
  ASSUME NEW s \in Seq(Nat), Ascending(s)
  PROVE  /\ Len(Reverse(s)) = Len(s) /\ DOMAIN Reverse(s) = 1..Len(s)
         /\ Range(Reverse(s)) = Range(s) /\ Descending(Reverse(s))
<1> DEFINE r == Reverse(s)
<1>1. /\ Len(s) \in Nat /\ DOMAIN s = 1..Len(s) /\ \A i \in 1..Len(s) : s[i] \in Nat
      /\ \A i \in 1..Len(s) : Len(s) - i + 1 \in 1..Len(s)
  OBVIOUS
<1>2. r = [i \in 1..Len(s) |-> s[(Len(s) - i) + 1]]  BY DEF Reverse
<1> HIDE DEF r
<1>3. /\ DOMAIN r = 1..Len(s) /\ Len(r) = Len(s)
      /\ \A i \in 1..Len(s) : r[i] = s[Len(s) - i + 1]
  <2>1. DOMAIN r = 1..Len(s) /\ \A i \in 1..Len(s) : r[i] = s[Len(s) - i + 1]
    BY <1>2
  <2>2. r \in Seq(Nat)
    <3>1. r \in [1..Len(s) -> Nat]  BY <1>1, <1>2
    <3> QED  BY <1>1, <3>1
  <2> QED  BY <1>1, <2>1, <2>2
<1>4. ASSUME NEW x \in Range(s) PROVE x \in Range(r)
  <2>1. PICK i \in 1..Len(s) : x = s[i]  BY <1>1 DEF Range
  <2>2. PICK k \in 1..Len(s) : k = Len(s) - i + 1  BY <1>1
  <2>3. Len(s) - k + 1 = i  BY <1>1, <2>2
  <2>4. r[k] = s[i]  BY <1>3, <2>3
  <2> QED  BY <1>3, <2>1, <2>4 DEF Range
<1>5. ASSUME NEW x \in Range(r) PROVE x \in Range(s)
  BY <1>1, <1>3 DEF Range
<1>6. ASSUME NEW i \in 1..Len(s), NEW j \in 1..Len(s), i < j PROVE r[i] > r[j]
  <2>1. PICK k \in 1..Len(s) : k = Len(s) - i + 1  BY <1>1
  <2>2. PICK l \in 1..Len(s) : l = Len(s) - j + 1  BY <1>1
  <2>3. l < k  BY <1>1, <1>6, <2>1, <2>2
  <2>4. s[l] < s[k] /\ s[l] \in Nat /\ s[k] \in Nat  BY <1>1, <2>3 DEF Ascending
  <2>5. r[i] = s[k] /\ r[j] = s[l]  BY <1>3, <2>1, <2>2
  <2> QED  BY <2>4, <2>5
<1> QED  BY <1>3, <1>4, <1>5, <1>6 DEF Descending, r

\* The two orders the code sorts by.
LEMMA PairFacts ==
  /\ \A x, y \in DOMAIN interactions :
       /\ <<x, y>> \in Newer <=> \/ interactions[x].at > interactions[y].at
                                 \/ interactions[x].at = interactions[y].at /\ x > y
       /\ <<x, y>> \in NewerById <=> x > y
  /\ Newer \subseteq Pairs /\ NewerById \subseteq Pairs
  /\ \A p \in Pairs : \E x, y \in DOMAIN interactions : p = <<x, y>>
<1>1. ASSUME NEW x \in DOMAIN interactions, NEW y \in DOMAIN interactions
      PROVE  /\ <<x, y>> \in Newer <=> \/ interactions[x].at > interactions[y].at
                                       \/ interactions[x].at = interactions[y].at /\ x > y
             /\ <<x, y>> \in NewerById <=> x > y
  <2> PICK p : p = <<x, y>>  OBVIOUS
  <2>1. p \in Pairs /\ p[1] = x /\ p[2] = y  BY DEF Pairs
  <2>2. p \in NewerById <=> x > y  BY <2>1 DEF NewerById
  <2>3. p \in Newer <=> \/ interactions[x].at > interactions[y].at
                        \/ interactions[x].at = interactions[y].at /\ x > y
    BY <2>1 DEF Newer
  <2> QED  BY <2>2, <2>3
<1>2. Newer \subseteq Pairs /\ NewerById \subseteq Pairs  BY DEF Newer, NewerById
<1>3. \A p \in Pairs : \E x, y \in DOMAIN interactions : p = <<x, y>>
  BY DEF Pairs
<1> QED  BY <1>1, <1>2, <1>3

LEMMA NewerOrders ==
  ASSUME MemInv, NEW S, S \subseteq DOMAIN interactions
  PROVE  Orders(Newer, S) /\ Orders(NewerById, S)
<1>1. \A x \in S : x \in Nat /\ interactions[x].at \in Nat
  BY ListFacts, MemoryBoundAssumption DEF MemInv, IndexInv, MemTypeOK, Interaction
<1>2. \A x, y \in S :
        /\ <<x, y>> \in Newer <=> \/ interactions[x].at > interactions[y].at
                                  \/ interactions[x].at = interactions[y].at /\ x > y
        /\ <<x, y>> \in NewerById <=> x > y
  BY PairFacts
<1>3. Orders(Newer, S)
  <2> PICK at : at = [x \in S |-> interactions[x].at]  OBVIOUS
  <2>1. \A x \in S : at[x] = interactions[x].at /\ at[x] \in Nat  BY <1>1
  <2> QED  BY <1>1, <1>2, <2>1 DEF Orders
<1>4. Orders(NewerById, S)  BY <1>1, <1>2 DEF Orders
<1> QED  BY <1>3, <1>4

\* While the clock was not set back the later id is the newer.
LEMMA NewerIsLater ==
  ASSUME MemInv, ~stepped
  PROVE  Newer = NewerById
<1>1. ASSUME NEW x \in DOMAIN interactions, NEW y \in DOMAIN interactions
      PROVE  <<x, y>> \in Newer <=> x > y
  <2>1. x \in Nat /\ y \in Nat /\ interactions[x].at \in Nat /\ interactions[y].at \in Nat
    BY ListFacts, MemoryBoundAssumption DEF MemInv, IndexInv, MemTypeOK, Interaction
  <2>2. x < y => interactions[x].at <= interactions[y].at  BY DEF MemInv, StampInv
  <2>3. y < x => interactions[y].at <= interactions[x].at  BY DEF MemInv, StampInv
  <2> QED  BY <2>1, <2>2, <2>3, PairFacts
<1>2. \A p \in Pairs : p \in Newer <=> p \in NewerById
  BY <1>1, PairFacts
<1> QED  BY <1>2, PairFacts

\* The elements by rank.
LEMMA SortedFacts ==
  ASSUME NEW S, IsFiniteSet(S), NEW R, Orders(R, S)
  PROVE  LET s == Sorted(S, R) IN
         /\ Len(s) = Cardinality(S) /\ Range(s) = S /\ DOMAIN s = 1..Cardinality(S)
         /\ \A i, j \in DOMAIN s : i < j => <<s[i], s[j]>> \in R
<1> DEFINE s == Sorted(S, R)
           n == Cardinality(S)
<1>1. n \in Nat  BY FS_CardinalityType
<1>2. s = [i \in 1..n |-> CHOOSE x \in S : Rank(S, R, x) = i - 1]
  BY DEF Sorted, Rank
<1> HIDE DEF s
<1>3. ASSUME NEW i \in 1..n PROVE s[i] \in S /\ Rank(S, R, s[i]) = i - 1
  <2>1. \E x \in S : Rank(S, R, x) = i - 1  BY RankFacts
  <2>2. s[i] = CHOOSE x \in S : Rank(S, R, x) = i - 1  BY <1>2
  <2> QED  BY <2>1, <2>2
<1>4. /\ s \in Seq(S) /\ Len(s) = n /\ Range(s) = S
      /\ \A i, j \in DOMAIN s : i < j => <<s[i], s[j]>> \in R
  <2>1. s = [i \in 1..n |-> s[i]]  BY <1>2
  <2>2. \A i \in 1..n : s[i] \in S /\ Rank(S, R, s[i]) = i - 1  BY <1>3
  <2> HIDE DEF n
  <2> QED  BY <2>1, <2>2, RankedFacts DEF n
<1>5. DOMAIN s = 1..n  BY <1>2
<1> QED  BY <1>4, <1>5 DEF s

\* What a scope owns.
LEMMA OwnedByFacts ==
  ASSUME MemInv, NEW scope, scope \subseteq Tokens, NEW token \in Tokens \cup {Nil}
  PROVE  /\ OwnedBy(scope) = Matching(scope, Nil)
         /\ OfToken(OwnedBy(scope), token) = Matching(scope, token)
         /\ OwnedBy(scope) = OfToken(OwnedBy(scope), Nil)
<1>1. \A t : Range(ListOf(t)) = Ids(t)  BY ListOfFacts
<1>2. scope # Nil  BY NilAssumption
<1>3. OwnedBy(scope) = {id \in DOMAIN interactions : interactions[id].token \in scope}
  <2>1. OwnedBy(scope) = UNION {Ids(t) : t \in scope}  BY <1>1 DEF OwnedBy
  <2> QED  BY <2>1 DEF Ids
<1> QED  BY <1>2, <1>3 DEF Matching, OfToken

\* What ListInteractions returns, whichever path it takes.
LEMMA ReadFacts ==
  ASSUME MemInv, NEW scope \in Scopes, NEW token \in Tokens \cup {Nil}
  PROVE  LET found == ListInteractions(scope, token) IN
         /\ Range(found) = Matching(scope, token)
         /\ Len(found) = Cardinality(Matching(scope, token))
         /\ ~stepped => Descending(found)
<1>1. CASE scope # Nil
  <2>1. scope \subseteq Tokens  BY <1>1 DEF Scopes
  <2>2. ListInteractions(scope, token) = Sorted(Matching(scope, token), Newer)
    <3>1. OfToken(OwnedBy(scope), token) = Matching(scope, token)  BY <2>1, OwnedByFacts
    <3> QED  BY <1>1, <3>1 DEF ListInteractions
  <2> PICK S : S = Matching(scope, token)  OBVIOUS
  <2>3. S \subseteq DOMAIN interactions /\ IsFiniteSet(S)
    BY ListFacts, FS_Subset DEF Matching
  <2>4. LET s == Sorted(S, Newer) IN
        /\ Len(s) = Cardinality(S) /\ Range(s) = S
        /\ \A i, j \in DOMAIN s : i < j => <<s[i], s[j]>> \in Newer
    <3>1. Orders(Newer, S)  BY <2>3, NewerOrders
    <3> QED  BY <2>3, <3>1, SortedFacts
  <2>5. ASSUME ~stepped PROVE Descending(Sorted(S, Newer))
    <3> PICK s : s = Sorted(S, Newer)  OBVIOUS
    <3>1. Newer = NewerById  BY <2>5, NewerIsLater
    <3>2. \A i, j \in DOMAIN s : i < j => s[i] > s[j]  BY <2>4, <3>1 DEF NewerById
    <3> QED  BY <3>2 DEF Descending
  <2> QED  BY <2>2, <2>4, <2>5
<1>2. CASE scope = Nil /\ token # Nil
  <2>1. ListInteractions(scope, token) = Reverse(ListOf(token))  BY <1>2 DEF ListInteractions
  <2>2. Matching(scope, token) = Ids(token)  BY <1>2 DEF Matching, Ids
  <2>3. /\ ListOf(token) \in Seq(Nat) /\ Ascending(ListOf(token))
        /\ Range(ListOf(token)) = Ids(token) /\ Len(ListOf(token)) = Cardinality(Ids(token))
    BY ListOfFacts
  <2> QED  BY <2>1, <2>2, <2>3, ReverseFacts
<1>3. CASE scope = Nil /\ token = Nil
  <2>1. ListInteractions(scope, token) = Reverse(order)  BY <1>3 DEF ListInteractions
  <2>2. Matching(scope, token) = DOMAIN interactions  BY <1>3 DEF Matching
  <2>3. /\ order \in Seq(Nat) /\ Ascending(order) /\ Range(order) = DOMAIN interactions
        /\ Len(order) = Cardinality(DOMAIN interactions)
    BY ListTypes, ListFacts DEF MemInv, IndexInv, IndexesAgree
  <2> QED  BY <2>1, <2>2, <2>3, ReverseFacts
<1> QED  BY <1>1, <1>2, <1>3

\* Whichever index a read takes, it finds the interactions that match and no
\* others, each once; a scope without tokens finds none.
THEOREM ReadsStayScoped == MemSpec => []ReadsAreScoped
<1>1. MemInv => ReadsAreScoped
  <2> SUFFICES ASSUME MemInv, NEW scope \in Scopes, NEW token \in Tokens \cup {Nil}
      PROVE  LET found == ListInteractions(scope, token)
             IN  /\ Range(found) = Matching(scope, token)
                 /\ Len(found) = Cardinality(Matching(scope, token))
                 /\ token \in Tokens =>
                      CountInteractionsByToken(token) = Cardinality(Matching(Nil, token))
                 /\ scope # Nil =>
                      InteractionStatsByTokens(scope).interactions
                        = Cardinality(Matching(scope, Nil))
    BY DEF ReadsAreScoped
  <2>1. ASSUME token \in Tokens
        PROVE  CountInteractionsByToken(token) = Cardinality(Matching(Nil, token))
    <3>1. Matching(Nil, token) = Ids(token)
      BY <2>1, NilAssumption DEF Matching, Ids
    <3> QED  BY <3>1, ListOfFacts DEF CountInteractionsByToken
  <2>2. ASSUME scope # Nil
        PROVE  InteractionStatsByTokens(scope).interactions = Cardinality(Matching(scope, Nil))
    <3>1. scope \subseteq Tokens  BY <2>2 DEF Scopes
    <3>2. OwnedBy(scope) = Matching(scope, Nil)  BY <3>1, OwnedByFacts
    <3> QED  BY <3>2 DEF InteractionStatsByTokens
  <2> QED  BY <2>1, <2>2, ReadFacts
<1> QED  BY <1>1, MemInvHolds, PTL

\* While the clock was not set back, what a read shows first was inserted last,
\* whichever index it takes, and the dashboard shows what the list shows.
THEOREM ReadsShowTheNewestFirst == MemSpec => []ReadsAgreeOnOrder
<1>1. MemInv => ReadsAgreeOnOrder
  <2> SUFFICES ASSUME MemInv, ~stepped, NEW scope \in Scopes
      PROVE  /\ \A token \in Tokens \cup {Nil} : LastInFirst(ListInteractions(scope, token))
             /\ scope # Nil =>
                  ListInteractions(scope, Nil) = InteractionStatsByTokens(scope).recent
    BY DEF ReadsAgreeOnOrder
  <2>1. ASSUME NEW token \in Tokens \cup {Nil} PROVE LastInFirst(ListInteractions(scope, token))
    <3> PICK found : found = ListInteractions(scope, token)  OBVIOUS
    <3>1. Range(found) \subseteq DOMAIN interactions /\ Descending(found)
      BY ReadFacts DEF Matching
    <3>2. /\ order \in Seq(Nat) /\ Ascending(order) /\ Range(order) = DOMAIN interactions
      BY ListTypes DEF MemInv, IndexInv, IndexesAgree
    <3>3. DOMAIN order = 1..Len(order) /\ \A k \in DOMAIN order : order[k] \in Nat /\ k \in Nat
      BY <3>2
    <3>4. ASSUME NEW i \in DOMAIN found, NEW j \in DOMAIN found, i < j
          PROVE  \E k, l \in DOMAIN order : l < k /\ order[k] = found[i] /\ order[l] = found[j]
      <4>1. found[i] > found[j]  BY <3>1, <3>4 DEF Descending
      <4>2. PICK k \in DOMAIN order : order[k] = found[i]  BY <3>1, <3>2 DEF Range
      <4>3. PICK l \in DOMAIN order : order[l] = found[j]  BY <3>1, <3>2 DEF Range
      <4>4. ~(k < l) /\ k # l  BY <3>2, <3>3, <4>1, <4>2, <4>3 DEF Ascending
      <4> QED  BY <3>3, <4>2, <4>3, <4>4
    <3>5. LastInFirst(found)  BY <3>4 DEF LastInFirst
    <3> QED  BY <3>5
  <2>2. ASSUME scope # Nil
        PROVE  ListInteractions(scope, Nil) = InteractionStatsByTokens(scope).recent
    <3>1. scope \subseteq Tokens  BY <2>2 DEF Scopes
    <3> PICK S : S = OwnedBy(scope)  OBVIOUS
    <3>2. S \subseteq DOMAIN interactions /\ OfToken(S, Nil) = S
      BY <3>1, OwnedByFacts DEF Matching
    <3>3. Sorted(S, Newer) = Sorted(S, NewerById)  BY NewerIsLater
    <3>4. ListInteractions(scope, Nil) = Sorted(S, Newer)
      BY <2>2, <3>2 DEF ListInteractions
    <3>5. InteractionStatsByTokens(scope).recent = Sorted(S, NewerById)
      BY DEF InteractionStatsByTokens
    <3> QED  BY <3>3, <3>4, <3>5
  <2> QED  BY <2>1, <2>2
<1> QED  BY <1>1, MemInvHolds, PTL

-----------------------------------------------------------------------------
(* The loops under the write lock end.                                      *)

\* The steps that whoever holds the lock has left, at most.
StepsLeft ==
  IF lock = "free" THEN 0
  ELSE IF lock = "insert" THEN 3 * Len(todo) + Len(order) + 1
  ELSE IF lock = "cap" THEN 3 * Len(todo) + Len(order) - 1
  ELSE Len(order) + 1

\* While the lock is held only its holder changes the store, and each of its
\* steps brings it nearer to giving the lock back: no loop under the lock goes
\* on for ever, and a sweep evicts something whenever it goes on.
HolderGoesOn ==
  [][lock # "free" =>
       \/ StepsLeft' \in Nat /\ StepsLeft' < StepsLeft
       \/ UNCHANGED <<nextID, indexVars, lock, todo, before>>]_memVars

LEMMA LensAreNat == MemTypeOK => Len(order) \in Nat /\ Len(todo) \in Nat
BY ListTypes DEF MemTypeOK

LEMMA LensAreNatNext == MemTypeOK' => Len(order') \in Nat /\ Len(todo') \in Nat
<1>1. MemTypeOK' => (Len(order) \in Nat /\ Len(todo) \in Nat)'  BY LensAreNat, PTL
<1> QED  BY <1>1

THEOREM LoopsUnderTheLockEnd == MemSpec => HolderGoesOn
<1>1. MemInv /\ MemInv' /\ [MemNext]_memVars =>
        [lock # "free" =>
           \/ StepsLeft' \in Nat /\ StepsLeft' < StepsLeft
           \/ UNCHANGED <<nextID, indexVars, lock, todo, before>>]_memVars
  <2> SUFFICES ASSUME MemInv, MemInv', MemNext, lock # "free"
               PROVE  \/ StepsLeft' \in Nat /\ StepsLeft' < StepsLeft
                      \/ UNCHANGED <<nextID, indexVars, lock, todo, before>>
    BY DEF memVars
  <2>1. IndexInv /\ StampInv /\ MemTypeOK /\ MemTypeOK'  BY DEF MemInv, IndexInv
  <2>2. /\ Len(order) \in Nat /\ Len(todo) \in Nat /\ Len(order') \in Nat /\ Len(todo') \in Nat
    BY <2>1, LensAreNat, LensAreNatNext
  <2>3. \A id \in DOMAIN interactions : EvictOne(id) => Len(order') = Len(order) - 1
    BY <2>1, EvictFacts
  <2>4. order # <<>> => Head(order) \in DOMAIN interactions
    BY <2>1, HeadsAreStored
  <2>5. lock \in {"insert", "cap"} => todo # <<>>  BY <2>1 DEF IndexInv
  <2>6. ASSUME lock = "cap", NextItem
        PROVE  /\ Len(todo') = Len(todo) - 1 /\ lock' \in {"insert", "trim"}
               /\ lock' = "trim" => Len(todo') = 0
    <3>1. todo \in Seq(Tokens) /\ todo # <<>>  BY <2>1, <2>5, <2>6 DEF MemTypeOK
    <3>2. todo' = Tail(todo) /\ lock' = IF Tail(todo) = <<>> THEN "trim" ELSE "insert"
      BY <2>6 DEF NextItem
    <3>3. Len(Tail(todo)) = Len(todo) - 1  BY <3>1
    <3>4. Tail(todo) = <<>> => Len(Tail(todo)) = 0
      <4> PICK u : u = Tail(todo)  OBVIOUS
      <4>1. u = <<>> => Len(u) = 0  OBVIOUS
      <4> QED  BY <4>1
    <3>5. CASE Tail(todo) = <<>>  BY <3>2, <3>3, <3>4, <3>5
    <3>6. CASE Tail(todo) # <<>>  BY <3>2, <3>3, <3>6
    <3> QED  BY <3>5, <3>6
  <2>7. CASE AddStart \/ SweepStart \/ \E id \in 1..MaxId : DeleteOne(id)
    BY <2>7 DEF AddStart, SweepStart, DeleteOne
  <2>8. CASE SweepTick \/ ClockTicks \/ ClockSetBack
    BY <2>8 DEF SweepTick, ClockTicks, ClockSetBack, lockVars
  <2>9. CASE AddItem
    <3>1. lock = "insert" /\ lock' = "cap" /\ todo' = todo /\ order' = Append(order, nextID')
      BY <2>9 DEF AddItem, InsertOne
    <3>2. Len(order') = Len(order) + 1
      <4>1. order \in Seq(Nat)  BY <2>1, ListTypes
      <4> QED  BY <3>1, <4>1
    <3>3. Len(todo) >= 1
      <4>1. todo \in Seq(Tokens) /\ todo # <<>>  BY <2>1, <2>5, <3>1 DEF MemTypeOK
      <4> QED  BY <4>1
    <3> QED  BY <2>2, <3>1, <3>2, <3>3 DEF StepsLeft
  <2>10. CASE CapEvict
    <3>1. lock = "cap" /\ NextItem /\ EvictOne(Head(ListOf(Head(todo))))
          /\ Len(ListOf(Head(todo))) > MaxPerToken
      BY <2>10 DEF CapEvict
    <3>2. Head(ListOf(Head(todo))) \in DOMAIN interactions
      <4>1. ListOf(Head(todo)) # <<>>
        <5>1. Len(<<>>) = 0  OBVIOUS
        <5> QED  BY <3>1, <5>1, CapAssumption
      <4>2. Head(todo) \in DOMAIN byToken /\ ListOf(Head(todo)) = byToken[Head(todo)]
        BY <4>1 DEF ListOf
      <4> QED  BY <2>1, <4>1, <4>2, HeadsAreStored
    <3>3. Len(order') = Len(order) - 1  BY <2>3, <3>1, <3>2
    <3> QED  BY <2>2, <2>6, <3>1, <3>3 DEF StepsLeft
  <2>11. CASE CapKept
    <3>1. lock = "cap" /\ NextItem /\ order' = order  BY <2>11 DEF CapKept, indexVars
    <3> QED  BY <2>2, <2>6, <3>1 DEF StepsLeft
  <2>12. ASSUME order # <<>>, EvictOne(Head(order)), lock \in {"trim", "sweep"}, lock' = lock
         PROVE  StepsLeft' \in Nat /\ StepsLeft' < StepsLeft
    <3>1. Len(order') = Len(order) - 1  BY <2>3, <2>4, <2>12
    <3> QED  BY <2>2, <2>12, <3>1 DEF StepsLeft
  <2>13. CASE TrimEvict
    <3>1. order # <<>>
      <4>1. Len(<<>>) = 0  OBVIOUS
      <4> QED  BY <2>13, <4>1, CapAssumption DEF TrimEvict
    <3> QED  BY <2>12, <2>13, <3>1 DEF TrimEvict, lockVars
  <2>14. CASE SweepEvict
    BY <2>12, <2>14 DEF SweepEvict, FrontGoes, lockVars
  <2>15. CASE TrimDone \/ SweepDone
    <3>1. lock \in {"trim", "sweep"} /\ lock' = "free"  BY <2>15 DEF TrimDone, SweepDone
    <3> QED  BY <2>2, <3>1 DEF StepsLeft
  <2> QED
    BY <2>7, <2>8, <2>9, <2>10, <2>11, <2>13, <2>14, <2>15 DEF MemNext, AddNext, SweepNext
<1> QED  BY <1>1, MemInvHolds, PTL DEF MemSpec, MemSafety, HolderGoesOn

-----------------------------------------------------------------------------
(* The store is an InteractionLog: the records that its maps stand for.     *)

Recs(m, S) == {[id |-> i, token |-> m[i].token, at |-> m[i].at] : i \in S}

\* T is what is left of S when the oldest go, and never so that fewer than n are
\* left.
Upper(T, S, n) ==
  /\ T \subseteq S /\ \A x \in S \ T : \A y \in T : x < y
  /\ S # T => Cardinality(T) >= n

\* The ids of S that A gives to a token.
Of(A, S, t) == {x \in S : A[x].token = t}

LEMMA RecsFacts ==
  ASSUME NEW m, NEW S, IsFiniteSet(S)
  PROVE  IsFiniteSet(Recs(m, S)) /\ Cardinality(Recs(m, S)) = Cardinality(S)
<1> DEFINE f == [i \in S |-> [id |-> i, token |-> m[i].token, at |-> m[i].at]]
<1>1. f \in [S -> Recs(m, S)]  BY DEF Recs
<1>2. \A i, j \in S : f[i] = f[j] => i = j
  <2>1. \A i \in S : f[i].id = i  OBVIOUS
  <2> QED  BY <2>1
<1>3. \A r \in Recs(m, S) : \E i \in S : f[i] = r  BY DEF Recs
<1>4. f \in Bijection(S, Recs(m, S))
  BY <1>1, <1>2, <1>3 DEF Bijection, Injection, Surjection, IsInjective
<1> QED  BY <1>4, FS_Bijection DEF ExistsBijection

\* The instance of InteractionLog counts as the store does.
LEMMA LogCardinality ==
  ASSUME NEW S PROVE Log!Cardinality(S) = Cardinality(S)
BY DEF Log!Cardinality, Cardinality

\* The newest records are those of the newest ids.
LEMMA NewestRecs ==
  ASSUME NEW m, NEW S, IsFiniteSet(S), S \subseteq Nat, NEW n \in Nat,
         NEW T, Upper(T, S, n), Cardinality(T) <= n
  PROVE  Log!Newest(Recs(m, S), n) = Recs(m, T)
<1> DEFINE key == [i \in S |-> i]
           rec(i) == [id |-> i, token |-> m[i].token, at |-> m[i].at]
           size(r) == Cardinality({q \in Recs(m, S) : q.id >= r.id})
<1>1. key \in [S -> Nat] /\ \A i \in S : key[i] = i  OBVIOUS
<1>2. T \subseteq S /\ Cardinality(T) \in Nat  BY FS_Subset, FS_CardinalityType DEF Upper
<1>3. T = NewestBy(S, key, n)
  <2>1. \A x \in S \ T : \A y \in T : key[y] > key[x]  BY <1>1, <1>2 DEF Upper
  <2>2. S # T => Cardinality(T) = n  BY <1>2 DEF Upper
  <2> HIDE DEF key
  <2> QED  BY <1>1, <1>2, <2>1, <2>2, NewestUnique
<1>4. \A i \in S : i \in T <=> Cardinality({j \in S : j >= i}) <= n
  <2>1. \A i \in S : Above(S, key, i) = {j \in S : j >= i}  BY DEF Above
  <2> QED  BY <1>3, <2>1 DEF NewestBy
<1>5. ASSUME NEW i \in S
      PROVE  size(rec(i)) = Cardinality({j \in S : j >= i})
  <2>1. {q \in Recs(m, S) : q.id >= rec(i).id} = Recs(m, {j \in S : j >= i})  BY DEF Recs
  <2>2. IsFiniteSet({j \in S : j >= i})  BY FS_Subset
  <2> QED  BY <2>1, <2>2, RecsFacts
<1>6. \A r : r \in Recs(m, S) <=> \E i \in S : r = rec(i)  BY DEF Recs
<1>7. \A r : r \in Recs(m, T) <=> \E i \in T : r = rec(i)  BY DEF Recs
<1>8. Log!Newest(Recs(m, S), n) = {r \in Recs(m, S) : size(r) <= n}
  BY LogCardinality DEF Log!Newest
<1> HIDE DEF rec, size
<1>9. \A r : r \in Log!Newest(Recs(m, S), n) <=> r \in Recs(m, T)
  <2>1. ASSUME NEW r \in Log!Newest(Recs(m, S), n) PROVE r \in Recs(m, T)
    <3>1. PICK i \in S : r = rec(i) /\ size(r) <= n  BY <1>6, <1>8, <2>1
    <3> QED  BY <1>4, <1>5, <1>7, <3>1
  <2>2. ASSUME NEW r \in Recs(m, T) PROVE r \in Log!Newest(Recs(m, S), n)
    <3>1. PICK i \in T : r = rec(i)  BY <1>7, <2>2
    <3> QED  BY <1>2, <1>4, <1>5, <1>6, <1>8, <3>1
  <2> QED  BY <2>1, <2>2
<1> QED  BY <1>9

\* What the two caps of the log leave, from what is left of each token and of
\* the whole.
LEMMA CappedRecs ==
  ASSUME NEW A, IsFiniteSet(DOMAIN A), DOMAIN A \subseteq Nat,
         \A x \in DOMAIN A : A[x].token \in Tokens,
         NEW U, U \subseteq DOMAIN A,
         \A t \in Tokens : /\ Upper(Of(A, U, t), Of(A, DOMAIN A, t), MaxPerToken)
                           /\ Cardinality(Of(A, U, t)) <= MaxPerToken,
         NEW V, Upper(V, U, MaxInteractions), Cardinality(V) <= MaxInteractions
  PROVE  Log!Capped(Recs(A, DOMAIN A)) = Recs(A, V)
<1> DEFINE kept(t) == Log!Newest(Log!OfToken(Recs(A, DOMAIN A), t), MaxPerToken)
<1>1. ASSUME NEW t \in Tokens PROVE kept(t) = Recs(A, Of(A, U, t))
  <2>1. Log!OfToken(Recs(A, DOMAIN A), t) = Recs(A, Of(A, DOMAIN A, t))
    BY DEF Log!OfToken, Recs, Of
  <2>2. IsFiniteSet(Of(A, DOMAIN A, t)) /\ Of(A, DOMAIN A, t) \subseteq Nat
    BY FS_Subset DEF Of
  <2>3. Log!Newest(Recs(A, Of(A, DOMAIN A, t)), MaxPerToken) = Recs(A, Of(A, U, t))
    BY <2>2, NewestRecs, CapAssumption
  <2> QED  BY <2>1, <2>3
<1> HIDE DEF kept
<1>2. UNION {kept(t) : t \in Tokens} = UNION {Recs(A, Of(A, U, t)) : t \in Tokens}
  BY <1>1
<1>3. UNION {Recs(A, Of(A, U, t)) : t \in Tokens} = Recs(A, U)
  BY DEF Recs, Of
<1>4. Log!Newest(Recs(A, U), MaxInteractions) = Recs(A, V)
  <2>1. IsFiniteSet(U) /\ U \subseteq Nat  BY FS_Subset
  <2> QED  BY <2>1, NewestRecs, CapAssumption
<1> QED  BY <1>2, <1>3, <1>4 DEF Log!Capped, kept

-----------------------------------------------------------------------------
(* What the store is between two of the log's steps.                        *)

\* A is the log with the batch so far, before the caps; U what the token caps
\* left of it. Of U the global cap has taken the oldest.
Grown(A, U) ==
  /\ U \subseteq DOMAIN A
  /\ \A x \in DOMAIN before.records : A[x] = before.records[x]
  /\ \A x \in DOMAIN interactions : A[x] = interactions[x]
  /\ \A t \in Tokens : Upper(Of(A, U, t), Of(A, DOMAIN A, t), MaxPerToken)
  /\ Upper(DOMAIN interactions, U, MaxInteractions)
  /\ IF lock = "trim" THEN \A t \in Tokens : Cardinality(Of(A, U, t)) <= MaxPerToken
     ELSE U = DOMAIN interactions

AllIds == DOMAIN before.records \cup (before.last + 1)..nextID

\* The batch is shorter than its bound by what is still to come.
LengthInv ==
  /\ lock = "insert" => before.last <= nextID /\ nextID - before.last + Len(todo) <= MaxBatch
  /\ lock = "cap" => before.last < nextID /\ nextID - before.last + Len(todo) <= MaxBatch + 1
  /\ lock = "trim" => before.last < nextID /\ nextID - before.last <= MaxBatch

BatchInv ==
  \E A \in [AllIds -> Interaction] : \E U \in SUBSET AllIds : Grown(A, U)

\* A sweep has taken old records only.
SweptInv ==
  /\ before.last = nextID /\ cutoff \in 0..MaxTime
  /\ DOMAIN interactions \subseteq DOMAIN before.records
  /\ \A x \in DOMAIN interactions : interactions[x] = before.records[x]
  /\ \A x \in DOMAIN before.records \ DOMAIN interactions : before.records[x].at < cutoff

LogInv ==
  /\ before.last \in Nat /\ before.records \in [DOMAIN before.records -> Interaction]
  /\ DOMAIN before.records \subseteq 1..before.last
  /\ lock = "free" => before.records = interactions /\ before.last = nextID
  /\ lock = "sweep" => SweptInv
  /\ lock \in {"insert", "cap", "trim"} => BatchInv
  /\ LengthInv

\* An insertion adds to both, and an eviction takes the oldest of too many.
LEMMA UpperAdd ==
  ASSUME NEW S, S \subseteq Nat, IsFiniteSet(S), NEW T, NEW n \in Nat, Upper(T, S, n),
         NEW e \in Nat, \A x \in S : x < e
  PROVE  Upper(T \cup {e}, S \cup {e}, n)
<1>1. T \subseteq S /\ e \notin T /\ IsFiniteSet(T) /\ Cardinality(T) \in Nat
  <2>1. T \subseteq S  BY DEF Upper
  <2>2. e \notin T  BY <2>1
  <2> QED  BY <2>1, <2>2, FS_Subset, FS_CardinalityType
<1>2. Cardinality(T \cup {e}) = Cardinality(T) + 1  BY <1>1, FS_AddElement
<1>3. S \cup {e} # T \cup {e} => S # T  OBVIOUS
<1> QED  BY <1>1, <1>2, <1>3 DEF Upper

LEMMA UpperRemove ==
  ASSUME NEW S, S \subseteq Nat, IsFiniteSet(S), NEW T, NEW n \in Nat, Upper(T, S, n),
         NEW e \in T, \A x \in T : e <= x, Cardinality(T) > n
  PROVE  Upper(T \ {e}, S, n)
<1>1. T \subseteq S /\ T \subseteq Nat /\ IsFiniteSet(T) /\ Cardinality(T) \in Nat
  BY FS_Subset, FS_CardinalityType DEF Upper
<1>2. Cardinality(T \ {e}) = Cardinality(T) - 1  BY <1>1, FS_RemoveElement
<1>3. ASSUME NEW x \in S \ (T \ {e}), NEW y \in T \ {e} PROVE x < y
  <2>1. CASE x = e  BY <1>1, <2>1
  <2>2. CASE x # e  BY <2>2 DEF Upper
  <2> QED  BY <2>1, <2>2
<1> QED  BY <1>1, <1>2, <1>3 DEF Upper

LEMMA UpperWhole ==
  ASSUME NEW S, NEW n PROVE Upper(S, S, n)
BY DEF Upper

LEMMA LogInvInit == MemInit => LogInv
<1> SUFFICES ASSUME MemInit PROVE LogInv  OBVIOUS
<1>1. before.records = <<>> /\ before.last = 0 /\ lock = "free" /\ interactions = <<>> /\ nextID = 0
  BY DEF MemInit
<1>2. DOMAIN before.records = {} /\ before.records \in [DOMAIN before.records -> Interaction]
  BY <1>1
<1> QED  BY <1>1, <1>2 DEF LogInv, LengthInv

LEMMA AllIdsFacts ==
  ASSUME MemInv, LogInv
  PROVE  /\ IsFiniteSet(AllIds) /\ AllIds \subseteq Nat
         /\ before.last <= nextID => AllIds \subseteq 1..nextID
<1>1. /\ before.last \in Nat /\ nextID \in Nat /\ DOMAIN before.records \subseteq 1..before.last
  BY ListFacts DEF LogInv
<1>2. IsFiniteSet(1..before.last) /\ IsFiniteSet((before.last + 1)..nextID)
  <2>1. PICK a : a = before.last + 1  OBVIOUS
  <2>2. PICK b : b = before.last  OBVIOUS
  <2>3. a \in Int /\ b \in Int /\ 1 \in Int /\ nextID \in Int  BY <1>1, <2>1, <2>2
  <2>4. IsFiniteSet(1..b) /\ IsFiniteSet(a..nextID)  BY <2>3, FS_Interval
  <2> QED  BY <2>1, <2>2, <2>4
<1>3. IsFiniteSet(AllIds)
  BY <1>1, <1>2, FS_Subset, FS_Union DEF AllIds
<1> QED  BY <1>1, <1>3 DEF AllIds

LEMMA OfInteractions ==
  ASSUME NEW A, \A x \in DOMAIN interactions : A[x] = interactions[x], NEW t
  PROVE  Of(A, DOMAIN interactions, t) = Ids(t)
BY DEF Of, Ids

\* AddItem: the log grows by one id, in the store and in what is left of it.
LEMMA GrowStep ==
  ASSUME MemInv, LogInv, AddItem
  PROVE  BatchInv'
<1>t. PICK t : t = Head(todo)  OBVIOUS
<1>n. PICK n : n = nextID + 1  OBVIOUS
<1>1. /\ lock = "insert" /\ lock' = "cap" /\ UNCHANGED <<before, todo>> /\ nextID' = n
      /\ InsertOne(nextID', t)
  BY <1>t, <1>n DEF AddItem
<1>2. /\ IndexInv /\ t \in Tokens /\ now \in 0..MaxTime
  <2>1. IndexInv /\ todo \in Seq(Tokens) /\ todo # <<>> /\ now \in 0..MaxTime
    BY <1>1 DEF MemInv, IndexInv, MemTypeOK
  <2> QED  BY <1>t, <2>1
<1>3. /\ DOMAIN interactions' = DOMAIN interactions \cup {n}
      /\ interactions'[n] = [token |-> t, at |-> now]
      /\ \A x \in DOMAIN interactions : interactions'[x] = interactions[x]
  BY <1>1, <1>2, <1>n, InsertFacts
<1>4. PICK A \in [AllIds -> Interaction] : \E U \in SUBSET AllIds : Grown(A, U)
  BY <1>1 DEF LogInv, BatchInv
<1>5. Grown(A, DOMAIN interactions)
  BY <1>1, <1>4 DEF Grown
<1>6. /\ before.last \in Nat /\ nextID \in Nat /\ n \in Nat /\ before.last <= nextID
      /\ DOMAIN before.records \subseteq 1..before.last
      /\ DOMAIN interactions \subseteq 1..nextID
      /\ IsFiniteSet(AllIds) /\ AllIds \subseteq 1..nextID /\ AllIds \subseteq Nat
  BY <1>1, <1>n, ListFacts, AllIdsFacts DEF LogInv, LengthInv
<1>7. AllIds' = AllIds \cup {n} /\ \A x \in AllIds : x < n
  <2>1. (before.last + 1)..n = ((before.last + 1)..nextID) \cup {n}
    BY <1>6, <1>n
  <2> QED  BY <1>1, <1>6, <1>n, <2>1 DEF AllIds
<1>b. PICK B : B = [x \in AllIds \cup {n} |-> IF x = n THEN [token |-> t, at |-> now] ELSE A[x]]
  OBVIOUS
<1>8. [token |-> t, at |-> now] \in Interaction  BY <1>2 DEF Interaction
<1>9. B \in [AllIds \cup {n} -> Interaction]  BY <1>8, <1>b
<1>10. /\ B[n] = [token |-> t, at |-> now] /\ \A x \in AllIds : B[x] = A[x]
       /\ B[n].token = t /\ DOMAIN B = AllIds \cup {n}
  BY <1>6, <1>7, <1>b
<1>11. DOMAIN A = AllIds  OBVIOUS
<1>12. /\ DOMAIN interactions \subseteq AllIds /\ DOMAIN before.records \subseteq AllIds
  BY <1>5, <1>11 DEF Grown, AllIds
<1>13. ASSUME NEW u \in Tokens
       PROVE  Upper(Of(B, DOMAIN interactions \cup {n}, u), Of(B, DOMAIN B, u), MaxPerToken)
  <2>1. Upper(Of(A, DOMAIN interactions, u), Of(A, DOMAIN A, u), MaxPerToken)
    BY <1>5 DEF Grown
  <2>2. IsFiniteSet(Of(A, DOMAIN A, u)) /\ Of(A, DOMAIN A, u) \subseteq Nat /\ n \in Nat
        /\ \A x \in Of(A, DOMAIN A, u) : x < n
    BY <1>6, <1>7, <1>11, FS_Subset DEF Of
  <2>3. CASE u = t
    <3>1. Of(B, DOMAIN interactions \cup {n}, u) = Of(A, DOMAIN interactions, u) \cup {n}
      BY <1>10, <1>12, <2>3 DEF Of
    <3>2. Of(B, DOMAIN B, u) = Of(A, DOMAIN A, u) \cup {n}
      BY <1>10, <1>11, <2>3 DEF Of
    <3>3. MaxPerToken \in Nat  BY CapAssumption
    <3>4. Upper(Of(A, DOMAIN interactions, u) \cup {n}, Of(A, DOMAIN A, u) \cup {n}, MaxPerToken)
      BY <2>1, <2>2, <3>3, UpperAdd
    <3> QED  BY <3>1, <3>2, <3>4
  <2>4. CASE u # t
    <3>1. Of(B, DOMAIN interactions \cup {n}, u) = Of(A, DOMAIN interactions, u)
      BY <1>10, <1>12, <2>4 DEF Of
    <3>2. Of(B, DOMAIN B, u) = Of(A, DOMAIN A, u)  BY <1>10, <1>11, <2>4 DEF Of
    <3> QED  BY <2>1, <3>1, <3>2
  <2> QED  BY <2>3, <2>4
<1>14. \A x \in DOMAIN interactions' : B[x] = interactions'[x]
  BY <1>3, <1>5, <1>10, <1>12 DEF Grown
<1>15. \A x \in DOMAIN before.records : B[x] = before.records[x]
  BY <1>5, <1>10, <1>12 DEF Grown
<1>d. PICK D : D = DOMAIN interactions'  OBVIOUS
<1>16. Grown(B, D)'
  BY <1>1, <1>3, <1>10, <1>12, <1>13, <1>14, <1>15, <1>d, UpperWhole DEF Grown
<1>17. D \subseteq AllIds \cup {n}  BY <1>3, <1>12, <1>d
<1> QED  BY <1>7, <1>9, <1>16, <1>17 DEF BatchInv

\* CapEvict and CapKept: the token caps have been applied when the last item is
\* done with.
LEMMA CapStep ==
  ASSUME MemInv, MemInv', LogInv, CapEvict \/ CapKept
  PROVE  BatchInv'
<1>t. PICK t : t = Head(todo)  OBVIOUS
<1>1. /\ lock = "cap" /\ UNCHANGED <<before, nextID>> /\ lock' \in {"insert", "trim"}
  BY DEF CapEvict, CapKept, NextItem
<1>2. PICK A \in [AllIds -> Interaction] : \E U \in SUBSET AllIds : Grown(A, U)
  BY <1>1 DEF LogInv, BatchInv
<1>3. /\ Grown(A, DOMAIN interactions) /\ DOMAIN A = AllIds /\ DOMAIN interactions \subseteq AllIds
  BY <1>1, <1>2 DEF Grown
<1>4. IsFiniteSet(AllIds) /\ AllIds \subseteq Nat /\ AllIds' = AllIds
  BY <1>1, AllIdsFacts DEF AllIds
<1>5. /\ DOMAIN interactions' \subseteq DOMAIN interactions
      /\ \A x \in DOMAIN interactions' : interactions'[x] = interactions[x]
      /\ \A u \in Tokens :
           Upper(Of(A, DOMAIN interactions', u), Of(A, AllIds, u), MaxPerToken)
  <2>1. CASE CapKept
    BY <1>3, <2>1 DEF CapKept, indexVars, Grown
  <2>2. CASE CapEvict
    <3>1. t \in DOMAIN byToken /\ Len(byToken[t]) > MaxPerToken /\ EvictOne(Head(byToken[t]))
      BY <1>1, <1>t, <2>2 DEF CapEvict, ListOf, MemInv, CapInv
    <3>2. byToken[t] # <<>>
      <4>1. Len(<<>>) = 0 /\ ~(0 > MaxPerToken)  BY CapAssumption
      <4> QED  BY <3>1, <4>1
    <3>3. PICK id : id = Head(byToken[t])  OBVIOUS
    <3>4. /\ id \in DOMAIN interactions /\ interactions[id].token = t
          /\ \A x \in Ids(t) : id <= x /\ Cardinality(Ids(t)) > MaxPerToken
          /\ Cardinality(Ids(t)) > MaxPerToken
      BY <3>1, <3>2, <3>3, HeadsAreStored, ListFacts
    <3>5. /\ DOMAIN interactions' = DOMAIN interactions \ {id}
          /\ \A x \in DOMAIN interactions' : interactions'[x] = interactions[x]
      BY <3>1, <3>3, <3>4, EvictFacts DEF MemInv
    <3>6. ASSUME NEW u \in Tokens
          PROVE  Upper(Of(A, DOMAIN interactions', u), Of(A, AllIds, u), MaxPerToken)
      <4>1. Of(A, DOMAIN interactions, u) = Ids(u)  BY <1>3, OfInteractions DEF Grown
      <4>2. Upper(Ids(u), Of(A, AllIds, u), MaxPerToken)  BY <1>3, <4>1 DEF Grown
      <4>3. CASE u = t
        <5>1. Of(A, DOMAIN interactions', u) = Ids(u) \ {id}  BY <3>5, <4>1 DEF Of
        <5>2. id \in Ids(u)  BY <3>4, <4>3 DEF Ids
        <5>3. IsFiniteSet(Of(A, AllIds, u)) /\ Of(A, AllIds, u) \subseteq Nat
          BY <1>4, FS_Subset DEF Of
        <5> QED  BY <3>4, <4>2, <4>3, <5>1, <5>2, <5>3, UpperRemove, CapAssumption
      <4>4. CASE u # t
        <5>1. id \notin Ids(u)  BY <3>4, <4>4 DEF Ids
        <5>2. Of(A, DOMAIN interactions', u) = Ids(u)  BY <3>5, <4>1, <5>1 DEF Of
        <5> QED  BY <4>2, <5>2
      <4> QED  BY <4>3, <4>4
    <3> QED  BY <3>5, <3>6
  <2> QED  BY <2>1, <2>2
<1>6. \A x \in DOMAIN interactions' : A[x] = interactions'[x]
  BY <1>3, <1>5 DEF Grown
<1>7. ASSUME lock' = "trim", NEW u \in Tokens
      PROVE  Cardinality(Of(A, DOMAIN interactions', u)) <= MaxPerToken
  <2>1. Of(A, DOMAIN interactions', u) = Ids(u)'  BY <1>6 DEF Of, Ids
  <2>2. (\A v \in DOMAIN byToken : Len(byToken[v]) <= MaxPerToken)'
    BY <1>7 DEF MemInv, CapInv
  <2>3. /\ \A v \in DOMAIN byToken' : Cardinality(Ids(v)') = Len(byToken'[v])
        /\ \A v : v \notin DOMAIN byToken' => Cardinality(Ids(v)') = 0
    BY ListFactsNext
  <2> QED  BY <2>1, <2>2, <2>3, CapAssumption
<1>d. PICK D : D = DOMAIN interactions'  OBVIOUS
<1>8. Grown(A, D)'
  <2> QED  BY <1>1, <1>3, <1>5, <1>6, <1>7, <1>d, UpperWhole DEF Grown
<1>9. D \in SUBSET AllIds'  BY <1>3, <1>4, <1>5, <1>d
<1> QED  BY <1>4, <1>8, <1>9 DEF BatchInv

\* TrimEvict: one too many, the oldest out.
LEMMA TrimStep ==
  ASSUME MemInv, LogInv, TrimEvict
  PROVE  BatchInv'
<1>1. /\ lock = "trim" /\ UNCHANGED <<before, nextID, lock>>
      /\ Len(order) > MaxInteractions /\ EvictOne(Head(order))
  BY DEF TrimEvict, lockVars
<1>2. PICK A \in [AllIds -> Interaction], U \in SUBSET AllIds : Grown(A, U)
  BY <1>1 DEF LogInv, BatchInv
<1>3. PICK id : id = Head(order)  OBVIOUS
<1>4. order # <<>>
  <2>1. Len(<<>>) = 0 /\ ~(0 > MaxInteractions)  BY CapAssumption
  <2> QED  BY <1>1, <2>1
<1>5. /\ id \in DOMAIN interactions /\ \A x \in DOMAIN interactions : id <= x
      /\ Cardinality(DOMAIN interactions) > MaxInteractions
  BY <1>1, <1>3, <1>4, HeadsAreStored, ListFacts
<1>6. /\ DOMAIN interactions' = DOMAIN interactions \ {id}
      /\ \A x \in DOMAIN interactions' : interactions'[x] = interactions[x]
  BY <1>1, <1>3, <1>5, EvictFacts DEF MemInv
<1>7. IsFiniteSet(U) /\ U \subseteq Nat /\ AllIds' = AllIds
  BY <1>1, <1>2, AllIdsFacts, FS_Subset DEF AllIds
<1>8. Upper(DOMAIN interactions \ {id}, U, MaxInteractions)
  BY <1>2, <1>5, <1>7, UpperRemove, CapAssumption DEF Grown
<1>9. Grown(A, U)'
  BY <1>1, <1>2, <1>6, <1>8 DEF Grown
<1> QED  BY <1>2, <1>7, <1>9 DEF BatchInv

\* Nothing of the maps, the history and the lock's state changes, but what
\* SweepTick and the clock do.
LEMMA LogQuiet ==
  ASSUME MemInv, LogInv, UNCHANGED <<nextID, interactions, lock, todo, before>>,
         cutoff' = cutoff \/ cutoff = None
  PROVE  LogInv'
<1>1. lock # "sweep" \/ cutoff' = cutoff
  <2>1. None \notin 0..MaxTime  BY MemoryBoundAssumption DEF None
  <2> QED  BY <2>1 DEF LogInv, SweptInv
<1>2. BatchInv' <=> BatchInv  BY DEF BatchInv, Grown, AllIds
<1>3. LengthInv'  BY DEF LogInv, LengthInv
<1>4. lock = "sweep" => SweptInv'  BY <1>1 DEF LogInv, SweptInv
<1> QED  BY <1>2, <1>3, <1>4 DEF LogInv

LEMMA LogInvStep ==
  MemInv /\ MemInv' /\ LogInv /\ [MemNext]_memVars => LogInv'
<1> SUFFICES ASSUME MemInv, MemInv', LogInv, [MemNext]_memVars PROVE LogInv'  OBVIOUS
<1>1. /\ nextID \in Nat /\ todo \in Seq(Tokens) /\ cutoff \in 0..MaxTime \cup {None}
      /\ interactions \in [DOMAIN interactions -> Interaction]
      /\ DOMAIN interactions \subseteq 1..nextID
      /\ interactions' \in [DOMAIN interactions' -> Interaction]
      /\ DOMAIN interactions' \subseteq 1..nextID' /\ nextID' \in Nat
      /\ MaxBatch \in Nat
      /\ Len(todo) \in Nat /\ before.last \in Nat
  BY MemoryBoundAssumption DEF MemInv, IndexInv, MemTypeOK, LogInv
<1>2. CASE AddStart
  <2>1. /\ lock = "free" /\ lock' = "insert" /\ UNCHANGED <<nextID, interactions, before>>
        /\ \E n \in 1..MaxBatch : todo' \in [1..n -> Tokens]
    BY <1>2 DEF AddStart, indexVars
  <2>2. Len(todo') <= MaxBatch /\ Len(todo') \in Nat
    <3>1. PICK n \in 1..MaxBatch : todo' \in [1..n -> Tokens]  BY <2>1
    <3>2. n \in Nat /\ n <= MaxBatch /\ Len(todo') = n  BY <3>1
    <3> QED  BY <3>2
  <2>3. before.records = interactions /\ before.last = nextID  BY <2>1 DEF LogInv
  <2>4. AllIds = DOMAIN interactions /\ AllIds' = AllIds
    <3>1. (nextID + 1)..nextID = {}  BY <1>1
    <3> QED  BY <2>1, <2>3, <3>1 DEF AllIds
  <2>5. PICK A : A = interactions  OBVIOUS
  <2>6. Grown(A, AllIds)'
    BY <2>1, <2>3, <2>4, <2>5, UpperWhole DEF Grown
  <2>7. BatchInv'  BY <1>1, <2>4, <2>5, <2>6 DEF BatchInv
  <2>8. LengthInv'  BY <1>1, <2>1, <2>2, <2>3 DEF LengthInv
  <2> QED  BY <2>1, <2>7, <2>8 DEF LogInv
<1>3. CASE AddItem
  <2>1. lock = "insert" /\ lock' = "cap" /\ UNCHANGED <<before, todo>> /\ nextID' = nextID + 1
    BY <1>3 DEF AddItem
  <2>2. LengthInv'  BY <1>1, <2>1 DEF LogInv, LengthInv
  <2> QED  BY <1>3, <2>1, <2>2, GrowStep DEF LogInv
<1>4. CASE CapEvict \/ CapKept
  <2>1. /\ lock = "cap" /\ UNCHANGED <<before, nextID>> /\ todo' = Tail(todo)
        /\ lock' = IF Tail(todo) = <<>> THEN "trim" ELSE "insert"
    BY <1>4 DEF CapEvict, CapKept, NextItem
  <2>2. todo # <<>>  BY <2>1 DEF MemInv, IndexInv
  <2>3. Len(todo') = Len(todo) - 1 /\ Len(todo') \in Nat  BY <1>1, <2>1, <2>2
  <2>4. LengthInv'
    <3>1. before.last < nextID /\ nextID - before.last + Len(todo) <= MaxBatch + 1
      BY <2>1 DEF LogInv, LengthInv
    <3>2. /\ before.last <= nextID /\ nextID - before.last + Len(todo') <= MaxBatch
          /\ nextID - before.last <= MaxBatch
      BY <1>1, <2>3, <3>1
    <3>3. lock' # "cap" /\ before'.last = before.last /\ nextID' = nextID  BY <2>1
    <3> QED  BY <3>1, <3>2, <3>3 DEF LengthInv
  <2> QED  BY <1>4, <2>1, <2>4, CapStep DEF LogInv
<1>5. CASE TrimEvict
  <2>1. lock = "trim" /\ UNCHANGED <<before, nextID, lock, todo>>
    BY <1>5 DEF TrimEvict, lockVars
  <2>2. LengthInv'  BY <2>1 DEF LogInv, LengthInv
  <2> QED  BY <1>5, <2>1, <2>2, TrimStep DEF LogInv
<1>6. ASSUME lock' = "free", before' = [records |-> interactions', last |-> nextID']
      PROVE  LogInv'
  <2>1. before'.records = interactions' /\ before'.last = nextID'  BY <1>6
  <2>2. LengthInv'  BY <1>6 DEF LengthInv
  <2> QED  BY <1>1, <1>6, <2>1, <2>2 DEF LogInv
<1>7. CASE TrimDone \/ SweepDone
  BY <1>6, <1>7 DEF TrimDone, SweepDone, indexVars
<1>8. ASSUME NEW id \in 1..MaxId, DeleteOne(id) PROVE LogInv'
  BY <1>6, <1>8 DEF DeleteOne
<1>9. CASE SweepStart
  <2>1. lock = "free" /\ lock' = "sweep" /\ cutoff \in 0..MaxTime
        /\ UNCHANGED <<nextID, interactions, cutoff, before>>
    BY <1>1, <1>9 DEF SweepStart, indexVars
  <2>2. SweptInv'  BY <2>1 DEF LogInv, SweptInv
  <2>3. LengthInv'  BY <2>1 DEF LengthInv
  <2> QED  BY <2>1, <2>2, <2>3 DEF LogInv
<1>10. CASE SweepEvict
  <2>1. /\ lock = "sweep" /\ UNCHANGED <<before, nextID, lock, cutoff, todo>>
        /\ order # <<>> /\ EvictOne(Head(order))
        /\ Head(order) \in DOMAIN interactions
        /\ interactions[Head(order)].at < cutoff
    <3>1. /\ lock = "sweep" /\ UNCHANGED <<nextID, lockVars>> /\ FrontGoes
          /\ EvictOne(Head(order))
      BY <1>10 DEF SweepEvict
    <3>2. order # <<>> /\ Head(order) \in DOMAIN interactions
      BY <3>1, HeadsAreStored DEF FrontGoes
    <3> QED  BY <3>1, <3>2 DEF FrontGoes, lockVars
  <2>2. /\ DOMAIN interactions' = DOMAIN interactions \ {Head(order)}
        /\ \A x \in DOMAIN interactions' : interactions'[x] = interactions[x]
    BY <2>1, EvictFacts DEF MemInv
  <2>3. SweptInv  BY <2>1 DEF LogInv
  <2>4. before.records[Head(order)] = interactions[Head(order)]  BY <2>1, <2>3 DEF SweptInv
  <2>5. SweptInv'  BY <2>1, <2>2, <2>3, <2>4 DEF SweptInv
  <2>6. LengthInv'  BY <2>1 DEF LengthInv
  <2> QED  BY <2>1, <2>5, <2>6 DEF LogInv
<1>11. CASE SweepTick \/ ClockTicks \/ ClockSetBack \/ UNCHANGED memVars
  BY <1>11, LogQuiet
  DEF SweepTick, ClockTicks, ClockSetBack, memVars, indexVars, lockVars
<1> QED  BY <1>2, <1>3, <1>4, <1>5, <1>7, <1>8, <1>9, <1>10, <1>11
         DEF MemNext, AddNext, SweepNext

-----------------------------------------------------------------------------
(* Each step is one of the log's, or none.                                  *)

LogRecords == Records(IF lock = "free" THEN interactions ELSE before.records)
LogLast == IF lock = "free" THEN nextID ELSE before.last

LEMMA LogIs ==
  LogInv => LogRecords = Recs(before.records, DOMAIN before.records) /\ LogLast = before.last
BY DEF LogInv, LogRecords, LogLast, Records, Recs

LEMMA LogIsNext ==
  LogInv' => (LogRecords = Recs(before.records, DOMAIN before.records) /\ LogLast = before.last)'
<1> QED  BY LogIs, PTL

LEMMA LogStarts == MemInit => Log!LogInit
<1> SUFFICES ASSUME MemInit PROVE Log!LogInit  OBVIOUS
<1>1. lock = "free" /\ DOMAIN interactions = {} /\ nextID = 0  BY DEF MemInit
<1>2. Records(interactions) = {}  BY <1>1 DEF Records
<1> QED  BY <1>1, <1>2 DEF Log!LogInit

\* The batch as a whole appears when the lock is given back.
LEMMA TrimDoneAdds ==
  ASSUME MemInv, LogInv, LogInv', TrimDone
  PROVE  Log!AddBatch
<1>1. /\ lock = "trim" /\ lock' = "free" /\ UNCHANGED <<nextID, interactions>>
      /\ before' = [records |-> interactions, last |-> nextID]
      /\ Len(order) <= MaxInteractions
  BY DEF TrimDone, indexVars
<1>2. PICK A \in [AllIds -> Interaction], U \in SUBSET AllIds : Grown(A, U)
  BY <1>1 DEF LogInv, BatchInv
<1>3. PICK l : l = before.last  OBVIOUS
<1>4. /\ l \in Nat /\ nextID \in Nat /\ l < nextID /\ nextID - l <= MaxBatch
      /\ AllIds = DOMAIN before.records \cup (l + 1)..nextID
      /\ DOMAIN A = AllIds /\ IsFiniteSet(AllIds) /\ AllIds \subseteq Nat
      /\ MaxBatch \in Nat
  BY <1>1, <1>3, ListFacts, AllIdsFacts, MemoryBoundAssumption DEF LogInv, LengthInv, AllIds
<1>5. PICK n : n = nextID - l  OBVIOUS
<1>6. n \in 1..MaxBatch /\ n \in Nat /\ \A i \in 1..n : l + i \in (l + 1)..nextID
  BY <1>4, <1>5
<1>7. PICK toks : toks = [i \in 1..n |-> A[l + i].token]  OBVIOUS
<1>8. PICK ats : ats = [i \in 1..n |-> A[l + i].at]  OBVIOUS
<1>9. \A x \in AllIds : A[x].token \in Tokens /\ A[x].at \in 0..MaxTime
  BY DEF Interaction
<1>10. toks \in [1..n -> Tokens] /\ ats \in [1..n -> 0..MaxTime]
  BY <1>4, <1>6, <1>7, <1>8, <1>9
<1>11. PICK new : new = {[id |-> l + i, token |-> toks[i], at |-> ats[i]] : i \in DOMAIN toks}
  OBVIOUS
<1>12. Recs(before.records, DOMAIN before.records) \cup new = Recs(A, AllIds)
  <2>1. new = Recs(A, (l + 1)..nextID)
    <3>1. \A x \in (l + 1)..nextID : x - l \in 1..n /\ l + (x - l) = x  BY <1>4, <1>5
    <3>2. ASSUME NEW x \in (l + 1)..nextID
          PROVE  [id |-> x, token |-> A[x].token, at |-> A[x].at] \in new
      <4>1. PICK i \in 1..n : l + i = x  BY <3>1
      <4> QED  BY <1>7, <1>8, <1>11, <4>1
    <3>3. ASSUME NEW i \in 1..n
          PROVE  [id |-> l + i, token |-> toks[i], at |-> ats[i]] \in Recs(A, (l + 1)..nextID)
      BY <1>6, <1>7, <1>8 DEF Recs
    <3>4. DOMAIN toks = 1..n  BY <1>7
    <3> QED  BY <1>11, <3>2, <3>3, <3>4 DEF Recs
  <2>2. Recs(before.records, DOMAIN before.records) = Recs(A, DOMAIN before.records)
    BY <1>2 DEF Grown, Recs
  <2> QED  BY <1>4, <2>1, <2>2 DEF Recs
<1>13. Log!Capped(Recs(A, AllIds)) = Recs(A, DOMAIN interactions)
  <2>1. Cardinality(DOMAIN interactions) <= MaxInteractions  BY <1>1, ListFacts
  <2> QED  BY <1>1, <1>2, <1>4, <1>9, <2>1, CappedRecs DEF Grown
<1>14. Recs(A, DOMAIN interactions) = LogRecords'
  BY <1>1, <1>2 DEF Grown, Recs, LogRecords, Records
<1>15. /\ LogRecords = Recs(before.records, DOMAIN before.records)
       /\ LogLast = l /\ LogLast' = nextID
  BY <1>1, <1>3, LogIs DEF LogLast
<1>16. Len(toks) = n /\ nextID = l + n  BY <1>4, <1>5, <1>6, <1>7
<1>17. Log!Add(toks, ats)
  <2>1. LogRecords' = Log!Capped(LogRecords \cup new)  BY <1>12, <1>13, <1>14, <1>15
  <2>2. new = {[id |-> LogLast + i, token |-> toks[i], at |-> ats[i]] : i \in DOMAIN toks}
    BY <1>11, <1>15
  <2>3. LogLast' = LogLast + Len(toks)  BY <1>15, <1>16
  <2> QED  BY <2>1, <2>2, <2>3 DEF Log!Add, LogRecords, LogLast
<1> QED  BY <1>6, <1>10, <1>17 DEF Log!AddBatch

LEMMA DeleteOneDeletes ==
  ASSUME MemInv, LogInv, NEW id \in 1..MaxId, DeleteOne(id)
  PROVE  \E r \in LogRecords : Log!Delete(r)
<1>1. /\ lock = "free" /\ lock' = "free" /\ UNCHANGED nextID
      /\ id \in DOMAIN interactions /\ EvictOne(id)
  BY DEF DeleteOne
<1>2. /\ DOMAIN interactions' = DOMAIN interactions \ {id}
      /\ \A x \in DOMAIN interactions' : interactions'[x] = interactions[x]
  BY <1>1, EvictFacts DEF MemInv
<1>3. PICK r : r = [id |-> id, token |-> interactions[id].token, at |-> interactions[id].at]
  OBVIOUS
<1>4. /\ LogRecords = Records(interactions) /\ LogRecords' = Records(interactions)'
      /\ LogLast' = LogLast
  BY <1>1 DEF LogRecords, LogLast, Records
<1>5. r \in LogRecords  BY <1>1, <1>3, <1>4 DEF Records
<1>6. Records(interactions)' = Records(interactions) \ {r}
  <2>1. ASSUME NEW x \in DOMAIN interactions
        PROVE  [id |-> x, token |-> interactions[x].token, at |-> interactions[x].at] = r <=> x = id
    <3>1. r.id = id  BY <1>3
    <3> QED  BY <1>3, <3>1
  <2> QED  BY <1>2, <2>1 DEF Records
<1>7. Log!Delete(r)  BY <1>4, <1>6 DEF Log!Delete, LogRecords, LogLast
<1> QED  BY <1>5, <1>7

LEMMA SweepDoneExpires ==
  ASSUME MemInv, LogInv, SweepDone
  PROVE  \E c \in 0..MaxTime : Log!Expire(c)
<1>1. /\ lock = "sweep" /\ lock' = "free" /\ UNCHANGED <<nextID, interactions>> /\ SweptInv
  BY DEF SweepDone, LogInv, indexVars
<1>2. /\ LogRecords = Recs(before.records, DOMAIN before.records) /\ LogLast = before.last
      /\ LogRecords' = Records(interactions) /\ LogLast' = nextID
  BY <1>1, LogIs DEF LogRecords, LogLast, Records
<1>3. Records(interactions) = Recs(before.records, DOMAIN interactions)
  BY <1>1 DEF SweptInv, Records, Recs
<1>4. LogRecords' \subseteq LogRecords /\ \A r \in LogRecords \ LogRecords' : r.at < cutoff
  BY <1>1, <1>2, <1>3 DEF SweptInv, Recs
<1>5. Log!Expire(cutoff)
  BY <1>1, <1>2, <1>4 DEF Log!Expire, LogRecords, LogLast, SweptInv
<1> QED  BY <1>1, <1>5 DEF SweptInv

LEMMA LogStep ==
  MemInv /\ LogInv /\ LogInv' /\ [MemNext]_memVars => [Log!LogNext]_(Log!logVars)
<1> SUFFICES ASSUME MemInv, LogInv, LogInv', [MemNext]_memVars
             PROVE  Log!LogNext \/ UNCHANGED Log!logVars
  OBVIOUS
<1>1. CASE UNCHANGED before
  <2>1. LogRecords' = LogRecords /\ LogLast' = LogLast  BY <1>1, LogIs, LogIsNext
  <2> QED  BY <2>1 DEF Log!logVars, LogRecords, LogLast
<1>2. CASE TrimDone  BY <1>2, TrimDoneAdds DEF Log!LogNext
<1>3. ASSUME NEW id \in 1..MaxId, DeleteOne(id) PROVE Log!LogNext
  BY <1>3, DeleteOneDeletes DEF Log!LogNext, LogRecords
<1>4. CASE SweepDone  BY <1>4, SweepDoneExpires DEF Log!LogNext
<1> QED
  BY <1>1, <1>2, <1>3, <1>4
  DEF MemNext, AddNext, SweepNext, AddStart, AddItem, CapEvict, CapKept, NextItem, TrimEvict,
      SweepTick, SweepStart, SweepEvict, ClockTicks, ClockSetBack, memVars, lockVars

\* Whoever looks at the store when its lock is free sees a log to which batches
\* are added whole, under fresh ids, and of which the caps, the deletions and the
\* retention take what InteractionLog lets them, for any caps and batches.
THEOREM StoreIsLog == MemSpec => IsLog
<1>1. MemSpec => []LogInv
  <2>1. LogInv /\ MemInv /\ MemInv' /\ [MemNext]_memVars => LogInv'  BY LogInvStep
  <2> QED  BY <2>1, MemInvHolds, LogInvInit, PTL DEF MemSpec, MemSafety
<1> QED  BY <1>1, MemInvHolds, LogStarts, LogStep, PTL
         DEF MemSpec, MemSafety, IsLog, Log!LogSpec
=============================================================================
