----------------------------- MODULE AccessProofs -----------------------------
(***************************************************************************)
(* Proofs about LoginLimiter and AdminAccess: for every number of peers,   *)
(* slots and failures, and every length of the window and the cookies, the *)
(* limiter counts what it is meant to count, the gate opens to a password  *)
(* only, and a browser keeps the tokens that it was told of.               *)
(***************************************************************************)
EXTENDS AdminAccess, FiniteSetTheorems, TLAPS

-----------------------------------------------------------------------------
(* The limiter.                                                            *)

FailedAt(ip, t) == {f \in wrong : f.ip = ip /\ f.at = t}
Comparing(ip) == {r \in Slots : login[r] = ip}

\* The failures that were, each with its number; a peer's list has those of its
\* last window.
FailuresInv ==
  /\ now \in Nat /\ IsFiniteSet(wrong)
  /\ \A f \in wrong :
       f.at \in 0..now /\ f.n \in Nat /\ f.n <= Cardinality(FailedAt(f.ip, f.at))
  /\ \A ip \in Peers : InWindow(ip, now) \subseteq FailsOf(ip)

\* A login that was let through has its failure still to come, and what was in
\* the window before it was below the limit.
BoundInv ==
  /\ \A ip \in Peers, t \in 0..now :
       Cardinality(InWindow(ip, t)) <= MaxFail + Cardinality(Slots) - 1
  /\ \A ip \in Peers :
       Cardinality(InWindow(ip, now)) + Cardinality(Comparing(ip))
         <= MaxFail + Cardinality(Slots) - 1

LimiterInv ==
  LimiterTypeOK /\ FailuresInv /\ BoundInv /\ RefusedForItsFailures

\* The sets that are counted are finite.
LEMMA CountFacts ==
  ASSUME LimiterInv
  PROVE  /\ \A ip, t : /\ IsFiniteSet(InWindow(ip, t)) /\ Cardinality(InWindow(ip, t)) \in Nat
                       /\ IsFiniteSet(FailedAt(ip, t)) /\ Cardinality(FailedAt(ip, t)) \in Nat
         /\ \A ip : IsFiniteSet(Comparing(ip)) /\ Cardinality(Comparing(ip)) \in 0..Cardinality(Slots)
         /\ Cardinality(Slots) \in Nat
<1>1. IsFiniteSet(wrong) /\ IsFiniteSet(Slots)
  BY LimiterBoundAssumption DEF LimiterInv, FailuresInv
<1>2. ASSUME NEW ip, NEW t
      PROVE  IsFiniteSet(InWindow(ip, t)) /\ IsFiniteSet(FailedAt(ip, t))
  <2>1. InWindow(ip, t) \subseteq wrong /\ FailedAt(ip, t) \subseteq wrong
    BY DEF InWindow, FailedAt
  <2> QED  BY <1>1, <2>1, FS_Subset
<1>3. ASSUME NEW ip
      PROVE  IsFiniteSet(Comparing(ip)) /\ Cardinality(Comparing(ip)) <= Cardinality(Slots)
  <2>1. Comparing(ip) \subseteq Slots  BY DEF Comparing
  <2> QED  BY <1>1, <2>1, FS_Subset
<1> QED  BY <1>1, <1>2, <1>3, FS_CardinalityType

\* Whoever is pruned has exactly the failures of the last window listed.
LEMMA PrunedIsWindow ==
  ASSUME LimiterInv, NEW ip \in Peers
  PROVE  Pruned(ip) = InWindow(ip, now)
<1>1. \A f \in FailsOf(ip) : f \in wrong /\ f.ip = ip
  BY DEF LimiterInv, LimiterTypeOK, FailsOf
<1>2. \A f \in wrong : f.at \in 0..now  BY DEF LimiterInv, FailuresInv
<1>3. InWindow(ip, now) \subseteq FailsOf(ip) /\ now \in Nat  BY DEF LimiterInv, FailuresInv
<1> QED  BY <1>1, <1>2, <1>3, LimiterAssumption DEF Pruned, InWindow

\* What a list is after it was stored.
LEMMA StoreFacts ==
  ASSUME LimiterInv, NEW ip \in Peers, NEW list, Store(ip, list)
  PROVE  /\ DOMAIN fails' \subseteq DOMAIN fails \cup {ip}
         /\ FailsOf(ip)' = list
         /\ \A p \in Peers : p # ip => FailsOf(p)' = FailsOf(p)
         /\ \A p \in DOMAIN fails' : fails'[p] = IF p = ip THEN list ELSE fails[p]
         /\ ip \in DOMAIN fails' => list # {}
         /\ fails' = [p \in DOMAIN fails' |-> fails'[p]]
  BY DEF Store, FailsOf

LEMMA AllowKeeps ==
  ASSUME LimiterInv, NEW r \in Slots, NEW ip \in Peers, Allow(r, ip)
  PROVE  LimiterInv'
<1>1. Pruned(ip) = InWindow(ip, now)  BY PrunedIsWindow
<1>2. /\ Store(ip, Pruned(ip)) /\ UNCHANGED <<now, wrong>> /\ login[r] = NoPeer
      /\ IF Cardinality(Pruned(ip)) < MaxFail
         THEN login' = [login EXCEPT ![r] = ip] /\ refused' = NoPeer
         ELSE refused' = ip /\ UNCHANGED login
  BY DEF Allow
<1>3. /\ DOMAIN fails' \subseteq DOMAIN fails \cup {ip}
      /\ FailsOf(ip)' = Pruned(ip)
      /\ \A p \in Peers : p # ip => FailsOf(p)' = FailsOf(p)
      /\ \A p \in DOMAIN fails' : fails'[p] = IF p = ip THEN Pruned(ip) ELSE fails[p]
      /\ ip \in DOMAIN fails' => Pruned(ip) # {}
      /\ fails' = [p \in DOMAIN fails' |-> fails'[p]]
  BY <1>2, StoreFacts
<1>4. \A p, t : InWindow(p, t)' = InWindow(p, t) /\ FailedAt(p, t)' = FailedAt(p, t)
  BY <1>2 DEF InWindow, FailedAt
<1>5. LimiterTypeOK'
  <2>1. \A f \in Pruned(ip) : f \in wrong /\ f.ip = ip  BY <1>1 DEF InWindow
  <2>2. \A p \in DOMAIN fails' :
          fails'[p] \subseteq wrong /\ fails'[p] # {} /\ \A f \in fails'[p] : f.ip = p
    BY <1>3, <2>1 DEF LimiterInv, LimiterTypeOK
  <2>3. login' \in [Slots -> Peers \cup {NoPeer}]
    BY <1>2 DEF LimiterInv, LimiterTypeOK
  <2>4. fails' \in [DOMAIN fails' -> SUBSET wrong']  BY <1>2, <1>3, <2>2
  <2> QED  BY <1>3, <2>2, <2>3, <2>4 DEF LimiterInv, LimiterTypeOK
<1>6. FailuresInv'
  <2>1. \A p \in Peers : InWindow(p, now)' \subseteq FailsOf(p)'
    BY <1>1, <1>2, <1>3, <1>4 DEF LimiterInv, FailuresInv
  <2> QED  BY <1>2, <1>4, <2>1 DEF LimiterInv, FailuresInv
<1>7. BoundInv'
  <2>1. ASSUME NEW p \in Peers
        PROVE  Cardinality(InWindow(p, now)) + Cardinality(Comparing(p)')
                 <= MaxFail + Cardinality(Slots) - 1
    <3>1. CASE login' = login
      <4>1. Comparing(p)' = Comparing(p)  BY <3>1 DEF Comparing
      <4> QED  BY <4>1 DEF LimiterInv, BoundInv
    <3>2. CASE login' # login /\ p # ip
      <4>1. p # NoPeer  BY PeerAssumption
      <4>2. Comparing(p)' = Comparing(p)
        BY <1>2, <3>2, <4>1 DEF Comparing, LimiterInv, LimiterTypeOK
      <4> QED  BY <4>2 DEF LimiterInv, BoundInv
    <3>3. CASE login' # login /\ p = ip
      <4>1. Cardinality(InWindow(ip, now)) < MaxFail  BY <1>1, <1>2, <3>3
      <4>2. Comparing(p)' \subseteq Slots  BY DEF Comparing
      <4>3. Cardinality(Comparing(p)') \in Nat /\ Cardinality(Comparing(p)') <= Cardinality(Slots)
        BY <4>2, LimiterBoundAssumption, FS_Subset, FS_CardinalityType
      <4> QED  BY <3>3, <4>1, <4>3, CountFacts, LimiterAssumption
    <3> QED  BY <3>1, <3>2, <3>3
  <2> QED  BY <1>2, <1>4, <2>1 DEF LimiterInv, BoundInv
<1>8. RefusedForItsFailures'
  <2>1. CASE Cardinality(Pruned(ip)) < MaxFail
    BY <1>2, <2>1 DEF RefusedForItsFailures
  <2>2. CASE ~(Cardinality(Pruned(ip)) < MaxFail)
    <3>1. Cardinality(InWindow(ip, now)) >= MaxFail  BY <1>1, <2>2, CountFacts, LimiterAssumption
    <3>2. refused' = ip  BY <1>2, <2>2
    <3> QED  BY <1>2, <1>4, <3>1, <3>2 DEF RefusedForItsFailures
  <2> QED  BY <2>1, <2>2
<1> QED  BY <1>5, <1>6, <1>7, <1>8 DEF LimiterInv

\* The new failure is none of those before it, and the peer's last window and its
\* list have it besides what they had.
LEMMA FailKeeps ==
  ASSUME LimiterInv, NEW r \in Slots, Fail(r)
  PROVE  LimiterInv'
<1> PICK T : T = now  OBVIOUS
<1>1. PICK ip \in Peers : ip = login[r]
  BY DEF Fail, LimiterInv, LimiterTypeOK
<1>2. PICK f : f = Failure(ip)  OBVIOUS
<1>3. /\ f.ip = ip /\ f.at = now /\ f.n = Cardinality(FailedAt(ip, now)) + 1
  BY <1>2 DEF Failure, FailedAt
<1>4. /\ Store(ip, Pruned(ip) \cup {f}) /\ wrong' = wrong \cup {f} /\ now' = now
      /\ login' = [login EXCEPT ![r] = NoPeer] /\ refused' = NoPeer
  BY <1>1, <1>2 DEF Fail
<1>5. now \in Nat /\ IsFiniteSet(wrong) /\ \A g \in wrong : g.at \in 0..now
  BY DEF LimiterInv, FailuresInv
<1>6. f \notin wrong
  BY <1>3, CountFacts DEF LimiterInv, FailuresInv
<1>7. Pruned(ip) = InWindow(ip, now)  BY PrunedIsWindow
<1>8. /\ DOMAIN fails' \subseteq DOMAIN fails \cup {ip}
      /\ FailsOf(ip)' = Pruned(ip) \cup {f}
      /\ \A p \in Peers : p # ip => FailsOf(p)' = FailsOf(p)
      /\ \A p \in DOMAIN fails' : fails'[p] = IF p = ip THEN Pruned(ip) \cup {f} ELSE fails[p]
      /\ fails' = [p \in DOMAIN fails' |-> fails'[p]]
  BY <1>4, StoreFacts
<1>9. /\ InWindow(ip, T)' = InWindow(ip, T) \cup {f}
      /\ \A p, t : p # ip => InWindow(p, t)' = InWindow(p, t) /\ FailedAt(p, t)' = FailedAt(p, t)
      /\ \A t \in 0..T : t # T =>
           InWindow(ip, t)' = InWindow(ip, t) /\ FailedAt(ip, t)' = FailedAt(ip, t)
      /\ FailedAt(ip, T)' = FailedAt(ip, T) \cup {f}
      /\ \A p : InWindow(p, now)' = InWindow(p, T)'
  BY <1>3, <1>4, <1>5, LimiterAssumption DEF InWindow, FailedAt
<1>10. /\ Cardinality(InWindow(ip, T)') = Cardinality(InWindow(ip, T)) + 1
       /\ Cardinality(FailedAt(ip, T)') = Cardinality(FailedAt(ip, T)) + 1
  <2>1. f \notin InWindow(ip, T) /\ f \notin FailedAt(ip, T)
    BY <1>6 DEF InWindow, FailedAt
  <2>2. /\ Cardinality(InWindow(ip, T) \cup {f}) = Cardinality(InWindow(ip, T)) + 1
        /\ Cardinality(FailedAt(ip, T) \cup {f}) = Cardinality(FailedAt(ip, T)) + 1
    BY <2>1, CountFacts, FS_AddElement
  <2> QED  BY <1>9, <2>2
<1>11. LimiterTypeOK'
  <2>1. \A g \in Pruned(ip) \cup {f} : g \in wrong' /\ g.ip = ip
    BY <1>3, <1>4, <1>7 DEF InWindow
  <2>2. \A p \in DOMAIN fails' :
          fails'[p] \subseteq wrong' /\ fails'[p] # {} /\ \A g \in fails'[p] : g.ip = p
    BY <1>4, <1>8, <2>1 DEF LimiterInv, LimiterTypeOK
  <2>3. login' \in [Slots -> Peers \cup {NoPeer}]
    BY <1>4 DEF LimiterInv, LimiterTypeOK
  <2>4. fails' \in [DOMAIN fails' -> SUBSET wrong']  BY <1>8, <2>2
  <2> QED  BY <1>8, <2>2, <2>3, <2>4 DEF LimiterInv, LimiterTypeOK
<1>12. FailuresInv'
  <2>1. IsFiniteSet(wrong')  BY <1>4, <1>5, FS_AddElement
  <2>2. ASSUME NEW g \in wrong'
        PROVE  g.at \in 0..T /\ g.n \in Nat /\ g.n <= Cardinality(FailedAt(g.ip, g.at)')
    <3>1. CASE g = f
      <4>1. g.ip = ip /\ g.at = T /\ g.n = Cardinality(FailedAt(ip, T)) + 1  BY <1>3, <3>1
      <4>2. Cardinality(FailedAt(ip, T)) \in Nat  BY CountFacts
      <4> QED  BY <1>3, <1>5, <1>10, <3>1, <4>1, <4>2
    <3>2. CASE g \in wrong
      <4>1. /\ g.at \in 0..T /\ g.n \in Nat /\ g.n <= Cardinality(FailedAt(g.ip, g.at))
            /\ Cardinality(FailedAt(g.ip, g.at)) \in Nat
        BY <3>2, CountFacts DEF LimiterInv, FailuresInv
      <4>2. CASE g.ip = ip /\ g.at = T
        <5>1. Cardinality(FailedAt(g.ip, g.at)') = Cardinality(FailedAt(g.ip, g.at)) + 1
          BY <1>9, <1>10, <4>2
        <5> QED  BY <4>1, <5>1
      <4>3. CASE ~(g.ip = ip /\ g.at = T)  BY <1>9, <4>1, <4>3
      <4> QED  BY <4>2, <4>3
    <3> QED  BY <1>4, <3>1, <3>2
  <2>3. \A p \in Peers : InWindow(p, now)' \subseteq FailsOf(p)'
    BY <1>7, <1>8, <1>9 DEF LimiterInv, FailuresInv
  <2> QED  BY <1>4, <1>5, <2>1, <2>2, <2>3 DEF FailuresInv
<1>13. BoundInv'
  <2>1. Comparing(ip)' = Comparing(ip) \ {r} /\ r \in Comparing(ip)
    <3>1. ip # NoPeer  BY PeerAssumption
    <3> QED  BY <1>1, <1>4, <3>1 DEF Comparing, LimiterInv, LimiterTypeOK
  <2>2. \A p \in Peers : p # ip => Comparing(p)' = Comparing(p)
    <3>1. \A p \in Peers : p # NoPeer  BY PeerAssumption
    <3> QED  BY <1>1, <1>4, <3>1 DEF Comparing, LimiterInv, LimiterTypeOK
  <2>3. Cardinality(Comparing(ip) \ {r}) = Cardinality(Comparing(ip)) - 1
    BY <2>1, CountFacts, FS_RemoveElement
  <2>4. ASSUME NEW p \in Peers
        PROVE  Cardinality(InWindow(p, T)') + Cardinality(Comparing(p)')
                 <= MaxFail + Cardinality(Slots) - 1
    <3>1. CASE p = ip
      <4>1. /\ Cardinality(InWindow(p, T)') = Cardinality(InWindow(p, T)) + 1
            /\ Cardinality(Comparing(p)') = Cardinality(Comparing(p)) - 1
        BY <1>9, <1>10, <2>1, <2>3, <3>1
      <4>2. /\ Cardinality(InWindow(p, T)) \in Nat /\ Cardinality(Comparing(p)) \in Nat
            /\ Cardinality(Slots) \in Nat
        BY CountFacts
      <4> QED  BY <4>1, <4>2, LimiterAssumption DEF LimiterInv, BoundInv
    <3>2. CASE p # ip  BY <1>9, <2>2, <3>2 DEF LimiterInv, BoundInv
    <3> QED  BY <3>1, <3>2
  <2>5. ASSUME NEW p \in Peers, NEW t \in 0..T
        PROVE  Cardinality(InWindow(p, t)') <= MaxFail + Cardinality(Slots) - 1
    <3>1. CASE t = T
      <4>1. Comparing(p)' \subseteq Slots  BY DEF Comparing
      <4>2. Cardinality(Comparing(p)') \in Nat
        BY <4>1, LimiterBoundAssumption, FS_Subset, FS_CardinalityType
      <4>3. Cardinality(InWindow(p, T)') \in Nat
        <5>1. Cardinality(InWindow(p, T)) \in Nat  BY CountFacts
        <5>2. CASE p = ip
          <6>1. Cardinality(InWindow(p, T)') = Cardinality(InWindow(p, T)) + 1
            BY <1>10, <5>2
          <6> QED  BY <5>1, <6>1
        <5>3. CASE p # ip  BY <1>9, <5>1, <5>3
        <5> QED  BY <5>2, <5>3
      <4>4. Cardinality(Slots) \in Nat  BY CountFacts
      <4> QED  BY <2>4, <3>1, <4>2, <4>3, <4>4, LimiterAssumption
    <3>2. CASE t # T
      <4>1. InWindow(p, t)' = InWindow(p, t)  BY <1>9, <3>2
      <4> QED  BY <4>1 DEF LimiterInv, BoundInv
    <3> QED  BY <3>1, <3>2
  <2> QED  BY <1>4, <1>9, <2>4, <2>5 DEF BoundInv
<1>14. RefusedForItsFailures'  BY <1>4 DEF RefusedForItsFailures
<1> QED  BY <1>11, <1>12, <1>13, <1>14 DEF LimiterInv

LEMMA LoggedInKeeps ==
  ASSUME LimiterInv, NEW r \in Slots, LoggedIn(r)
  PROVE  LimiterInv'
<1>1. /\ login' = [login EXCEPT ![r] = NoPeer] /\ refused' = NoPeer
      /\ UNCHANGED <<fails, now, wrong>>
  BY DEF LoggedIn
<1>2. LimiterTypeOK'  BY <1>1 DEF LimiterInv, LimiterTypeOK
<1>3. \A p, t : InWindow(p, t)' = InWindow(p, t) /\ FailedAt(p, t)' = FailedAt(p, t)
  BY <1>1 DEF InWindow, FailedAt
<1>4. FailuresInv'  BY <1>1, <1>3 DEF LimiterInv, FailuresInv, FailsOf
<1>5. ASSUME NEW p \in Peers
      PROVE  /\ Cardinality(Comparing(p)') \in Nat
             /\ Cardinality(Comparing(p)') <= Cardinality(Comparing(p))
  <2>1. Comparing(p)' \subseteq Comparing(p)
    <3>1. p # NoPeer  BY PeerAssumption
    <3> QED  BY <1>1, <3>1 DEF Comparing, LimiterInv, LimiterTypeOK
  <2> QED  BY <2>1, CountFacts, FS_Subset, FS_CardinalityType
<1>6. BoundInv'
  <2>1. ASSUME NEW p \in Peers
        PROVE  Cardinality(InWindow(p, now)) + Cardinality(Comparing(p)')
                 <= MaxFail + Cardinality(Slots) - 1
    <3>1. Cardinality(InWindow(p, now)) \in Nat /\ Cardinality(Comparing(p)) \in Nat
          /\ Cardinality(Slots) \in Nat
      BY CountFacts
    <3> QED  BY <1>5, <3>1, LimiterAssumption DEF LimiterInv, BoundInv
  <2> QED  BY <1>1, <1>3, <2>1 DEF LimiterInv, BoundInv
<1>7. RefusedForItsFailures'  BY <1>1 DEF RefusedForItsFailures
<1> QED  BY <1>2, <1>4, <1>6, <1>7 DEF LimiterInv

\* A later window has no more of the failures so far.
LEMMA TickKeeps ==
  ASSUME LimiterInv, Tick
  PROVE  LimiterInv'
<1>1. now' = now + 1 /\ refused' = NoPeer /\ UNCHANGED <<fails, login, wrong>> /\ now \in Nat
  BY DEF Tick, LimiterInv, FailuresInv
<1>2. LimiterTypeOK'  BY <1>1 DEF LimiterInv, LimiterTypeOK
<1>3. \A p, t : InWindow(p, t)' = InWindow(p, t) /\ FailedAt(p, t)' = FailedAt(p, t)
  BY <1>1 DEF InWindow, FailedAt
<1>4. \A p : Comparing(p)' = Comparing(p) /\ FailsOf(p)' = FailsOf(p)
  BY <1>1 DEF Comparing, FailsOf
<1>5. ASSUME NEW p PROVE InWindow(p, now + 1) \subseteq InWindow(p, now)
  <2>1. \A f \in wrong : f.at \in 0..now  BY DEF LimiterInv, FailuresInv
  <2> QED  BY <1>1, <2>1, LimiterAssumption DEF InWindow
<1>6. ASSUME NEW p
      PROVE  Cardinality(InWindow(p, now + 1)) <= Cardinality(InWindow(p, now))
  BY <1>5, CountFacts, FS_Subset
<1>7. FailuresInv'
  <2>1. \A p \in Peers : InWindow(p, now + 1) \subseteq FailsOf(p)
    BY <1>5 DEF LimiterInv, FailuresInv
  <2>2. \A p : InWindow(p, now)' = InWindow(p, now + 1)  BY <1>1 DEF InWindow
  <2>3. \A f \in wrong : f.at \in 0..(now + 1)  BY <1>1 DEF LimiterInv, FailuresInv
  <2> QED  BY <1>1, <1>3, <1>4, <2>1, <2>2, <2>3 DEF LimiterInv, FailuresInv
<1>8. ASSUME NEW p \in Peers
      PROVE  Cardinality(InWindow(p, now + 1)) + Cardinality(Comparing(p))
               <= MaxFail + Cardinality(Slots) - 1
  <2>1. /\ Cardinality(InWindow(p, now)) \in Nat /\ Cardinality(Comparing(p)) \in Nat
        /\ Cardinality(InWindow(p, now + 1)) \in Nat /\ Cardinality(Slots) \in Nat
    BY CountFacts
  <2> QED  BY <1>6, <2>1, LimiterAssumption DEF LimiterInv, BoundInv
<1>9. ASSUME NEW p \in Peers, NEW t \in 0..(now + 1)
      PROVE  Cardinality(InWindow(p, t)) <= MaxFail + Cardinality(Slots) - 1
  <2>1. CASE t \in 0..now  BY <2>1 DEF LimiterInv, BoundInv
  <2>2. CASE t = now + 1
    <3>1. /\ Cardinality(InWindow(p, now + 1)) \in Nat /\ Cardinality(Comparing(p)) \in Nat
          /\ Cardinality(Slots) \in Nat
      BY CountFacts
    <3> QED  BY <1>8, <2>2, <3>1, LimiterAssumption
  <2> QED  BY <1>1, <2>1, <2>2
<1>10. BoundInv'
  <2>1. \A p : InWindow(p, now)' = InWindow(p, now + 1)  BY <1>1 DEF InWindow
  <2> QED  BY <1>1, <1>3, <1>4, <1>8, <1>9, <2>1 DEF BoundInv
<1>11. RefusedForItsFailures'  BY <1>1 DEF RefusedForItsFailures
<1> QED  BY <1>2, <1>7, <1>10, <1>11 DEF LimiterInv

LEMMA LimiterInvInit == LimiterInit => LimiterInv
<1> SUFFICES ASSUME LimiterInit PROVE LimiterInv  OBVIOUS
<1>1. /\ fails = <<>> /\ now = 0 /\ wrong = {} /\ refused = NoPeer
      /\ login = [r \in Slots |-> NoPeer]
  BY DEF LimiterInit
<1>2. LimiterTypeOK  BY <1>1 DEF LimiterTypeOK
<1>3. \A ip, t : InWindow(ip, t) = {}  BY <1>1 DEF InWindow
<1>4. \A ip \in Peers : Comparing(ip) = {}
  <2>1. \A ip \in Peers : ip # NoPeer  BY PeerAssumption
  <2> QED  BY <1>1, <2>1 DEF Comparing
<1>5. Cardinality({}) = 0 /\ IsFiniteSet({}) /\ Cardinality(Slots) \in Nat
  BY FS_EmptySet, FS_CardinalityType, LimiterBoundAssumption
<1>6. FailuresInv  BY <1>1, <1>3, <1>5 DEF FailuresInv
<1>7. BoundInv
  <2>1. \A ip, t : Cardinality(InWindow(ip, t)) = 0  BY <1>3, <1>5
  <2>2. \A ip \in Peers : Cardinality(Comparing(ip)) = 0  BY <1>4, <1>5
  <2> QED  BY <1>5, <2>1, <2>2, LimiterAssumption DEF BoundInv
<1> QED  BY <1>1, <1>2, <1>6, <1>7 DEF LimiterInv, RefusedForItsFailures

LEMMA LimiterInvStep == LimiterInv /\ [AccessNext]_allVars => LimiterInv'
<1> SUFFICES ASSUME LimiterInv, [AccessNext]_allVars PROVE LimiterInv'  OBVIOUS
<1>1. CASE UNCHANGED limVars
  <2>1. \A p, t : /\ InWindow(p, t)' = InWindow(p, t) /\ FailedAt(p, t)' = FailedAt(p, t)
                  /\ Comparing(p)' = Comparing(p) /\ FailsOf(p)' = FailsOf(p)
    BY <1>1 DEF limVars, InWindow, FailedAt, Comparing, FailsOf
  <2>2. \A p : InWindow(p, now)' = InWindow(p, now)  BY <1>1 DEF limVars, InWindow
  <2>3. LimiterTypeOK'  BY <1>1 DEF limVars, LimiterInv, LimiterTypeOK
  <2>4. FailuresInv'  BY <1>1, <2>1, <2>2 DEF limVars, LimiterInv, FailuresInv
  <2>5. BoundInv'  BY <1>1, <2>1, <2>2 DEF limVars, LimiterInv, BoundInv
  <2>6. RefusedForItsFailures'
    BY <1>1, <2>1 DEF limVars, LimiterInv, RefusedForItsFailures
  <2> QED  BY <2>3, <2>4, <2>5, <2>6 DEF LimiterInv
<1>2. ASSUME NEW r \in Slots, NEW ip \in Peers, Allow(r, ip) PROVE LimiterInv'
  BY <1>2, AllowKeeps
<1>3. ASSUME NEW r \in Slots, Fail(r) \/ LoggedIn(r) PROVE LimiterInv'
  BY <1>3, FailKeeps, LoggedInKeeps
<1>4. CASE Tick  BY <1>4, TickKeeps
<1>5. CASE UNCHANGED allVars  BY <1>1, <1>5 DEF allVars
<1>6. ASSUME NEW r \in Slots, (\E kind : Send(r, kind)) \/ Create(r) \/ Logout(r) \/ Arrives(r)
      PROVE  LimiterInv'
  BY <1>1, <1>6 DEF Send, Create, Logout, Arrives
<1>7. ASSUME NEW r \in Slots, LoginBegins(r) PROVE LimiterInv'
  BY <1>1, <1>2, <1>7, AccessAssumption DEF LoginBegins
<1>8. ASSUME NEW r \in Slots, LoginFails(r) \/ LoginSucceeds(r) \/ OthersLogin(r)
      PROVE  LimiterInv'
  BY <1>2, <1>3, <1>8 DEF LoginFails, LoginSucceeds, OthersLogin
<1>9. CASE TimePasses  BY <1>4, <1>9 DEF TimePasses
<1> QED  BY <1>5, <1>6, <1>7, <1>8, <1>9 DEF AccessNext

-----------------------------------------------------------------------------
(* The visitor of the browser.                                             *)

Vid == jar["oast_vid"]
Out(r) == call[r] # NoCall

\* A request that had no visitor cookie is answered with one, another with none.
CallsInv ==
  /\ DOMAIN jar = {"oast_vid", "oast_sess"} /\ DOMAIN call = Slots
  /\ now \in Nat /\ lastVid \in Nat /\ Vid.until \in Nat
  /\ \A r \in Slots : Out(r) =>
       /\ call[r].pc \in {"sent", "answered"} /\ call[r].until \in Nat
       /\ call[r].pc = "answered" =>
            /\ IF call[r].vid = None THEN call[r].set # None ELSE call[r].set = None
            /\ \A v \in call[r].tells :
                 v = IF call[r].vid = None THEN call[r].set ELSE call[r].vid

\* As long as no two first requests have been out at once: while one is out,
\* the browser has no cookie and no other request is a first one; a request
\* went out with the cookie that the browser still has, if it has not ended; and
\* what the browser was told of goes with that cookie, and not beyond its end.
VisitorInv ==
  /\ \A r \in Slots : Out(r) /\ call[r].vid = None =>
       /\ Vid.value = None
       /\ \A s \in Slots : s # r /\ Out(s) => call[s].vid # None
  /\ \A r \in Slots : Out(r) /\ call[r].vid # None /\ now < call[r].until =>
       Vid.value = call[r].vid /\ call[r].until <= Vid.until
  /\ \A tk \in told :
       /\ Vid.value = tk.vid /\ tk.vid # None
       /\ tk.until \in Nat /\ tk.until <= Vid.until

BrowserInv == CallsInv /\ (raced \/ VisitorInv)

LEMMA BrowserInvInit == AccessInit => BrowserInv
<1> SUFFICES ASSUME AccessInit PROVE BrowserInv  OBVIOUS
<1>1. /\ jar = [c \in {"oast_vid", "oast_sess"} |-> NoCookie] /\ call = [r \in Slots |-> NoCall]
      /\ now = 0 /\ lastVid = 0 /\ told = {}
  BY DEF AccessInit, LimiterInit
<1>2. Vid = NoCookie /\ NoCookie.until = 0 /\ \A r \in Slots : ~Out(r)
  BY <1>1 DEF Vid, Out, NoCookie
<1> QED  BY <1>1, <1>2 DEF BrowserInv, CallsInv, VisitorInv

LEMMA SendKeeps ==
  ASSUME BrowserInv, NEW r \in Slots, NEW kind, Send(r, kind)
  PROVE  BrowserInv'
<1>1. PICK c : c = [pc |-> "sent", kind |-> kind,
                    vid |-> Cookie("oast_vid"), until |-> jar["oast_vid"].until,
                    sess |-> Cookie("oast_sess")]
  OBVIOUS
<1>2. c.pc = "sent" /\ c.vid = Vid.value /\ c.until = Vid.until /\ c # NoCall
  BY <1>1 DEF Cookie, Vid, NoCall
<1>3. /\ call[r] = NoCall /\ call' = [call EXCEPT ![r] = c]
      /\ raced' = (raced \/ (Vid.value = None
                               /\ \E s \in Slots : call[s] # NoCall /\ call[s].vid = None))
      /\ UNCHANGED <<jar, now, lastVid, told>>
  BY <1>1 DEF Send, limVars, Cookie, Vid
<1>4. /\ call'[r] = c /\ \A s \in Slots : s # r => call'[s] = call[s]
      /\ DOMAIN call' = Slots /\ Vid' = Vid
  BY <1>3 DEF BrowserInv, CallsInv, Vid
<1>5. Out(r)' /\ \A s \in Slots : s # r => Out(s)' = Out(s)
  BY <1>2, <1>4 DEF Out
<1>6. CallsInv'
  BY <1>2, <1>3, <1>4, <1>5 DEF BrowserInv, CallsInv
<1>7. ASSUME ~raced' PROVE VisitorInv'
  <2>1. VisitorInv /\ (Vid.value = None => \A s \in Slots : Out(s) => call[s].vid # None)
    BY <1>3, <1>7 DEF BrowserInv, Out
  <2>2. ASSUME NEW q \in Slots, Out(q)', call'[q].vid = None
        PROVE  /\ Vid'.value = None
               /\ \A s \in Slots : s # q /\ Out(s)' => call'[s].vid # None
    <3>1. CASE q = r  BY <1>2, <1>4, <1>5, <2>1, <2>2, <3>1
    <3>2. CASE q # r  BY <1>2, <1>4, <1>5, <2>1, <2>2, <3>2 DEF VisitorInv
    <3> QED  BY <3>1, <3>2
  <2>3. ASSUME NEW q \in Slots, Out(q)', call'[q].vid # None, now' < call'[q].until
        PROVE  Vid'.value = call'[q].vid /\ call'[q].until <= Vid'.until
    <3>1. CASE q = r
      BY <1>2, <1>4, <3>1 DEF BrowserInv, CallsInv
    <3>2. CASE q # r  BY <1>3, <1>4, <1>5, <2>1, <2>3, <3>2 DEF VisitorInv
    <3> QED  BY <3>1, <3>2
  <2> QED  BY <1>3, <1>4, <2>1, <2>2, <2>3 DEF VisitorInv
<1> QED  BY <1>6, <1>7 DEF BrowserInv

\* An answer keeps what its request came with.
LEMMA AnswerKeeps ==
  ASSUME BrowserInv, NEW r \in Slots, NEW sess, NEW tells, Answer(r, sess, tells),
         call[r].pc = "sent", tells \subseteq {Visitor(r).id},
         UNCHANGED <<jar, now, told, raced>>
  PROVE  BrowserInv'
<1>1. /\ Visitor(r).set = IF call[r].vid # None THEN None ELSE lastVid + 1
      /\ Visitor(r).id = IF call[r].vid # None THEN call[r].vid ELSE lastVid + 1
  BY DEF Visitor
<1>2. PICK c : c = [pc |-> "answered", vid |-> call[r].vid, until |-> call[r].until,
                    set |-> Visitor(r).set, sess |-> sess, tells |-> tells]
  OBVIOUS
<1>3. /\ c.pc = "answered" /\ c.vid = call[r].vid /\ c.until = call[r].until
      /\ c.set = Visitor(r).set /\ c.tells = tells /\ c # NoCall
  BY <1>2 DEF NoCall
<1>4. /\ call' = [call EXCEPT ![r] = c]
      /\ lastVid' = IF Visitor(r).set = None THEN lastVid ELSE Visitor(r).set
  BY <1>2 DEF Answer
<1>5. /\ call'[r] = c /\ \A s \in Slots : s # r => call'[s] = call[s]
      /\ DOMAIN call' = Slots /\ Vid' = Vid
  BY <1>4 DEF BrowserInv, CallsInv, Vid
<1>6. Out(r) /\ Out(r)' /\ \A s \in Slots : s # r => Out(s)' = Out(s)
  BY <1>3, <1>5 DEF Out, NoCall
<1>7. lastVid \in Nat /\ lastVid' \in Nat /\ lastVid + 1 # None
  BY <1>1, <1>4 DEF BrowserInv, CallsInv, None
<1>8. CallsInv'
  <2>1. /\ IF c.vid = None THEN c.set # None ELSE c.set = None
        /\ \A v \in c.tells : v = IF c.vid = None THEN c.set ELSE c.vid
    BY <1>1, <1>3, <1>7
  <2>2. c.until \in Nat  BY <1>3, <1>6 DEF BrowserInv, CallsInv
  <2> QED  BY <1>3, <1>5, <1>6, <1>7, <2>1, <2>2 DEF BrowserInv, CallsInv
<1>9. ASSUME VisitorInv PROVE VisitorInv'
  <2>1. \A s \in Slots : /\ Out(s)' = Out(s)
                         /\ call'[s].vid = call[s].vid /\ call'[s].until = call[s].until
    <3> SUFFICES ASSUME NEW s \in Slots
                 PROVE  /\ Out(s)' = Out(s)
                        /\ call'[s].vid = call[s].vid /\ call'[s].until = call[s].until
      OBVIOUS
    <3>1. CASE s = r  BY <1>3, <1>5, <1>6, <3>1
    <3>2. CASE s # r  BY <1>5, <1>6, <3>2
    <3> QED  BY <3>1, <3>2
  <2> QED  BY <1>5, <1>9, <2>1 DEF VisitorInv
<1> QED  BY <1>8, <1>9 DEF BrowserInv

LEMMA ArrivesKeeps ==
  ASSUME BrowserInv, NEW r \in Slots, Arrives(r)
  PROVE  BrowserInv'
<1> DEFINE set == call[r].set
           ends == IF set = None THEN call[r].until ELSE now + VisitorTTL
<1>1. /\ call[r].pc = "answered" /\ Out(r)
      /\ call' = [call EXCEPT ![r] = NoCall]
      /\ jar' = [jar EXCEPT
                   !["oast_vid"] = IF set = None THEN @ ELSE [value |-> set, until |-> ends],
                   !["oast_sess"] = IF call[r].sess = <<>> THEN @ ELSE call[r].sess[1]]
      /\ told' = told \cup {[vid |-> v, until |-> ends] : v \in {u \in call[r].tells : now < ends}}
      /\ UNCHANGED <<now, lastVid, raced>>
  BY DEF Arrives, Out, NoCall, limVars
<1>2. /\ now \in Nat /\ call[r].until \in Nat
      /\ IF call[r].vid = None THEN set # None ELSE set = None
      /\ \A v \in call[r].tells : v = IF call[r].vid = None THEN set ELSE call[r].vid
  BY <1>1 DEF BrowserInv, CallsInv
<1>3. /\ DOMAIN call' = Slots /\ DOMAIN jar' = {"oast_vid", "oast_sess"}
      /\ ~Out(r)' /\ \A s \in Slots : s # r => call'[s] = call[s] /\ Out(s)' = Out(s)
  BY <1>1 DEF BrowserInv, CallsInv, Out
<1>4. /\ set = None => Vid' = Vid
      /\ set # None => Vid'.value = set /\ Vid'.until = ends
  BY <1>1 DEF BrowserInv, CallsInv, Vid
<1>5. ends \in Nat  BY <1>2, AccessAssumption
<1>6. \A tk \in told' \ told :
        now < ends /\ tk.vid \in call[r].tells /\ tk.until = ends
  BY <1>1
<1> HIDE DEF set, ends
<1>7. CallsInv'
  BY <1>1, <1>3, <1>4, <1>5 DEF BrowserInv, CallsInv
<1>8. ASSUME VisitorInv PROVE VisitorInv'
  <2>1. CASE set = None
    <3>1. call[r].vid # None /\ ends = call[r].until /\ Vid' = Vid
      BY <1>2, <1>4, <2>1 DEF ends
    <3>2. \A tk \in told' \ told :
            /\ Vid.value = tk.vid /\ tk.vid # None
            /\ tk.until \in Nat /\ tk.until <= Vid.until
      BY <1>1, <1>2, <1>5, <1>6, <1>8, <2>1, <3>1 DEF VisitorInv
    <3> QED  BY <1>1, <1>3, <1>8, <3>1, <3>2 DEF VisitorInv
  <2>2. CASE set # None
    <3>1. /\ call[r].vid = None /\ Vid.value = None
          /\ \A s \in Slots : s # r /\ Out(s) => call[s].vid # None
      BY <1>1, <1>2, <1>8, <2>2 DEF VisitorInv
    <3>2. told = {}  BY <1>8, <3>1 DEF VisitorInv
    <3>3. \A s \in Slots : s # r /\ Out(s) => ~(now < call[s].until)
      BY <1>8, <3>1 DEF VisitorInv
    <3>4. \A tk \in told' : tk.vid = set /\ tk.until = ends
      BY <1>2, <1>6, <3>1, <3>2
    <3> QED  BY <1>1, <1>3, <1>4, <1>5, <2>2, <3>1, <3>3, <3>4 DEF VisitorInv
  <2> QED  BY <2>1, <2>2
<1> QED  BY <1>1, <1>7, <1>8 DEF BrowserInv

LEMMA TimePassesKeeps ==
  ASSUME BrowserInv, TimePasses
  PROVE  BrowserInv'
<1>1. /\ now' = now + 1 /\ now \in Nat /\ UNCHANGED <<call, lastVid, raced>>
      /\ jar' = [c \in DOMAIN jar |-> IF now' < jar[c].until THEN jar[c] ELSE NoCookie]
      /\ told' = {tk \in told : now' < tk.until}
  BY DEF TimePasses, Tick, BrowserInv, CallsInv
<1>2. /\ Vid' = IF now + 1 < Vid.until THEN Vid ELSE NoCookie
      /\ DOMAIN jar' = DOMAIN jar /\ Vid.until \in Nat
      /\ NoCookie.value = None /\ NoCookie.until = 0
  BY <1>1 DEF BrowserInv, CallsInv, Vid, NoCookie
<1>3. \A r \in Slots : Out(r)' = Out(r)  BY <1>1 DEF Out
<1>4. CallsInv'  BY <1>1, <1>2, <1>3 DEF BrowserInv, CallsInv
<1>5. ASSUME VisitorInv PROVE VisitorInv'
  <2>1. \A r \in Slots : Out(r) /\ call[r].vid = None =>
          /\ Vid'.value = None
          /\ \A s \in Slots : s # r /\ Out(s) => call[s].vid # None
    BY <1>2, <1>5 DEF VisitorInv
  <2>2. ASSUME NEW r \in Slots, Out(r), call[r].vid # None, now + 1 < call[r].until
        PROVE  Vid'.value = call[r].vid /\ call[r].until <= Vid'.until
    <3>1. call[r].until \in Nat  BY <2>2 DEF BrowserInv, CallsInv
    <3>2. Vid.value = call[r].vid /\ call[r].until <= Vid.until
      BY <1>1, <1>5, <2>2, <3>1 DEF VisitorInv
    <3> QED  BY <1>1, <1>2, <2>2, <3>1, <3>2
  <2>3. ASSUME NEW tk \in told'
        PROVE  /\ Vid'.value = tk.vid /\ tk.vid # None
               /\ tk.until \in Nat /\ tk.until <= Vid'.until
    <3>1. tk \in told /\ now + 1 < tk.until  BY <1>1
    <3>2. /\ Vid.value = tk.vid /\ tk.vid # None
          /\ tk.until \in Nat /\ tk.until <= Vid.until
      BY <1>5, <3>1 DEF VisitorInv
    <3> QED  BY <1>1, <1>2, <3>1, <3>2
  <2> QED  BY <1>1, <1>3, <2>1, <2>2, <2>3 DEF VisitorInv
<1> QED  BY <1>1, <1>4, <1>5 DEF BrowserInv

\* A comparison of the browser's password is that of a request to log in.
LoginInv ==
  /\ DOMAIN call = Slots
  /\ login \in [Slots -> Peers \cup {NoPeer}]
  /\ \A r \in Slots : login[r] = Browser =>
       gated /\ call[r].pc = "sent" /\ call[r].kind = "login"

LEMMA LoginInvStep == LoginInv /\ [AccessNext]_allVars => LoginInv'
<1> SUFFICES ASSUME LoginInv, [AccessNext]_allVars PROVE LoginInv'  OBVIOUS
<1>1. Browser # NoPeer /\ Browser \in Peers  BY AccessAssumption, PeerAssumption
<1>2. ASSUME NEW r \in Slots, NEW kind, Send(r, kind) PROVE LoginInv'
  BY <1>1, <1>2 DEF Send, LoginInv, limVars
<1>3. ASSUME NEW r \in Slots, login[r] # Browser, UNCHANGED <<login, gated>>,
             \A s \in Slots : s # r => call'[s] = call[s], DOMAIN call' = Slots
      PROVE  LoginInv'
  BY <1>3 DEF LoginInv
<1>4. ASSUME NEW r \in Slots, Create(r) \/ Logout(r) \/ Arrives(r) PROVE LoginInv'
  <2>1. login[r] # Browser  BY <1>4 DEF Create, Logout, Arrives, LoginInv
  <2>2. /\ UNCHANGED <<login, gated>> /\ DOMAIN call' = Slots
        /\ \A s \in Slots : s # r => call'[s] = call[s]
    BY <1>4 DEF Create, Logout, Arrives, Answer, limVars, LoginInv
  <2> QED  BY <1>3, <2>1, <2>2
<1>5. ASSUME NEW r \in Slots, LoginBegins(r) PROVE LoginInv'
  <2>1. CASE gated
    <3>1. /\ login[r] # Browser /\ call[r].pc = "sent" /\ call[r].kind = "login" /\ gated' = gated
          /\ login' = [login EXCEPT ![r] = Browser] \/ login' = login
      BY <1>1, <1>5, <2>1 DEF LoginBegins, Allow
    <3>2. IF login'[r] = Browser THEN call' = call ELSE Answer(r, <<>>, {})
      BY <1>5, <2>1 DEF LoginBegins
    <3>3. CASE login'[r] = Browser  BY <1>1, <2>1, <3>1, <3>2, <3>3 DEF LoginInv
    <3>4. CASE login'[r] # Browser
      <4>1. login' = login  BY <3>1, <3>4 DEF LoginInv
      <4>2. DOMAIN call' = Slots /\ \A s \in Slots : s # r => call'[s] = call[s]
        BY <3>2, <3>4 DEF Answer, LoginInv
      <4> QED  BY <1>3, <3>1, <4>1, <4>2
    <3> QED  BY <3>3, <3>4
  <2>2. CASE ~gated
    <3>1. login[r] # Browser  BY <2>2 DEF LoginInv
    <3>2. /\ UNCHANGED <<login, gated>> /\ DOMAIN call' = Slots
          /\ \A s \in Slots : s # r => call'[s] = call[s]
      BY <1>5, <2>2 DEF LoginBegins, Answer, limVars, LoginInv
    <3> QED  BY <1>3, <3>1, <3>2
  <2> QED  BY <2>1, <2>2
<1>6. ASSUME NEW r \in Slots, LoginFails(r) \/ LoginSucceeds(r) PROVE LoginInv'
  <2>1. /\ login' = [login EXCEPT ![r] = NoPeer] /\ gated' = gated /\ DOMAIN call' = Slots
        /\ \A s \in Slots : s # r => call'[s] = call[s]
    BY <1>6 DEF LoginFails, LoginSucceeds, Fail, LoggedIn, Answer, LoginInv
  <2> QED  BY <1>1, <2>1 DEF LoginInv
<1>7. ASSUME NEW r \in Slots, OthersLogin(r) PROVE LoginInv'
  <2>1. UNCHANGED <<call, gated>>  BY <1>7 DEF OthersLogin, accVars
  <2>2. PICK ip \in (Peers \ {Browser}) \cup {NoPeer} :
          login' = [login EXCEPT ![r] = ip] \/ login' = login
    BY <1>7 DEF OthersLogin, Allow, Fail, LoggedIn
  <2> QED  BY <1>1, <2>1, <2>2 DEF LoginInv
<1>8. CASE TimePasses \/ UNCHANGED allVars
  BY <1>8 DEF TimePasses, Tick, LoginInv, allVars, limVars, accVars
<1> QED  BY <1>2, <1>4, <1>5, <1>6, <1>7, <1>8 DEF AccessNext

LEMMA BrowserInvStep == LoginInv /\ BrowserInv /\ [AccessNext]_allVars => BrowserInv'
<1> SUFFICES ASSUME LoginInv, BrowserInv, [AccessNext]_allVars PROVE BrowserInv'  OBVIOUS
<1>1. CASE UNCHANGED <<now, jar, call, lastVid, told, raced>>
  <2>1. Vid' = Vid /\ \A r \in Slots : Out(r)' = Out(r)  BY <1>1 DEF Vid, Out
  <2>2. CallsInv' = CallsInv  BY <1>1, <2>1 DEF CallsInv
  <2>3. VisitorInv' = VisitorInv  BY <1>1, <2>1 DEF VisitorInv
  <2> QED  BY <1>1, <2>2, <2>3 DEF BrowserInv
<1>2. CASE UNCHANGED allVars
  BY <1>1, <1>2 DEF allVars, limVars, accVars
<1>3. ASSUME NEW r \in Slots, Create(r) \/ Logout(r) PROVE BrowserInv'
  <2>1. PICK sess, tells : Answer(r, sess, tells) /\ tells \subseteq {Visitor(r).id}
    BY <1>3 DEF Create, Logout
  <2>2. call[r].pc = "sent" /\ UNCHANGED <<jar, now, told, raced>>
    BY <1>3 DEF Create, Logout, limVars
  <2> QED  BY <2>1, <2>2, AnswerKeeps
<1>4. ASSUME NEW r \in Slots, LoginBegins(r) PROVE BrowserInv'
  <2>1. call[r].pc = "sent" /\ UNCHANGED <<jar, now, told, raced>>
    BY <1>4 DEF LoginBegins, Allow, limVars
  <2>2. CASE UNCHANGED <<call, lastVid>>  BY <1>1, <2>1, <2>2
  <2>3. CASE Answer(r, <<>>, {})
    <3>1. {} \subseteq {Visitor(r).id}  OBVIOUS
    <3> QED  BY <2>1, <2>3, <3>1, AnswerKeeps
  <2> QED  BY <1>4, <2>2, <2>3 DEF LoginBegins
<1>5. ASSUME NEW r \in Slots, OthersLogin(r) PROVE BrowserInv'
  <2>1. UNCHANGED <<now, accVars>>
    BY <1>5 DEF OthersLogin, Allow, Fail, LoggedIn
  <2> QED  BY <1>1, <2>1 DEF accVars
<1>6. ASSUME NEW r \in Slots, LoginFails(r) \/ LoginSucceeds(r) PROVE BrowserInv'
  <2>1. PICK sess : Answer(r, sess, {})  BY <1>6 DEF LoginFails, LoginSucceeds
  <2>2. call[r].pc = "sent" /\ UNCHANGED <<jar, now, told, raced>>
    BY <1>6 DEF LoginFails, LoginSucceeds, Fail, LoggedIn, LoginInv
  <2>3. {} \subseteq {Visitor(r).id}  OBVIOUS
  <2> QED  BY <2>1, <2>2, <2>3, AnswerKeeps
<1> QED
  BY <1>2, <1>3, <1>4, <1>5, <1>6, SendKeeps, ArrivesKeeps, TimePassesKeeps DEF AccessNext

-----------------------------------------------------------------------------
(* The gate.                                                               *)

\* A stamp that the browser has or that is on its way is not newer than the last
\* right password; a right password is forgotten when its session has aged.
Backed(v, t, last) ==
  v # None => v \in Int /\ (t - v <= SessMaxAge => last # None /\ v <= last)

GateInv ==
  /\ DOMAIN jar = {"oast_vid", "oast_sess"}
  /\ now \in Nat /\ (right # None => right \in 0..now)
  /\ Backed(jar["oast_sess"].value, now, right)
  /\ \A r \in Slots :
       /\ call[r].pc = "sent" => Backed(call[r].sess, now, right)
       /\ call[r].pc = "answered" => call[r].sess = <<>> \/ Backed(call[r].sess[1].value, now, right)

GateStep ==
  \A r \in Slots :
    gated /\ call[r].pc = "sent" /\ call'[r].pc = "answered" /\ call'[r].tells # {} =>
      right # None

\* Time alone unbacks nothing.
LEMMA BackedFacts ==
  ASSUME GateInv, NEW v, Backed(v, now, right)
  PROVE  /\ UNCHANGED <<now, right>> => Backed(v, now', right')
         /\ now' = now /\ right' = now => Backed(v, now', right')
         /\ TimePasses => Backed(v, now', right')
<1>1. now \in Nat /\ (right # None => right \in 0..now) /\ None = -1
  BY DEF GateInv, None
<1>2. ASSUME UNCHANGED <<now, right>> PROVE Backed(v, now', right')  BY <1>2 DEF Backed
<1>3. ASSUME now' = now, right' = now PROVE Backed(v, now', right')
  BY <1>1, <1>3, AccessAssumption DEF Backed
<1>4. ASSUME TimePasses PROVE Backed(v, now', right')
  <2>1. now' = now + 1  BY <1>4 DEF TimePasses, Tick
  <2>2. right' = IF right # None /\ now' - right <= SessMaxAge THEN right ELSE None
    BY <1>4 DEF TimePasses
  <2> QED  BY <1>1, <2>1, <2>2, AccessAssumption DEF Backed
<1> QED  BY <1>2, <1>3, <1>4

LEMMA GateInvInit == AccessInit => GateInv
  BY DEF AccessInit, LimiterInit, GateInv, Backed, NoCookie, NoCall, None

LEMMA GateInvStep == LoginInv /\ GateInv /\ [AccessNext]_allVars => GateInv' /\ GateStep
<1> SUFFICES ASSUME LoginInv, GateInv, [AccessNext]_allVars PROVE GateInv' /\ GateStep
  OBVIOUS
<1>1. now \in Nat /\ (right # None => right \in 0..now) /\ None = -1
  BY DEF GateInv, None
\* What a request carries, when the others carry what they did.
<1>2. ASSUME NEW r \in Slots, UNCHANGED <<now, right, jar>>,
             \A s \in Slots : s # r => call'[s] = call[s],
             call'[r].pc = "sent" => call'[r] = call[r] \/ call'[r].sess = jar["oast_sess"].value,
             call'[r].pc = "answered" => call'[r] = call[r] \/ call'[r].sess = <<>>
                                           \/ call'[r].sess[1].value = None
      PROVE  GateInv'
  <2>1. \A v : Backed(v, now', right') = Backed(v, now, right)  BY <1>2 DEF Backed
  <2>2. Backed(None, now, right)  BY DEF Backed
  <2>3. ASSUME NEW s \in Slots
        PROVE  /\ call'[s].pc = "sent" => Backed(call'[s].sess, now, right)
               /\ call'[s].pc = "answered" => call'[s].sess = <<>> \/ Backed(call'[s].sess[1].value, now, right)
    <3>1. CASE s # r  BY <1>2, <3>1 DEF GateInv
    <3>2. CASE s = r /\ call'[r] = call[r]  BY <3>2 DEF GateInv
    <3>3. CASE s = r /\ call'[r] # call[r]
      <4>1. CASE call'[r].pc = "sent"  BY <1>2, <3>3, <4>1 DEF GateInv
      <4>2. CASE call'[r].pc = "answered"  BY <1>2, <2>2, <3>3, <4>2
      <4> QED  BY <3>3, <4>1, <4>2
    <3> QED  BY <3>1, <3>2, <3>3
  <2>4. Backed(jar["oast_sess"].value, now, right)  BY DEF GateInv
  <2> QED  BY <1>2, <2>1, <2>3, <2>4 DEF GateInv, Backed
<1>3. ASSUME NEW r \in Slots, \A s \in Slots : s # r => call'[s] = call[s],
             gated /\ call[r].pc = "sent" /\ call'[r].pc = "answered" /\ call'[r].tells # {}
               => right # None
      PROVE  GateStep
  <2>1. \A s \in Slots : s # r => ~(call[s].pc = "sent" /\ call'[s].pc = "answered")
    BY <1>3
  <2> QED  BY <1>3, <2>1 DEF GateStep
<1>4. ASSUME NEW r \in Slots, NEW kind, Send(r, kind) PROVE GateInv' /\ GateStep
  <2>1. PICK c : c = [pc |-> "sent", kind |-> kind,
                      vid |-> Cookie("oast_vid"), until |-> jar["oast_vid"].until,
                      sess |-> Cookie("oast_sess")]
    OBVIOUS
  <2>2. call' = [call EXCEPT ![r] = c] /\ UNCHANGED <<now, right, jar>> /\ call[r] = NoCall
    BY <1>4, <2>1 DEF Send, limVars
  <2>3. /\ call'[r] = c /\ c.pc = "sent" /\ c.sess = jar["oast_sess"].value
        /\ \A s \in Slots : s # r => call'[s] = call[s]
    BY <2>1, <2>2 DEF LoginInv, Cookie
  <2> QED  BY <1>2, <1>3, <2>2, <2>3
<1>5. ASSUME NEW r \in Slots, NEW sess, NEW tells, Answer(r, sess, tells)
      PROVE  /\ call'[r].pc = "answered" /\ call'[r].sess = sess /\ call'[r].tells = tells
             /\ \A s \in Slots : s # r => call'[s] = call[s]
  BY <1>5 DEF Answer, LoginInv
<1>6. ASSUME NEW r \in Slots, Create(r) PROVE GateInv' /\ GateStep
  <2>1. PICK tells : Answer(r, <<>>, tells)
                       /\ (tells # {} => ~gated \/ ValidSession(call[r].sess))
    BY <1>6 DEF Create
  <2>2. UNCHANGED <<now, right, jar>> /\ call[r].pc = "sent"  BY <1>6 DEF Create, limVars
  <2>3. ValidSession(call[r].sess) => right # None
    BY <2>2 DEF ValidSession, GateInv, Backed
  <2>4. /\ call'[r].pc = "answered" /\ call'[r].sess = <<>> /\ call'[r].tells = tells
        /\ \A s \in Slots : s # r => call'[s] = call[s]
    BY <1>5, <2>1
  <2> QED  BY <1>2, <1>3, <2>1, <2>2, <2>3, <2>4
<1>7. ASSUME NEW r \in Slots, Logout(r) PROVE GateInv' /\ GateStep
  <2>1. Answer(r, <<NoCookie>>, {}) /\ UNCHANGED <<now, right, jar>>
    BY <1>7 DEF Logout, limVars
  <2>2. <<NoCookie>>[1].value = None  BY DEF NoCookie
  <2>3. /\ call'[r].pc = "answered" /\ call'[r].sess = <<NoCookie>> /\ call'[r].tells = {}
        /\ \A s \in Slots : s # r => call'[s] = call[s]
    BY <1>5, <2>1
  <2> QED  BY <1>2, <1>3, <2>1, <2>2, <2>3
<1>8. ASSUME NEW r \in Slots, LoginBegins(r) \/ LoginFails(r) PROVE GateInv' /\ GateStep
  <2>1. UNCHANGED <<now, right, jar>>
    BY <1>8 DEF LoginBegins, LoginFails, Allow, Fail, limVars
  <2>2. CASE call' = call  BY <1>2, <1>3, <2>1, <2>2
  <2>3. CASE Answer(r, <<>>, {})
    <3>1. /\ call'[r].pc = "answered" /\ call'[r].sess = <<>> /\ call'[r].tells = {}
          /\ \A s \in Slots : s # r => call'[s] = call[s]
      BY <1>5, <2>3
    <3> QED  BY <1>2, <1>3, <2>1, <3>1
  <2> QED  BY <1>8, <2>2, <2>3 DEF LoginBegins, LoginFails
<1>9. ASSUME NEW r \in Slots, LoginSucceeds(r) PROVE GateInv' /\ GateStep
  <2>1. PICK k : k = [value |-> now, until |-> now + SessMaxAge]  OBVIOUS
  <2>2. /\ Answer(r, <<k>>, {}) /\ now' = now /\ right' = now /\ jar' = jar /\ k.value = now
    BY <1>9, <2>1 DEF LoginSucceeds, LoggedIn
  <2>3. /\ call'[r].pc = "answered" /\ call'[r].sess = <<k>> /\ call'[r].tells = {}
        /\ \A s \in Slots : s # r => call'[s] = call[s]
    BY <1>5, <2>2
  <2>4. GateStep  BY <1>3, <2>3
  <2>5. \A v : Backed(v, now, right) => Backed(v, now', right')  BY <2>2, BackedFacts
  <2>6. Backed(now, now', right')  BY <1>1, <2>2 DEF Backed
  <2>7. ASSUME NEW s \in Slots
        PROVE  /\ call'[s].pc = "sent" => Backed(call'[s].sess, now', right')
               /\ call'[s].pc = "answered" =>
                    call'[s].sess = <<>> \/ Backed(call'[s].sess[1].value, now', right')
    <3>1. CASE s # r  BY <2>3, <2>5, <3>1 DEF GateInv
    <3>2. CASE s = r
      <4>1. call'[s].sess[1] = k  BY <2>3, <3>2
      <4> QED  BY <2>2, <2>3, <2>6, <3>2, <4>1
    <3> QED  BY <3>1, <3>2
  <2>8. Backed(jar["oast_sess"].value, now', right')  BY <2>5 DEF GateInv
  <2> QED  BY <1>1, <2>2, <2>4, <2>7, <2>8 DEF GateInv
<1>10. ASSUME NEW r \in Slots, OthersLogin(r) PROVE GateInv' /\ GateStep
  <2>1. UNCHANGED <<now, accVars>>
    BY <1>10 DEF OthersLogin, Allow, Fail, LoggedIn
  <2> QED  BY <1>2, <1>3, <2>1 DEF accVars
<1>11. ASSUME NEW r \in Slots, Arrives(r) PROVE GateInv' /\ GateStep
  <2>1. /\ call[r].pc = "answered" /\ call' = [call EXCEPT ![r] = NoCall]
        /\ UNCHANGED <<now, right>> /\ DOMAIN jar' = DOMAIN jar
        /\ jar'["oast_sess"] = IF call[r].sess = <<>> THEN jar["oast_sess"] ELSE call[r].sess[1]
    BY <1>11 DEF Arrives, limVars, GateInv
  <2>2. /\ call'[r] = NoCall /\ NoCall.pc = "none"
        /\ \A s \in Slots : s # r => call'[s] = call[s]
    BY <2>1 DEF LoginInv, NoCall
  <2>3. GateStep  BY <1>3, <2>1, <2>2
  <2>4. Backed(jar'["oast_sess"].value, now, right)  BY <2>1 DEF GateInv
  <2>5. ASSUME NEW s \in Slots
        PROVE  /\ call'[s].pc = "sent" => Backed(call'[s].sess, now, right)
               /\ call'[s].pc = "answered" =>
                    call'[s].sess = <<>> \/ Backed(call'[s].sess[1].value, now, right)
    BY <2>2 DEF GateInv
  <2> QED  BY <1>1, <2>1, <2>3, <2>4, <2>5 DEF GateInv
<1>12. CASE TimePasses
  <2>1. call' = call /\ now' = now + 1 /\ DOMAIN jar' = DOMAIN jar
    BY <1>12 DEF TimePasses, Tick
  <2>2. right' # None => right' \in 0..now'
    BY <1>1, <1>12, <2>1 DEF TimePasses
  <2>3. \A v : Backed(v, now, right) => Backed(v, now', right')  BY <1>12, BackedFacts
  <2>4. jar'["oast_sess"].value = jar["oast_sess"].value \/ jar'["oast_sess"].value = None
    <3>1. jar'["oast_sess"] = jar["oast_sess"] \/ jar'["oast_sess"] = NoCookie
      BY <1>12 DEF TimePasses, GateInv
    <3> QED  BY <3>1 DEF NoCookie
  <2>5. Backed(None, now', right')  BY DEF Backed
  <2>6. Backed(jar'["oast_sess"].value, now', right')
    BY <2>3, <2>4, <2>5 DEF GateInv
  <2>7. GateStep  BY <2>1 DEF GateStep
  <2> QED  BY <1>1, <2>1, <2>2, <2>3, <2>6, <2>7 DEF GateInv
<1>13. CASE UNCHANGED allVars
  <2>1. UNCHANGED <<now, jar, right, call>>  BY <1>13 DEF allVars, limVars, accVars
  <2> QED  BY <2>1 DEF GateInv, GateStep
<1> QED
  BY <1>4, <1>6, <1>7, <1>8, <1>9, <1>10, <1>11, <1>12, <1>13 DEF AccessNext

-----------------------------------------------------------------------------

AccessInv == LimiterInv /\ LoginInv /\ BrowserInv /\ GateInv

LEMMA AccessInvHolds == AccessSpec => []AccessInv
<1>1. AccessInit => AccessInv
  <2> SUFFICES ASSUME AccessInit PROVE AccessInv  OBVIOUS
  <2>1. LimiterInit  BY DEF AccessInit
  <2>2. LoginInv
    <3>1. Browser # NoPeer  BY AccessAssumption, PeerAssumption
    <3> QED  BY <2>1, <3>1 DEF AccessInit, LimiterInit, LoginInv
  <2> QED  BY <2>1, <2>2, LimiterInvInit, BrowserInvInit, GateInvInit DEF AccessInv
<1>2. AccessInv /\ [AccessNext]_allVars => AccessInv'
  BY LimiterInvStep, LoginInvStep, BrowserInvStep, GateInvStep DEF AccessInv
<1> QED  BY <1>1, <1>2, PTL DEF AccessSpec

\* The lists hold failures of their peers, and none is empty, for all peers.
THEOREM LimiterTypesHold == AccessSpec => []LimiterTypeOK
<1>1. AccessInv => LimiterTypeOK  BY DEF AccessInv, LimiterInv
<1> QED  BY <1>1, AccessInvHolds, PTL

\* However many logins a peer has in progress at once, and however they follow
\* each other, no window has more of its failures than that and the limit.
THEOREM FailuresStayBounded == AccessSpec => []FailuresAreBounded
<1>1. AccessInv => FailuresAreBounded
  BY DEF AccessInv, LimiterInv, BoundInv, FailuresAreBounded
<1> QED  BY <1>1, AccessInvHolds, PTL

\* A peer that allow() refuses has the failures for it in the last window.
THEOREM RefusedWithReason == AccessSpec => []RefusedForItsFailures
<1>1. AccessInv => RefusedForItsFailures  BY DEF AccessInv, LimiterInv
<1> QED  BY <1>1, AccessInvHolds, PTL

\* A browser keeps the tokens that it was told of until the cookie of its first
\* request ends, whatever it has in flight, unless two first requests overlapped.
THEOREM ToldStaysVisible == AccessSpec => []ToldTokenVisible
<1>1. AccessInv => ToldTokenVisible
  BY DEF AccessInv, BrowserInv, VisitorInv, ToldTokenVisible, Cookie, Vid
<1> QED  BY <1>1, AccessInvHolds, PTL

\* Nobody passes the gate without the right password of the last sessMaxAge, in
\* whatever order the answers to logins and logouts arrive.
THEOREM GateIsClosed == AccessSpec => GateNeedsLogin
<1>1. AccessInv /\ [AccessNext]_allVars => GateStep
  BY GateInvStep DEF AccessInv
<1> QED  BY <1>1, AccessInvHolds, PTL DEF AccessSpec, GateNeedsLogin, GateStep
=============================================================================
