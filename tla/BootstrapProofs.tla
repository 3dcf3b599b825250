--------------------------- MODULE BootstrapProofs ---------------------------
(***************************************************************************)
(* Proofs about Resolution and Bootstrap: for every set of names, files    *)
(* and labels, and through any number of restarts, the trie finds the      *)
(* longest zone, agrees with the store and the file, the scan of           *)
(* MatchToken misses no token that was there all along, and a token can be *)
(* called back under the name it was given out with.                       *)
(***************************************************************************)
EXTENDS Bootstrap, WellFoundedInduction, TLAPS

Entries == UNION {Range(c) : c \in Configs}
Under(l, name) == <<l>> \o name
Spelled == Hosts \cup {e.name : e \in Entries}
             \cup {Under(l, e.name) : l \in Labels, e \in Entries}
AllLabels == UNION {Range(Lower(name)) : name \in Spelled}
Paths == Seq(AllLabels)

-----------------------------------------------------------------------------
(* Sequences and the largest of some numbers.                              *)

LEMMA MaxOf ==
  ASSUME NEW n \in Nat, NEW S \in SUBSET (0..n), S # {}
  PROVE  Max(S) \in S /\ \A y \in S : y <= Max(S)
<1> DEFINE T == {k \in Nat : n - k \in S}
           R == OpToRel(<, Nat)
<1>1. IsWellFoundedOn(R, Nat)  BY NatLessThanWellFounded
<1>2. T \subseteq Nat /\ T # {}
  <2>1. PICK x \in S : TRUE  OBVIOUS
  <2>2. n - x \in Nat /\ n - (n - x) = x  BY <2>1
  <2>3. n - x \in T  BY <2>1, <2>2
  <2> QED  BY <2>3
<1>3. \A k, l \in Nat : l < k => <<l, k>> \in R
  BY DEF OpToRel
<1>4. \E x \in T : \A y \in T : ~ (<<y, x>> \in R)
  <2> HIDE DEF T, R
  <2> QED  BY <1>1, <1>2, WFMin
<1>5. PICK k \in T : \A y \in T : ~ (<<y, k>> \in R)  BY <1>4
<1>6. ASSUME NEW y \in S PROVE n - k >= y
  <2>1. k \in Nat /\ y \in Nat /\ n - y \in Nat  OBVIOUS
  <2>2. n - (n - y) = y  BY <2>1
  <2>3. n - y \in T  BY <2>1, <2>2
  <2>4. ~(n - y < k)  BY <1>3, <1>5, <2>1, <2>3
  <2> QED  BY <2>1, <2>4
<1>7. Max(S) \in S /\ \A y \in S : Max(S) >= y  BY <1>5, <1>6 DEF Max
<1> QED  BY <1>7

\* The beginning of a path.
LEMMA FirstFacts ==
  ASSUME NEW S, NEW p \in Seq(S), NEW n \in 0..Len(p)
  PROVE  /\ FirstOf(p, n) \in Seq(S) /\ Len(FirstOf(p, n)) = n
         /\ \A i \in 1..n : FirstOf(p, n)[i] = p[i]
         /\ \A m \in 0..n : FirstOf(FirstOf(p, n), m) = FirstOf(p, m)
         /\ n = Len(p) => FirstOf(p, n) = p
<1>1. /\ FirstOf(p, n) \in Seq(S) /\ Len(FirstOf(p, n)) = n
      /\ \A i \in 1..n : FirstOf(p, n)[i] = p[i]
  BY DEF FirstOf
<1>2. ASSUME NEW m \in 0..n PROVE FirstOf(FirstOf(p, n), m) = FirstOf(p, m)
  <2>1. \A q \in Seq(S) : m <= Len(q) =>
          FirstOf(q, m) \in Seq(S) /\ Len(FirstOf(q, m)) = m
            /\ \A i \in 1..m : FirstOf(q, m)[i] = q[i]
    BY DEF FirstOf
  <2>2. \A i \in 1..m : FirstOf(FirstOf(p, n), m)[i] = FirstOf(p, m)[i]
    BY <1>1, <2>1
  <2> QED  BY <1>1, <2>1, <2>2
<1>3. n = Len(p) => FirstOf(p, n) = p
  BY <1>1
<1> QED  BY <1>1, <1>2, <1>3

LEMMA NonEmpty ==
  ASSUME NEW S, NEW s \in Seq(S), s # <<>>
  PROVE  Len(s) \in Nat /\ Len(s) # 0
  OBVIOUS

LEMMA EntryNames ==
  ASSUME NEW e \in Entries
  PROVE  e.name \in Seq(Range(e.name))
<1>1. PICK c \in Configs : e \in Range(c)  BY DEF Entries
<1>2. PICK i \in DOMAIN c : e = c[i]  BY <1>1 DEF Range
<1> QED  BY <1>2, BootAssumption

\* A name with one label more before it.
LEMMA UnderFacts ==
  ASSUME NEW X, NEW s \in Seq(X), NEW a \in X, NEW r, r = Under(a, s)
  PROVE  /\ r \in Seq(X) /\ Len(r) = Len(s) + 1 /\ r[1] = a
         /\ \A i \in 1..Len(s) : r[i + 1] = s[i]
  BY DEF Under

LEMMA UnderNames ==
  ASSUME NEW e \in Entries, NEW l
  PROVE  Under(l, e.name) \in Seq(Range(Under(l, e.name)))
<1>1. PICK name : name = e.name /\ name \in Seq(Range(name))  BY EntryNames
<1>2. PICK S : S = Range(name) \cup {l}  OBVIOUS
<1>3. name \in Seq(S) /\ l \in S  BY <1>1, <1>2
<1>4. PICK u : u = Under(l, name)  OBVIOUS
<1>5. u \in Seq(S)  BY <1>3, <1>4, UnderFacts
<1>6. \A i \in 1..Len(u) : u[i] \in Range(u)  BY <1>4, <1>5 DEF Range
<1>7. u \in Seq(Range(u))  BY <1>4, <1>5, <1>6
<1> QED  BY <1>1, <1>4, <1>7

\* A name that is spelled somewhere, in lower case.
LEMMA LowerFacts ==
  ASSUME NEW name \in Spelled
  PROVE  /\ name \in Seq(Range(name))
         /\ Lower(name) \in Paths /\ Len(Lower(name)) = Len(name)
<1>1. name \in Seq(Range(name))
  <2>1. CASE name \in Hosts  BY <2>1, NameAssumption
  <2>2. CASE name \notin Hosts
    <3>1. PICK e \in Entries : name = e.name \/ \E l \in Labels : name = Under(l, e.name)
      BY <2>2 DEF Spelled
    <3> QED  BY <3>1, EntryNames, UnderNames
  <2> QED  BY <2>1, <2>2
<1>2. Range(Lower(name)) \subseteq AllLabels  BY DEF AllLabels
<1>3. Lower(name) \in Paths /\ Len(Lower(name)) = Len(name)
  <2> DEFINE low == Lower(name)
  <2>1. DOMAIN low = 1..Len(name) /\ low = [i \in 1..Len(name) |-> low[i]]
    BY <1>1 DEF Lower
  <2> HIDE DEF low
  <2>2. \A i \in 1..Len(name) : low[i] \in Range(low)
    BY <2>1 DEF Range
  <2>3. low \in [1..Len(name) -> AllLabels]
    BY <1>2, <2>1, <2>2 DEF low
  <2>4. Len(name) \in Nat  BY <1>1
  <2> QED  BY <2>3, <2>4 DEF Paths, low
<1> QED  BY <1>1, <1>3

\* The same without the final dot, and its path.
LEMMA NormFacts ==
  ASSUME NEW name \in Spelled
  PROVE  /\ Norm(name) \in Paths /\ PathOf(name) \in Paths
         /\ Len(PathOf(name)) = Len(Norm(name))
         /\ \A i \in 1..Len(Norm(name)) : PathOf(name)[i] = Norm(name)[Len(Norm(name)) - i + 1]
<1>1. /\ name \in Seq(Range(name))
      /\ Lower(name) \in Paths /\ Len(Lower(name)) = Len(name)
  BY LowerFacts
<1>2. Norm(name) \in Paths
  <2>1. CASE name # <<>> /\ Last(name) = ""
    <3>1. Norm(name) = SubSeq(Lower(name), 1, Len(Lower(name)) - 1)
      BY <2>1 DEF Norm, Front
    <3>2. Len(Lower(name)) - 1 \in 0..Len(Lower(name))
      <4>1. Len(name) \in Nat /\ Len(name) # 0  BY <1>1, <2>1, NonEmpty
      <4> QED  BY <1>1, <4>1
    <3> QED  BY <1>1, <3>1, <3>2 DEF Paths
  <2>2. CASE ~(name # <<>> /\ Last(name) = "")
    BY <1>1, <2>2 DEF Norm
  <2> QED  BY <2>1, <2>2
<1> QED  BY <1>2 DEF PathOf, Reverse, Paths

-----------------------------------------------------------------------------
(* The trie.                                                               *)

\* Every beginning of a path is one, every zone ends somewhere, and where a path
\* ends a zone, it is the path of that zone's name.
TrieInv ==
  /\ nodes \subseteq Paths /\ <<>> \in nodes
  /\ \A p \in nodes : \A n \in 0..Len(p) : FirstOf(p, n) \in nodes
  /\ DOMAIN terminal \subseteq nodes
  /\ \A z \in added : z \in Paths /\ Reverse(z) \in DOMAIN terminal
  /\ \A p \in DOMAIN terminal :
       /\ terminal[p].name \in Spelled
       /\ p = PathOf(terminal[p].name)
       /\ Norm(terminal[p].name) \in added

LEMMA EmptyTrie ==
  ASSUME nodes = {<<>>}, terminal = <<>>, added = {}
  PROVE  TrieInv
<1>1. <<>> \in Paths /\ \A n \in 0..Len(<<>>) : FirstOf(<<>>, n) = <<>>
  BY DEF Paths, FirstOf
<1> QED  BY <1>1 DEF TrieInv

LEMMA InsertKeeps ==
  ASSUME TrieInv, NEW d, d.name \in Spelled, Add(d)
  PROVE  /\ TrieInv'
         /\ DOMAIN terminal' = DOMAIN terminal \cup {PathOf(d.name)}
         /\ terminal'[PathOf(d.name)] = d
         /\ \A p \in DOMAIN terminal : p # PathOf(d.name) => terminal'[p] = terminal[p]
<1> DEFINE path == PathOf(d.name)
<1>1. path \in Paths /\ Norm(d.name) \in Paths /\ path = Reverse(Norm(d.name))
  BY NormFacts DEF PathOf
<1>2. /\ nodes' = nodes \cup {FirstOf(path, n) : n \in 0..Len(path)}
      /\ terminal' = [p \in DOMAIN terminal \cup {path} |->
                        IF p = path THEN d ELSE terminal[p]]
      /\ added' = added \cup {Norm(d.name)}
  BY DEF Add, Insert
<1> HIDE DEF path
<1>3. \A n \in 0..Len(path) :
        /\ FirstOf(path, n) \in Paths /\ Len(FirstOf(path, n)) = n
        /\ \A m \in 0..n : FirstOf(FirstOf(path, n), m) = FirstOf(path, m) /\ m \in 0..Len(path)
  BY <1>1, FirstFacts DEF Paths
<1>4. path \in nodes'
  <2>1. Len(path) \in 0..Len(path) /\ FirstOf(path, Len(path)) = path
    BY <1>1, FirstFacts DEF Paths
  <2> QED  BY <1>2, <2>1
<1>5. /\ DOMAIN terminal' = DOMAIN terminal \cup {path} /\ terminal'[path] = d
      /\ \A p \in DOMAIN terminal : p # path => terminal'[p] = terminal[p]
  BY <1>2
<1>6. nodes' \subseteq Paths /\ <<>> \in nodes' /\ DOMAIN terminal' \subseteq nodes'
  BY <1>2, <1>3, <1>4, <1>5 DEF TrieInv
<1>7. ASSUME NEW p \in nodes', NEW n \in 0..Len(p) PROVE FirstOf(p, n) \in nodes'
  <2>1. CASE p \in nodes  BY <1>2, <1>7, <2>1 DEF TrieInv
  <2>2. CASE p \notin nodes
    <3>1. PICK m \in 0..Len(path) : p = FirstOf(path, m)  BY <1>2, <1>7, <2>2
    <3>2. n \in 0..m /\ n \in 0..Len(path) /\ FirstOf(p, n) = FirstOf(path, n)
      BY <1>3, <1>7, <3>1
    <3> QED  BY <1>2, <3>2
  <2> QED  BY <2>1, <2>2
<1>8. \A z \in added' : z \in Paths /\ Reverse(z) \in DOMAIN terminal'
  BY <1>1, <1>2, <1>5 DEF TrieInv
<1>9. \A p \in DOMAIN terminal' :
        /\ terminal'[p].name \in Spelled
        /\ p = PathOf(terminal'[p].name)
        /\ Norm(terminal'[p].name) \in added'
  BY <1>2, <1>5 DEF TrieInv, path
<1>10. TrieInv'
  BY <1>6, <1>7, <1>8, <1>9 DEF TrieInv
<1> QED  BY <1>5, <1>10 DEF path

-----------------------------------------------------------------------------
(* Resolve.                                                                *)

\* The walk meets every zone that ends on the way: the nodes on a path are its
\* first ones.
LEMMA EndsFacts ==
  ASSUME TrieInv, NEW path \in Paths
  PROVE  /\ Ends(path) \in SUBSET (0..Len(path))
         /\ Ends(path) = {n \in 1..Len(path) : FirstOf(path, n) \in DOMAIN terminal}
<1> DEFINE N == Len(path)
           S == {n \in 0..N : FirstOf(path, n) \in nodes}
           Last1(n) == FirstOf(path, n) \in nodes /\ (n = N \/ FirstOf(path, n + 1) \notin nodes)
<1>1. N \in Nat  BY DEF Paths
<1>2. \E n \in 0..N : Last1(n)
  <2>1. FirstOf(path, 0) = <<>>  BY <1>1 DEF FirstOf, Paths
  <2>2. 0 \in S  BY <1>1, <2>1 DEF TrieInv
  <2>3. S \in SUBSET (0..N)  OBVIOUS
  <2>4. Max(S) \in S /\ \A y \in S : y <= Max(S)
    <3> HIDE DEF S, N
    <3> QED  BY <1>1, <2>2, <2>3, MaxOf
  <2>5. Max(S) # N => Max(S) + 1 \in 0..N /\ Max(S) + 1 \notin S
    BY <1>1, <2>3, <2>4
  <2> QED  BY <2>4, <2>5
<1>3. PICK d \in 0..N : d = Depth(path) /\ Last1(d)
  BY <1>2 DEF Depth
<1>4. ASSUME NEW n \in 1..N, FirstOf(path, n) \in DOMAIN terminal PROVE n \in 1..d
  <2>1. FirstOf(path, n) \in nodes  BY <1>4 DEF TrieInv
  <2>2. ASSUME n > d PROVE FALSE
    <3>1. d + 1 \in 0..n /\ d # N  BY <1>1, <2>2
    <3>2. Len(FirstOf(path, n)) = n /\ FirstOf(FirstOf(path, n), d + 1) = FirstOf(path, d + 1)
      BY <1>1, <3>1, FirstFacts DEF Paths
    <3>3. FirstOf(path, d + 1) \in nodes  BY <2>1, <3>1, <3>2 DEF TrieInv
    <3> QED  BY <1>3, <3>1, <3>3
  <2> QED  BY <1>1, <2>2
<1>5. Ends(path) = {n \in 1..d : FirstOf(path, n) \in DOMAIN terminal}
  BY <1>3 DEF Ends
<1> QED  BY <1>1, <1>4, <1>5

\* The zones of a name are where its path ends one.
LEMMA ZonesAreEnds ==
  ASSUME TrieInv, NEW name \in Spelled
  PROVE  /\ \A z \in ZonesOf(name) : Len(z) \in Ends(PathOf(name))
         /\ \A n \in Ends(PathOf(name)) :
              LET zone == Norm(terminal[FirstOf(PathOf(name), n)].name)
              IN  /\ zone \in ZonesOf(name) /\ Len(zone) = n
                  /\ FirstOf(Norm(name), Len(PathOf(name)) - n) \o zone = Norm(name)
<1> DEFINE path == PathOf(name)
           full == Norm(name)
           N == Len(full)
<1>1. /\ full \in Paths /\ path \in Paths /\ Len(path) = N /\ N \in Nat
      /\ path = Reverse(full) /\ \A i \in 1..N : path[i] = full[N - i + 1]
  BY NormFacts DEF PathOf, Paths
<1> HIDE DEF path, full
<1>2. ASSUME NEW z \in ZonesOf(name) PROVE Len(z) \in Ends(path)
  <2>1. /\ z \in Paths /\ Reverse(z) \in DOMAIN terminal /\ z # <<>>
        /\ IsPrefix(Reverse(z), path)
    BY <1>1, <1>2 DEF ZonesOf, TrieInv, IsSuffix, full
  <2>2. Reverse(z) \in Paths /\ Len(Reverse(z)) = Len(z) /\ Len(z) \in Nat \ {0}
    BY <2>1 DEF Reverse, Paths
  <2>3. Len(z) <= N /\ FirstOf(Reverse(z), Len(z)) = FirstOf(path, Len(z))
    BY <1>1, <2>1, <2>2 DEF IsPrefix, FirstOf
  <2>4. FirstOf(path, Len(z)) = Reverse(z)
    BY <2>2, <2>3, FirstFacts DEF Paths
  <2> QED  BY <1>1, <2>1, <2>2, <2>3, <2>4, EndsFacts
<1>3. ASSUME NEW n \in Ends(path)
      PROVE  LET zone == Norm(terminal[FirstOf(path, n)].name)
             IN  /\ zone \in ZonesOf(name) /\ Len(zone) = n
                 /\ FirstOf(full, N - n) \o zone = full
  <2> DEFINE zone == Norm(terminal[FirstOf(path, n)].name)
  <2>1. n \in 1..N /\ FirstOf(path, n) \in DOMAIN terminal
    BY <1>1, EndsFacts
  <2>2. /\ zone \in Paths /\ zone \in added /\ Reverse(zone) = FirstOf(path, n)
        /\ Len(zone) = Len(FirstOf(path, n))
        /\ \A i \in 1..Len(zone) : FirstOf(path, n)[i] = zone[Len(zone) - i + 1]
    BY <2>1, NormFacts DEF TrieInv, PathOf
  <2> HIDE DEF zone
  <2>3. /\ Len(FirstOf(path, n)) = n /\ \A i \in 1..n : FirstOf(path, n)[i] = path[i]
        /\ FirstOf(path, n) \in Paths
    BY <1>1, <2>1, FirstFacts DEF Paths
  <2>4. Len(zone) = n /\ zone # <<>>  BY <2>1, <2>2, <2>3
  <2>5. IsSuffix(zone, full)
    <3>1. FirstOf(FirstOf(path, n), n) = FirstOf(path, n)
      BY <1>1, <2>1, FirstFacts DEF Paths
    <3> QED  BY <1>1, <2>1, <2>2, <2>3, <3>1 DEF IsSuffix, IsPrefix, FirstOf
  <2>6. FirstOf(full, N - n) \o zone = full
    <3> DEFINE pre == FirstOf(full, N - n)
    <3>1. N - n \in 0..N  BY <1>1, <2>1
    <3>2. pre \in Paths /\ Len(pre) = N - n /\ \A i \in 1..(N - n) : pre[i] = full[i]
      BY <1>1, <3>1, FirstFacts DEF Paths
    <3> HIDE DEF pre
    <3>3. /\ pre \o zone \in Paths /\ Len(pre \o zone) = N
          /\ \A i \in 1..N : (pre \o zone)[i] = IF i <= N - n THEN pre[i] ELSE zone[i - (N - n)]
      BY <1>1, <2>1, <2>2, <2>4, <3>2 DEF Paths
    <3>4. \A j \in 1..n : zone[j] = full[N - n + j]
      <4> SUFFICES ASSUME NEW j \in 1..n PROVE zone[j] = full[N - n + j]  OBVIOUS
      <4>1. n - j + 1 \in 1..n /\ n - (n - j + 1) + 1 = j  BY <2>1
      <4>2. path[n - j + 1] = zone[j]  BY <2>2, <2>3, <2>4, <4>1
      <4>3. n - j + 1 \in 1..N /\ N - (n - j + 1) + 1 = N - n + j  BY <1>1, <2>1
      <4> QED  BY <1>1, <4>2, <4>3
    <3>5. \A i \in 1..N : (pre \o zone)[i] = full[i]
      <4> SUFFICES ASSUME NEW i \in 1..N PROVE (pre \o zone)[i] = full[i]  OBVIOUS
      <4>1. CASE i <= N - n
        <5>1. i \in 1..(N - n)  BY <1>1, <2>1, <4>1
        <5>2. (pre \o zone)[i] = pre[i]  BY <3>3, <4>1
        <5> QED  BY <3>2, <5>1, <5>2
      <4>2. CASE ~(i <= N - n)
        <5>1. i - (N - n) \in 1..n /\ ~(i <= N - n)  BY <1>1, <2>1, <4>2
        <5>2. PICK j \in 1..n : j = i - (N - n)  BY <5>1
        <5>3. N - n + j = i  BY <1>1, <2>1, <5>2
        <5>4. (pre \o zone)[i] = zone[j]  BY <3>3, <5>1, <5>2
        <5>5. zone[j] = full[i]  BY <3>4, <5>3
        <5> QED  BY <5>4, <5>5
      <4> QED  BY <4>1, <4>2
    <3> QED  BY <1>1, <3>3, <3>5 DEF pre, Paths
  <2> QED  BY <2>2, <2>4, <2>5, <2>6 DEF ZonesOf, zone, full
<1> QED  BY <1>1, <1>2, <1>3 DEF path, full

\* What Resolve answers: the zone that ends last, and the labels before it.
LEMMA ResolveFacts ==
  ASSUME TrieInv, NEW host \in Spelled
  PROVE  LET r == Resolve(host)
         IN  /\ r.ok \in BOOLEAN /\ r.ok = (ZonesOf(host) # {})
             /\ r.ok => LET zone == Norm(r.domain.name)
                        IN  /\ r.prefix \in Paths
                            /\ r.prefix \o zone = Norm(host)
                            /\ zone \in added
                            /\ \A z \in ZonesOf(host) : Len(z) <= Len(zone)
<1> DEFINE path == PathOf(host)
           n == Max(Ends(path))
           r == Resolve(host)
<1>1. path \in Paths /\ Norm(host) \in Paths /\ Len(path) = Len(Norm(host)) /\ Len(path) \in Nat
  BY NormFacts DEF Paths
<1>2. CASE Ends(path) = {}
  <2>1. r.ok = FALSE  BY <1>2 DEF Resolve
  <2>2. ZonesOf(host) = {}  BY <1>2, ZonesAreEnds
  <2> QED  BY <2>1, <2>2
<1>3. CASE Ends(path) # {}
  <2>1. n \in Ends(path) /\ \A m \in Ends(path) : m <= n
    BY <1>1, <1>3, EndsFacts, MaxOf
  <2>2. /\ r.ok = TRUE /\ r.domain = terminal[FirstOf(path, n)]
        /\ r.prefix = FirstOf(Norm(host), Len(path) - n)
    BY <1>3 DEF Resolve
  <2> HIDE DEF n, r
  <2>3. LET zone == Norm(r.domain.name)
        IN  /\ zone \in ZonesOf(host) /\ Len(zone) = n
            /\ r.prefix \o zone = Norm(host)
    BY <2>1, <2>2, ZonesAreEnds
  <2>4. \A z \in ZonesOf(host) : Len(z) <= n  BY <2>1, ZonesAreEnds
  <2>5. r.prefix \in Paths
    <3>1. n \in 0..Len(path)  BY <1>1, <2>1, EndsFacts
    <3>2. Len(path) - n \in 0..Len(Norm(host))  BY <1>1, <3>1
    <3> QED  BY <1>1, <2>2, <3>2, FirstFacts DEF Paths
  <2> QED  BY <2>2, <2>3, <2>4, <2>5 DEF ZonesOf, r
<1> QED  BY <1>2, <1>3

LEMMA TrieFindsLongest == TrieInv => LongestZoneWins
<1>1. Hosts \subseteq Spelled  BY DEF Spelled
<1> QED  BY <1>1, ResolveFacts DEF LongestZoneWins

-----------------------------------------------------------------------------
(* The scan.                                                               *)

\* What the scan has passed was not stored all along, or its lookup failed.
ScanInv ==
  /\ tokens \subseteq Labels /\ steady \subseteq tokens
  /\ req.pc \in {"none", "scan", "matched"}
  /\ req.pc # "none" =>
       /\ req.prefix \in Paths
       /\ \A i \in DOMAIN req.prefix \ req.failed :
            Len(req.prefix) > 1 /\ req.prefix[i] \in steady =>
              i <= req.at /\ (req.pc = "matched" => req.how = "found")
  /\ req.pc = "scan" =>
       /\ req.at \in DOMAIN req.prefix
       /\ req = [pc |-> "scan", prefix |-> req.prefix, at |-> req.at, failed |-> req.failed]

\* The zones and the scan know nothing of what else there is.
TrieAndScan == TrieInv /\ ScanInv

LEMMA BeginKeeps ==
  ASSUME TrieAndScan, NEW host \in Hosts, Begin(host)
  PROVE  TrieAndScan'
<1> DEFINE prefix == Resolve(host).prefix
<1>1. host \in Spelled  BY DEF Spelled
<1>2. prefix \in Paths /\ Len(prefix) \in Nat /\ DOMAIN prefix = 1..Len(prefix)
  <2>1. Resolve(host).ok /\ TrieInv  BY DEF Begin, TrieAndScan
  <2>2. prefix \in Paths  BY <1>1, <2>1, ResolveFacts
  <2> HIDE DEF prefix
  <2> QED  BY <2>2 DEF Paths
<1>3. /\ UNCHANGED <<trieVars, tokens>> /\ steady' = tokens
      /\ req' = IF Len(prefix) <= 1
                THEN [pc |-> "matched", prefix |-> prefix, at |-> Len(prefix), how |-> "only",
                      failed |-> {}]
                ELSE [pc |-> "scan", prefix |-> prefix, at |-> Len(prefix), failed |-> {}]
  BY DEF Begin
<1> HIDE DEF prefix
<1>4. TrieInv'  BY <1>3 DEF TrieAndScan, TrieInv, trieVars
<1>5. ScanInv'
  <2>1. /\ req'.pc \in {"scan", "matched"} /\ req'.prefix = prefix /\ req'.at = Len(prefix)
        /\ req'.pc = "matched" => Len(prefix) <= 1
        /\ req'.pc = "scan" =>
             /\ Len(prefix) > 1
             /\ req' = [pc |-> "scan", prefix |-> req'.prefix, at |-> req'.at,
                        failed |-> req'.failed]
    BY <1>2, <1>3
  <2> QED  BY <1>2, <1>3, <2>1 DEF TrieAndScan, ScanInv
<1> QED  BY <1>4, <1>5 DEF TrieAndScan

LEMMA LookupKeeps ==
  ASSUME TrieAndScan, Lookup \/ LookupFails
  PROVE  TrieAndScan'
<1>1. PICK prefix, at0, failed :
        /\ prefix \in Paths /\ Len(prefix) \in Nat /\ DOMAIN prefix = 1..Len(prefix)
        /\ at0 \in 1..Len(prefix)
        /\ req = [pc |-> "scan", prefix |-> prefix, at |-> at0, failed |-> failed]
        /\ \A i \in DOMAIN prefix \ failed : Len(prefix) > 1 /\ prefix[i] \in steady => i <= at0
        /\ steady \subseteq tokens
  BY DEF TrieAndScan, ScanInv, Lookup, LookupFails, Paths
<1>2. UNCHANGED <<trieVars, tokens, steady>>  BY DEF Lookup, LookupFails
<1>3. TrieInv'  BY <1>2 DEF TrieAndScan, TrieInv, trieVars
<1>4. PICK f :
        \/ /\ prefix[at0] \in tokens
           /\ req' = [pc |-> "matched", prefix |-> prefix, at |-> at0, how |-> "found",
                      failed |-> failed]
        \/ /\ prefix[at0] \notin steady \/ at0 \in f
           /\ failed \subseteq f
           /\ \/ at0 > 1 /\ req' = [pc |-> "scan", prefix |-> prefix, at |-> at0 - 1, failed |-> f]
              \/ ~(at0 > 1) /\ req' = [pc |-> "matched", prefix |-> prefix, at |-> Len(prefix),
                                      how |-> "fallback", failed |-> f]
  <2>1. CASE Lookup
    BY <1>1, <2>1 DEF Lookup, Matched
  <2>2. CASE LookupFails
    <3> PICK f : f = failed \cup {at0}  OBVIOUS
    <3>1. req' = IF at0 > 1 THEN [req EXCEPT !.at = at0 - 1, !.failed = f]
                 ELSE Matched(Len(prefix), "fallback", f)
      BY <1>1, <2>2 DEF LookupFails
    <3>2. at0 > 1 => req' = [pc |-> "scan", prefix |-> prefix, at |-> at0 - 1, failed |-> f]
      BY <1>1, <3>1
    <3> QED  BY <1>1, <3>1, <3>2 DEF Matched
  <2> QED  BY <2>1, <2>2
<1>5. ScanInv'
  <2>1. CASE req'.pc = "matched" /\ req'.how = "found"
    BY <1>1, <1>2, <1>4, <2>1 DEF TrieAndScan, ScanInv
  <2>2. CASE req'.pc = "scan"
    BY <1>1, <1>2, <1>4, <2>2 DEF TrieAndScan, ScanInv
  <2>3. CASE req'.pc = "matched" /\ req'.how = "fallback"
    BY <1>1, <1>2, <1>4, <2>3 DEF TrieAndScan, ScanInv
  <2> QED  BY <1>4, <2>1, <2>2, <2>3
<1> QED  BY <1>3, <1>5 DEF TrieAndScan

LEMMA TokensKeep ==
  ASSUME TrieAndScan, NEW t \in Labels, TokenStored(t) \/ TokenGone(t)
  PROVE  TrieAndScan'
<1>1. TrieInv'  BY DEF TrieAndScan, TrieInv, TokenStored, TokenGone, trieVars
<1>2. ScanInv'  BY DEF TrieAndScan, ScanInv, TokenStored, TokenGone
<1> QED  BY <1>1, <1>2 DEF TrieAndScan

LEMMA DownKeeps ==
  ASSUME NEW kept \in SUBSET Labels, ResDown(kept)
  PROVE  TrieAndScan'
<1>1. TrieInv'
  <2>1. <<>> \in Paths /\ \A n \in 0..Len(<<>>) : FirstOf(<<>>, n) = <<>>
    BY DEF Paths, FirstOf
  <2> QED  BY <2>1 DEF ResDown, TrieInv
<1>2. ScanInv'  BY DEF ResDown, ScanInv
<1> QED  BY <1>1, <1>2 DEF TrieAndScan

-----------------------------------------------------------------------------
(* Files, rows and restarts.                                               *)

Row == [id : Nat, name : {e.name : e \in Entries}, ip : {e.ip : e \in Entries}]

\* The rows are numbered, and in memory they come from the running process's
\* own file.
RowsInv ==
  /\ domains \in Seq(Row) /\ \A k \in 1..Len(domains) : domains[k].id = k
  /\ cfg = <<>> \/ cfg \in Configs
  /\ cfg = <<>> => DOMAIN terminal = {}
  /\ mode = "memory" =>
       \A k \in 1..Len(domains) :
         \E i \in DOMAIN cfg : cfg[i].name = domains[k].name /\ cfg[i].ip = domains[k].ip

BootInv == TrieAndScan /\ RowsInv /\ TrieInSync

LEMMA BootInvInit == BootInit => BootInv
<1> SUFFICES ASSUME BootInit PROVE BootInv  OBVIOUS
<1>1. TrieInv  BY EmptyTrie DEF BootInit, ResInit
<1>2. ScanInv  BY DEF BootInit, ResInit, ScanInv
<1>3. RowsInv /\ TrieInSync  BY DEF BootInit, ResInit, RowsInv, TrieInSync
<1> QED  BY <1>1, <1>2, <1>3 DEF BootInv, TrieAndScan

\* The domain that the bootstrap is at.
LEMMA EntryFacts ==
  ASSUME BootInv, Registering
  PROVE  /\ cfg \in Configs /\ at \in DOMAIN cfg /\ cfg[at] \in Entries
         /\ cfg[at].name \in Spelled /\ NewRow \in Row
<1>1. cfg \in Configs /\ at \in DOMAIN cfg
  BY DEF BootInv, RowsInv, Registering
<1>2. cfg[at] \in Entries  BY <1>1 DEF Entries, Range
<1>3. Len(domains) \in Nat  BY DEF BootInv, RowsInv
<1> QED  BY <1>1, <1>2, <1>3 DEF Spelled, Row, NewRow

\* A domain is entered under the row it has, old or new.
LEMMA RegisterKeeps ==
  ASSUME BootInv, Register
  PROVE  BootInv'
<1>1. /\ cfg \in Configs /\ at \in DOMAIN cfg /\ cfg[at].name \in Spelled /\ NewRow \in Row
      /\ UNCHANGED <<tokens, steady, req, mode, cfg>>
  BY EntryFacts DEF Register, Registering
<1>2. domains \in Seq(Row) /\ Len(domains) \in Nat /\ DOMAIN domains = 1..Len(domains)
  BY DEF BootInv, RowsInv
<1>3. PICK d : /\ Add(d) /\ d.name = cfg[at].name
               /\ \/ d = NewRow /\ domains' = Append(domains, NewRow)
                  \/ d \in Range(domains) /\ domains' = domains
  <2>1. NewRow.name = cfg[at].name  BY DEF NewRow
  <2> QED  BY <2>1 DEF Register, GetDomainByName
<1>4. /\ domains' \in Seq(Row) /\ DOMAIN domains' = 1..Len(domains')
      /\ \A k \in 1..Len(domains') : domains'[k].id = k
      /\ \A k \in 1..Len(domains) : k \in 1..Len(domains') /\ domains'[k] = domains[k]
      /\ \A k \in 1..Len(domains') : k \in 1..Len(domains) \/ domains'[k] = NewRow
      /\ d.id \in DOMAIN domains' /\ domains'[d.id] = d
  <2>1. CASE d = NewRow /\ domains' = Append(domains, NewRow)
    <3>1. NewRow.id = Len(domains) + 1  BY DEF NewRow
    <3> QED  BY <1>1, <1>2, <2>1, <3>1 DEF BootInv, RowsInv
  <2>2. CASE d \in Range(domains) /\ domains' = domains
    <3>1. PICK k \in DOMAIN domains : d = domains[k]  BY <2>2 DEF Range
    <3> QED  BY <1>2, <2>2, <3>1 DEF BootInv, RowsInv
  <2> QED  BY <1>3, <2>1, <2>2
<1>5. /\ TrieInv'
      /\ DOMAIN terminal' = DOMAIN terminal \cup {PathOf(d.name)}
      /\ terminal'[PathOf(d.name)] = d
      /\ \A p \in DOMAIN terminal : p # PathOf(d.name) => terminal'[p] = terminal[p]
  <2>1. TrieInv /\ d.name \in Spelled /\ Add(d)
    BY <1>1, <1>3 DEF BootInv, TrieAndScan
  <2> QED  BY <2>1, InsertKeeps
<1>6. ScanInv'  BY <1>1 DEF BootInv, TrieAndScan, ScanInv
<1>7. ASSUME mode = "memory", NEW k \in 1..Len(domains')
      PROVE  \E i \in DOMAIN cfg : cfg[i].name = domains'[k].name /\ cfg[i].ip = domains'[k].ip
  <2>1. CASE k \in 1..Len(domains)  BY <1>4, <1>7, <2>1 DEF BootInv, RowsInv
  <2>2. CASE domains'[k] = NewRow  BY <1>1, <2>2 DEF NewRow
  <2> QED  BY <1>4, <2>1, <2>2
<1>8. RowsInv'
  <2>1. cfg # <<>>  BY <1>1
  <2> QED  BY <1>1, <1>4, <1>7, <2>1 DEF RowsInv
<1>9. TrieInSync'
  <2> SUFFICES ASSUME NEW p \in DOMAIN terminal'
               PROVE  LET e == terminal'[p]
                      IN  /\ e.id \in DOMAIN domains' /\ domains'[e.id] = e
                          /\ p = PathOf(e.name)
                          /\ \E i \in DOMAIN cfg' :
                               /\ cfg'[i].name = e.name
                               /\ mode' = "memory" => cfg'[i].ip = e.ip
    BY DEF TrieInSync
  <2>1. CASE p = PathOf(d.name)
    <3>1. d.id \in 1..Len(domains') /\ domains'[d.id] = d  BY <1>4
    <3>2. \E i \in DOMAIN cfg : cfg[i].name = d.name /\ (mode = "memory" => cfg[i].ip = d.ip)
      BY <1>1, <1>3, <1>7, <3>1
    <3> QED  BY <1>1, <1>4, <1>5, <2>1, <3>2
  <2>2. CASE p # PathOf(d.name)
    <3>1. p \in DOMAIN terminal /\ terminal'[p] = terminal[p]  BY <1>5, <2>2
    <3> QED  BY <1>1, <1>2, <1>4, <3>1 DEF BootInv, TrieInSync
  <2> QED  BY <2>1, <2>2
<1> QED  BY <1>5, <1>6, <1>8, <1>9 DEF BootInv, TrieAndScan

LEMMA BootInvStep == BootInv /\ [BootNext]_bootVars => BootInv'
<1> SUFFICES ASSUME BootInv, [BootNext]_bootVars PROVE BootInv'  OBVIOUS
<1>1. ASSUME UNCHANGED <<trieVars, mode, cfg, domains>>, TrieAndScan' PROVE BootInv'
  BY <1>1 DEF BootInv, RowsInv, TrieInSync, trieVars
<1>2. ASSUME UNCHANGED <<trieVars, tokens, req, steady>> PROVE TrieAndScan'
  BY <1>2 DEF BootInv, TrieAndScan, TrieInv, ScanInv, trieVars
<1>3. ASSUME NEW c \in Configs, Start(c) PROVE BootInv'
  <2>1. TrieAndScan'  BY <1>2, <1>3 DEF Start, resVars
  <2>2. DOMAIN terminal = {} /\ terminal' = terminal /\ cfg' = c /\ c # <<>>
        /\ UNCHANGED <<mode, domains>>
    BY <1>3 DEF Start, Valid, resVars, trieVars, BootInv, RowsInv
  <2>3. mode = "memory" => \A k \in 1..Len(domains) : FALSE
    BY <1>3 DEF Start, BootInv, RowsInv
  <2>4. RowsInv' /\ TrieInSync'
    BY <2>2, <2>3 DEF BootInv, RowsInv, TrieInSync
  <2> QED  BY <2>1, <2>4 DEF BootInv
<1>4. CASE RegisterFails \/ Serve \/ UNCHANGED bootVars
  <2>1. UNCHANGED <<trieVars, mode, cfg, domains, tokens, req, steady>>
    BY <1>4 DEF RegisterFails, Registering, Serve, bootVars, resVars
  <2> QED  BY <1>1, <1>2, <2>1
<1>5. CASE Down
  <2>1. TrieAndScan' /\ terminal' = <<>>
    <3>1. tokens \in SUBSET Labels  BY DEF BootInv, TrieAndScan, ScanInv
    <3> QED  BY <1>5, <3>1, DownKeeps DEF Down, ResDown
  <2>2. cfg' = <<>> /\ mode' = mode /\ (mode = "memory" => domains' = <<>>)
        /\ (domains' = <<>> \/ domains' = domains)
    BY <1>5 DEF Down
  <2>3. /\ domains' \in Seq(Row) /\ \A k \in 1..Len(domains') : domains'[k].id = k
        /\ mode' = "memory" => Len(domains') = 0
    <3>1. CASE domains' = <<>>  BY <2>2, <3>1
    <3>2. CASE domains' = domains /\ domains # <<>>
      <4>1. mode' # "memory"  BY <2>2, <3>2
      <4> QED  BY <3>2, <4>1 DEF BootInv, RowsInv
    <3> QED  BY <2>2, <3>1, <3>2
  <2>4. DOMAIN terminal' = {}  BY <2>1
  <2>5. RowsInv'  BY <2>2, <2>3, <2>4 DEF RowsInv
  <2>6. TrieInSync'  BY <2>4 DEF TrieInSync
  <2> QED  BY <2>1, <2>5, <2>6 DEF BootInv
<1>6. ASSUME NEW t \in Labels, DropToken(t) \/ \E name : CreateToken(t, name) PROVE BootInv'
  <2>1. TokenStored(t) \/ TokenGone(t)  BY <1>6 DEF DropToken, CreateToken
  <2>2. TrieAndScan'  BY <2>1, TokensKeep DEF BootInv
  <2>3. UNCHANGED <<trieVars, mode, cfg, domains>>
    BY <1>6, <2>1 DEF DropToken, CreateToken, TokenStored, TokenGone
  <2> QED  BY <1>1, <2>2, <2>3
<1>7. CASE Collector
  <2>1. TrieAndScan'  BY <1>7, BeginKeeps, LookupKeeps DEF Collector, BootInv
  <2>2. UNCHANGED <<trieVars, mode, cfg, domains>>
    BY <1>7 DEF Collector, Begin, Lookup, LookupFails
  <2> QED  BY <1>1, <2>1, <2>2
<1> QED  BY <1>3, <1>4, <1>5, <1>6, <1>7, RegisterKeeps DEF BootNext

-----------------------------------------------------------------------------
(* The last token.                                                         *)

\* Case and final dot of a name do not depend on the label before it.
LEMMA NormUnder ==
  ASSUME NEW e \in Entries, e.name # <<>>, NEW l \in Labels
  PROVE  Norm(Under(l, e.name)) = Under(l, Norm(e.name))
<1>1. PICK name : name = e.name /\ name \in Seq(Range(name)) /\ name # <<>>  BY EntryNames
<1>2. PICK S : name \in Seq(S) /\ l \in S
  <2>1. PICK R : R = Range(name) \cup {l}  OBVIOUS
  <2>2. name \in Seq(R) /\ l \in R  BY <1>1, <2>1
  <2> QED  BY <2>2
<1>3. PICK N : N = Len(name) /\ N \in Nat \ {0}  BY <1>1, <1>2, NonEmpty
<1>4. PICK u : u = Under(l, name)  OBVIOUS
<1>5. /\ u \in Seq(S) /\ Len(u) = N + 1 /\ u[1] = l
      /\ \A i \in 1..N : u[i + 1] = name[i]
  <2>1. /\ u \in Seq(S) /\ Len(u) = Len(name) + 1 /\ u[1] = l
        /\ \A i \in 1..Len(name) : u[i + 1] = name[i]
    BY <1>2, <1>4 DEF Under
  <2> QED  BY <1>3, <2>1
<1>6. PICK low, lowu : low = Lower(name) /\ lowu = Lower(u)  OBVIOUS
<1>7. PICK T : low \in Seq(T) /\ l \in T /\ Len(low) = N
  <2>1. name \in Spelled  BY <1>1 DEF Spelled
  <2>2. Lower(name) \in Paths /\ Len(Lower(name)) = Len(name)  BY <2>1, LowerFacts
  <2>3. PICK T : T = AllLabels \cup {l}  OBVIOUS
  <2>4. low \in Seq(T) /\ l \in T /\ Len(low) = N  BY <1>3, <1>6, <2>2, <2>3 DEF Paths
  <2> QED  BY <2>4
<1>8. PICK X : lowu \in Seq(X) /\ Len(lowu) = N + 1
  <2>1. u \in Spelled  BY <1>1, <1>4 DEF Spelled
  <2>2. Lower(u) \in Paths /\ Len(Lower(u)) = Len(u)  BY <2>1, LowerFacts
  <2> QED  BY <1>5, <1>6, <2>2 DEF Paths
<1>9. lowu[1] = l /\ \A i \in 1..N : lowu[i + 1] = low[i]
  <2>1. DOMAIN u = 1..(N + 1) /\ DOMAIN name = 1..N  BY <1>1, <1>3, <1>5
  <2>2. lowu[1] = l  BY <1>3, <1>5, <1>6, <2>1, LabelAssumption DEF Lower
  <2>3. \A i \in 1..N : i + 1 \in 1..(N + 1)  BY <1>3
  <2> QED  BY <1>5, <1>6, <2>1, <2>2, <2>3 DEF Lower
<1>10. PICK v : v = Under(l, low)  OBVIOUS
<1>11. v \in Seq(T) /\ Len(v) = N + 1 /\ v[1] = l /\ \A i \in 1..N : v[i + 1] = low[i]
  <2>1. /\ v \in Seq(T) /\ Len(v) = Len(low) + 1 /\ v[1] = l
        /\ \A i \in 1..Len(low) : v[i + 1] = low[i]
    BY <1>7, <1>10 DEF Under
  <2> QED  BY <1>7, <2>1
<1>12. lowu = v
  <2>1. \A i \in 1..(N + 1) : i = 1 \/ (i - 1 \in 1..N /\ (i - 1) + 1 = i)  BY <1>3
  <2>2. \A i \in 1..(N + 1) : lowu[i] = v[i]
    <3> SUFFICES ASSUME NEW i \in 1..(N + 1) PROVE lowu[i] = v[i]  OBVIOUS
    <3>1. CASE i = 1  BY <1>9, <1>11, <3>1
    <3>2. CASE i # 1
      <4>1. PICK j \in 1..N : j + 1 = i  BY <2>1, <3>2
      <4>2. lowu[j + 1] = low[j] /\ v[j + 1] = low[j]  BY <1>9, <1>11
      <4> QED  BY <4>1, <4>2
    <3> QED  BY <3>1, <3>2
  <2> QED  BY <1>8, <1>11, <2>2
<1>13. u # <<>> /\ Last(u) = Last(name)
  BY <1>1, <1>3, <1>5 DEF Last
<1>14. CASE Last(name) = ""
  <2>1. Norm(u) = SubSeq(v, 1, N)
    <3>1. Norm(u) = Front(lowu)  BY <1>6, <1>13, <1>14 DEF Norm
    <3>2. Front(v) = SubSeq(v, 1, (N + 1) - 1) /\ (N + 1) - 1 = N  BY <1>3, <1>11 DEF Front
    <3> QED  BY <1>12, <3>1, <3>2
  <2>2. PICK f : f = SubSeq(low, 1, N - 1)  OBVIOUS
  <2>3. Norm(name) = f
    BY <1>1, <1>6, <1>7, <1>14, <2>2 DEF Norm, Front
  <2>4. f \in Seq(T) /\ Len(f) = N - 1 /\ \A i \in 1..(N - 1) : f[i] = low[i]
    BY <1>3, <1>7, <2>2
  <2>5. PICK w : w = Under(l, f)  OBVIOUS
  <2>6. w \in Seq(T) /\ Len(w) = N /\ w[1] = l /\ \A i \in 1..(N - 1) : w[i + 1] = f[i]
    <3>1. /\ w \in Seq(T) /\ Len(w) = Len(f) + 1 /\ w[1] = l
          /\ \A i \in 1..Len(f) : w[i + 1] = f[i]
      BY <1>7, <2>4, <2>5 DEF Under
    <3> QED  BY <1>3, <2>4, <3>1
  <2>7. PICK b : b = SubSeq(v, 1, N)  OBVIOUS
  <2>8. b \in Seq(T) /\ Len(b) = N /\ \A i \in 1..N : b[i] = v[i]
    BY <1>3, <1>11, <2>7
  <2>9. \A i \in 1..N : i = 1 \/ (i - 1 \in 1..(N - 1) /\ i - 1 \in 1..N /\ (i - 1) + 1 = i)
    BY <1>3
  <2>10. \A i \in 1..N : b[i] = w[i]
    <3> SUFFICES ASSUME NEW i \in 1..N PROVE b[i] = w[i]  OBVIOUS
    <3>1. CASE i = 1  BY <1>11, <2>6, <2>8, <3>1
    <3>2. CASE i # 1
      <4>1. PICK j \in 1..(N - 1) : j + 1 = i /\ j \in 1..N  BY <2>9, <3>2
      <4>2. v[j + 1] = low[j] /\ w[j + 1] = f[j] /\ f[j] = low[j]
        BY <1>11, <2>4, <2>6, <4>1
      <4> QED  BY <2>8, <4>1, <4>2
    <3> QED  BY <3>1, <3>2
  <2>11. b = w  BY <2>6, <2>8, <2>10
  <2> QED  BY <1>1, <1>4, <2>1, <2>3, <2>5, <2>7, <2>11
<1>15. CASE Last(name) # ""
  <2>1. Norm(u) = v  BY <1>6, <1>12, <1>13, <1>15 DEF Norm
  <2>2. Norm(name) = low  BY <1>6, <1>15 DEF Norm
  <2> QED  BY <1>1, <1>4, <1>10, <2>1, <2>2
<1> QED  BY <1>14, <1>15

\* What is before all of a sequence but its head, when it is not nothing.
LEMMA OneBefore ==
  ASSUME NEW S, NEW p \in Seq(S), NEW y \in Seq(S), p \o y # y,
         NEW k \in Nat, Len(p \o y) = k + 1, k <= Len(y)
  PROVE  p = <<(p \o y)[1]>>
<1>1. PICK m, n : m = Len(p) /\ n = Len(y) /\ m \in Nat /\ n \in Nat  OBVIOUS
<1>2. m + n = k + 1  BY <1>1
<1>3. m # 0
  <2> SUFFICES ASSUME m = 0 PROVE FALSE  OBVIOUS
  <2>1. p = <<>>  BY <1>1
  <2> QED  BY <2>1
<1>4. m = 1  BY <1>1, <1>2, <1>3
<1>5. (p \o y)[1] = p[1]  BY <1>1, <1>4
<1>6. PICK w : w = <<p[1]>>  OBVIOUS
<1>7. w \in Seq(S) /\ Len(w) = 1 /\ w[1] = p[1]  BY <1>1, <1>4, <1>6
<1>8. p = w  BY <1>1, <1>4, <1>7
<1> QED  BY <1>5, <1>6, <1>8

\* The zone that a spelled name and one label before it resolve to.
LEMMA FoundUnder ==
  ASSUME TrieInv, NEW e \in Entries, NEW l \in Labels,
         Norm(e.name) \in added, Norm(e.name) # <<>>, Under(l, Norm(e.name)) \notin added
  PROVE  LET r == Resolve(Under(l, e.name)) IN r.ok /\ r.prefix = <<l>>
<1> DEFINE host == Under(l, e.name)
           r == Resolve(host)
<1>1. PICK z : z = Norm(e.name)  OBVIOUS
<1>2. e.name # <<>>
  <2>1. Lower(<<>>) = <<>>  BY DEF Lower
  <2> QED  BY <2>1 DEF Norm
<1>3. host \in Spelled /\ e.name \in Spelled  BY DEF Spelled
<1>4. Norm(host) = Under(l, z)  BY <1>1, <1>2, NormUnder
<1>5. PICK T : z \in Seq(T) /\ l \in T
  <2>1. z \in Paths  BY <1>1, <1>3, NormFacts
  <2>2. PICK T : T = AllLabels \cup {l}  OBVIOUS
  <2>3. z \in Seq(T) /\ l \in T  BY <2>1, <2>2 DEF Paths
  <2> QED  BY <2>3
<1>6. PICK u : u = Under(l, z)  OBVIOUS
<1>7. /\ u \in Seq(T) /\ Len(u) = Len(z) + 1 /\ u[1] = l /\ Len(z) \in Nat
      /\ \A i \in 1..Len(z) : u[i + 1] = z[i]
  <2>1. /\ Under(l, z) \in Seq(T) /\ Len(Under(l, z)) = Len(z) + 1 /\ Under(l, z)[1] = l
        /\ \A i \in 1..Len(z) : Under(l, z)[i + 1] = z[i]
    BY <1>5, UnderFacts
  <2> QED  BY <1>5, <1>6, <2>1
<1>8. IsSuffix(z, u)
  <2>1. PICK rz, ru : rz = Reverse(z) /\ ru = Reverse(u)  OBVIOUS
  <2>2. /\ rz \in Seq(T) /\ Len(rz) = Len(z) /\ \A i \in 1..Len(z) : rz[i] = z[Len(z) - i + 1]
        /\ ru \in Seq(T) /\ Len(ru) = Len(z) + 1
        /\ \A i \in 1..(Len(z) + 1) : ru[i] = u[(Len(z) + 1) - i + 1]
    BY <1>5, <1>7, <2>1 DEF Reverse
  <2>3. ASSUME NEW i \in 1..Len(z) PROVE rz[i] = ru[i]
    <3> HIDE DEF host, r
    <3>1. Len(z) - i + 1 \in 1..Len(z)  BY <1>7
    <3>2. PICK j \in 1..Len(z) : j = Len(z) - i + 1  BY <3>1
    <3>3. i \in 1..(Len(z) + 1) /\ (Len(z) + 1) - i + 1 = j + 1  BY <1>7, <3>2
    <3>4. ru[i] = u[j + 1] /\ rz[i] = z[j]  BY <2>2, <3>2, <3>3
    <3> QED  BY <1>7, <3>4
  <2>4. SubSeq(rz, 1, Len(z)) = SubSeq(ru, 1, Len(z))  BY <1>7, <2>2, <2>3
  <2>5. IsPrefix(rz, ru)  BY <1>7, <2>2, <2>4 DEF IsPrefix
  <2> QED  BY <2>1, <2>5 DEF IsSuffix
<1>9. z \in ZonesOf(host)  BY <1>1, <1>4, <1>6, <1>8 DEF ZonesOf
<1>10. /\ r.ok = TRUE /\ r.prefix \in Paths /\ r.prefix \o Norm(r.domain.name) = Norm(host)
       /\ Norm(r.domain.name) \in added /\ \A y \in ZonesOf(host) : Len(y) <= Len(Norm(r.domain.name))
  BY <1>3, <1>9, ResolveFacts
<1>11. PICK p, y : /\ p = r.prefix /\ y = Norm(r.domain.name)
                   /\ p \in Paths /\ y \in Paths /\ y \in added /\ p \o y = u /\ Len(z) <= Len(y)
  BY <1>4, <1>6, <1>9, <1>10 DEF TrieInv
<1>12. y # u  BY <1>1, <1>6, <1>11
<1>13. PICK k : k = Len(z) /\ k \in Nat  BY <1>7
<1>14. p = <<l>>
  <2>1. p \in Seq(AllLabels) /\ y \in Seq(AllLabels) /\ p \o y = u  BY <1>11 DEF Paths
  <2>2. Len(u) = k + 1 /\ u[1] = l /\ k <= Len(y)  BY <1>7, <1>11, <1>13
  <2> QED  BY <1>12, <1>13, <2>1, <2>2, OneBefore
<1> QED  BY <1>10, <1>11, <1>14

\* The last token is one of a row, and every domain that the bootstrap has passed
\* is in the trie unless it was left out; the memory store leaves none out.
ServedInv ==
  /\ told = NoToken
     \/ /\ told.value \in Labels
        /\ told.domain \in DOMAIN domains /\ domains[told.domain].name = told.name
  /\ mode = "memory" => skipped = {}
  /\ at \in Nat
  /\ \A i \in DOMAIN cfg : i < at => i \in skipped \/ Norm(cfg[i].name) \in added
  /\ serving => cfg # <<>> /\ at > Len(cfg)

LEMMA ServedFollows == BootInv /\ ServedInv => TokenIsServed
<1> SUFFICES ASSUME BootInv, ServedInv, serving, told # NoToken PROVE
      /\ ShownDomain(told) = told.name
      /\ Norm(told.name) # <<>> /\ <<told.value>> \o Norm(told.name) \notin added
           /\ (mode = "memory" \/ Configured(told.name)) =>
           LET r == Resolve(<<told.value>> \o told.name)
           IN  r.ok /\ r.prefix = <<told.value>>
  BY DEF TokenIsServed
<1>1. /\ told.value \in Labels /\ told.domain \in DOMAIN domains
      /\ domains[told.domain].name = told.name
  BY DEF ServedInv
<1>2. ShownDomain(told) = told.name  BY <1>1 DEF ShownDomain, GetDomain
<1>3. domains \in Seq(Row) /\ told.domain \in 1..Len(domains) /\ domains[told.domain] \in Row
  <2>1. domains \in Seq(Row)  BY DEF BootInv, RowsInv
  <2> QED  BY <1>1, <2>1
<1>4. PICK e \in Entries : told.name = e.name  BY <1>1, <1>3 DEF Row
<1>5. ASSUME Norm(told.name) # <<>>, <<told.value>> \o Norm(told.name) \notin added,
             mode = "memory" \/ Configured(told.name)
      PROVE  LET r == Resolve(<<told.value>> \o told.name)
             IN  r.ok /\ r.prefix = <<told.value>>
  <2>1. PICK i \in DOMAIN cfg : i \notin skipped /\ Norm(cfg[i].name) = Norm(told.name)
    <3>1. CASE mode = "memory"
      <4>1. \E i \in DOMAIN cfg : cfg[i].name = domains[told.domain].name
        BY <1>3, <3>1 DEF BootInv, RowsInv
      <4>2. skipped = {}  BY <3>1 DEF ServedInv
      <4> QED  BY <1>1, <4>1, <4>2
    <3>2. CASE Configured(told.name)  BY <3>2 DEF Configured
    <3> QED  BY <1>5, <3>1, <3>2
  <2>2. cfg \in Configs /\ cfg # <<>> /\ at > Len(cfg)  BY DEF ServedInv, BootInv, RowsInv
  <2>3. i < at
    <3>1. PICK S : cfg \in Seq(S)  BY <2>2, BootAssumption
    <3> QED  BY <2>1, <2>2, <3>1 DEF ServedInv
  <2>4. Norm(told.name) \in added  BY <2>1, <2>3 DEF ServedInv
  <2>5. TrieInv  BY DEF BootInv, TrieAndScan
  <2> QED  BY <1>1, <1>4, <1>5, <2>4, <2>5, FoundUnder DEF Under
<1> QED  BY <1>2, <1>5

LEMMA ServedStep == BootInv /\ ServedInv /\ [BootNext]_bootVars => ServedInv'
<1> SUFFICES ASSUME BootInv, ServedInv, [BootNext]_bootVars PROVE ServedInv'  OBVIOUS
<1>1. domains \in Seq(Row) /\ DOMAIN domains = 1..Len(domains) /\ Len(domains) \in Nat
      /\ \A k \in 1..Len(domains) : domains[k].id = k
  BY DEF BootInv, RowsInv
<1>2. ASSUME NEW c \in Configs, Start(c) PROVE ServedInv'
  <2>1. PICK S : c \in Seq(S)  BY BootAssumption
  <2>2. \A i \in DOMAIN c : ~(i < 1)  BY <2>1
  <2>3. cfg' = c /\ at' = 1 /\ skipped' = {} /\ ~serving
        /\ UNCHANGED <<serving, mode, domains, told>>
    BY <1>2 DEF Start, ServedInv, resVars
  <2> QED  BY <2>2, <2>3 DEF ServedInv
<1>3. CASE Register
  <2>1. /\ cfg \in Configs /\ at \in DOMAIN cfg
        /\ ~serving /\ at' = at + 1 /\ UNCHANGED <<serving, mode, cfg, told, skipped>>
    BY <1>3, EntryFacts DEF Register, Registering
  <2>2. PICK d : /\ Add(d) /\ d.name = cfg[at].name
                 /\ domains' = domains \/ domains' = Append(domains, NewRow)
    <3>1. NewRow.name = cfg[at].name  BY DEF NewRow
    <3> QED  BY <1>3, <3>1 DEF Register, GetDomainByName
  <2>3. added' = added \cup {Norm(cfg[at].name)}  BY <2>2 DEF Add, Insert
  <2>4. \A k \in DOMAIN domains : k \in DOMAIN domains' /\ domains'[k] = domains[k]
    BY <1>1, <2>2
  <2>5. ASSUME NEW i \in DOMAIN cfg', i < at' PROVE i \in skipped' \/ Norm(cfg'[i].name) \in added'
    <3>1. PICK S : cfg \in Seq(S)  BY <2>1, BootAssumption
    <3>2. i < at \/ i = at  BY <2>1, <2>5, <3>1 DEF ServedInv
    <3> QED  BY <2>1, <2>3, <3>2 DEF ServedInv
  <2> QED  BY <2>1, <2>4, <2>5 DEF ServedInv
<1>4. CASE RegisterFails
  <2>1. /\ cfg \in Configs /\ at \in DOMAIN cfg /\ mode = "sqlite"
        /\ ~serving /\ at' = at + 1 /\ skipped' = skipped \cup {at}
        /\ UNCHANGED <<serving, mode, cfg, told, domains, added>>
    BY <1>4, EntryFacts DEF RegisterFails, Registering, trieVars
  <2>2. ASSUME NEW i \in DOMAIN cfg', i < at' PROVE i \in skipped' \/ Norm(cfg'[i].name) \in added'
    <3>1. PICK S : cfg \in Seq(S)  BY <2>1, BootAssumption
    <3>2. i < at \/ i = at  BY <2>1, <2>2, <3>1 DEF ServedInv
    <3> QED  BY <2>1, <3>2 DEF ServedInv
  <2> QED  BY <2>1, <2>2 DEF ServedInv
<1>5. CASE Serve
  BY <1>5 DEF Serve, ServedInv, trieVars
<1>6. CASE Down
  <2>1. cfg' = <<>> /\ at' = 1 /\ skipped' = {} /\ serving' = FALSE
    BY <1>6 DEF Down, ResDown
  <2>2. told' = NoToken \/ (told' = told /\ domains' = domains)  BY <1>6 DEF Down
  <2> QED  BY <2>1, <2>2 DEF ServedInv
<1>7. ASSUME NEW t \in Labels, NEW name, CreateToken(t, name) PROVE ServedInv'
  <2>1. PICK d \in Chosen(name) : told' = [value |-> t, domain |-> d.id, name |-> d.name]
    BY <1>7 DEF CreateToken
  <2>2. PICK k \in 1..Len(domains) : d = domains[k]
    <3>1. domains # <<>>  BY <1>7 DEF CreateToken, ListDomains
    <3>2. 1 \in 1..Len(domains)  BY <1>1, <3>1
    <3> QED  BY <1>1, <2>1, <3>2 DEF Chosen, ListDomains, GetDomainByName, Range
  <2>3. told'.value = t /\ told'.domain = k /\ told'.name = domains[k].name
    BY <1>1, <2>1, <2>2
  <2>4. UNCHANGED <<serving, added, mode, cfg, at, skipped, domains>>
    BY <1>7 DEF CreateToken, TokenStored, trieVars
  <2> QED  BY <1>1, <2>3, <2>4 DEF ServedInv
<1>8. ASSUME NEW t \in Labels, DropToken(t) PROVE ServedInv'
  BY <1>8 DEF DropToken, TokenGone, ServedInv, trieVars
<1>9. CASE Collector \/ UNCHANGED bootVars
  BY <1>9 DEF Collector, Begin, Lookup, LookupFails, ServedInv, bootVars, resVars, trieVars
<1> QED  BY <1>2, <1>3, <1>4, <1>5, <1>6, <1>7, <1>8, <1>9 DEF BootNext

-----------------------------------------------------------------------------

\* The trie answers with the longest zone that a name lies in, for all names and
\* zones and however these nest and follow each other.
THEOREM TrieIsRight == BootSpec => []LongestZoneWins
<1>1. BootInv => LongestZoneWins  BY TrieFindsLongest DEF BootInv, TrieAndScan
<1> QED  BY <1>1, BootInvInit, BootInvStep, PTL DEF BootSpec

\* What is served is what the store has and the file names, through any number
\* of restarts with any files.
THEOREM TrieStaysInSync == BootSpec => []TrieInSync
<1>1. BootInv => TrieInSync  BY DEF BootInv
<1> QED  BY <1>1, BootInvInit, BootInvStep, PTL DEF BootSpec

\* A request is never recorded past a token that was there all through its scan
\* and whose lookup did not fail.
THEOREM ScanIsRight == BootSpec => []ScanFindsSteadyToken
<1>1. BootInv => ScanFindsSteadyToken
  BY DEF BootInv, TrieAndScan, ScanInv, ScanFindsSteadyToken
<1> QED  BY <1>1, BootInvInit, BootInvStep, PTL DEF BootSpec

\* The list shows a token under the domain its browser was told, and a request for
\* the token before that domain resolves to the token alone, whatever the zones,
\* their order and the files of earlier starts, wherever the domain is served at
\* all and no zone inside it has the token's value as its label.
THEOREM TokensAreServed == BootSpec => []TokenIsServed
<1>1. BootInit => ServedInv
  BY DEF BootInit, ResInit, ServedInv
<1> QED  BY <1>1, BootInvInit, BootInvStep, ServedStep, ServedFollows, PTL DEF BootSpec
=============================================================================
