------------------------------ MODULE SeqFacts ------------------------------
(* What appending to, taking from and joining sequences does to their      *)
(* ranges and to their being free of repetitions; the newest elements of a *)
(* finite set, as the caps of the stores keep them.                        *)
EXTENDS Integers, Sequences, FiniteSets, Functions, SequenceTheorems, FiniteSetTheorems,
        WellFoundedInduction, TLAPS

\* The empty sequence holds nothing, and holds it once.
LEMMA EmptySeqFacts == Range(<<>>) = {} /\ IsInjective(<<>>)
  BY DEF Range, IsInjective

\* Append adds one element at the end.
LEMMA RangeAppend ==
  ASSUME NEW S, NEW s \in Seq(S), NEW e \in S
  PROVE  Range(Append(s, e)) = Range(s) \cup {e}
<1> DEFINE t == Append(s, e)
<1>1. t \in Seq(S) /\ DOMAIN t = 1..(Len(s) + 1) /\ DOMAIN s = 1..Len(s)
  OBVIOUS
<1>2. t[Len(s) + 1] = e /\ \A i \in 1..Len(s) : t[i] = s[i]
  OBVIOUS
<1>3. ASSUME NEW x \in Range(t) PROVE x \in Range(s) \cup {e}
  <2>1. PICK i \in 1..(Len(s) + 1) : x = t[i]  BY <1>1 DEF Range
  <2>2. CASE i = Len(s) + 1  BY <2>1, <2>2, <1>2
  <2>3. CASE i \in 1..Len(s)  BY <2>1, <2>3, <1>1, <1>2 DEF Range
  <2> QED  BY <2>2, <2>3
<1>4. ASSUME NEW x \in Range(s) \cup {e} PROVE x \in Range(t)
  BY <1>1, <1>2 DEF Range
<1> QED  BY <1>3, <1>4

\* A new element keeps a sequence free of repetitions.
LEMMA InjectiveAppend ==
  ASSUME NEW S, NEW s \in Seq(S), NEW e \in S, IsInjective(s), e \notin Range(s)
  PROVE  IsInjective(Append(s, e))
<1> DEFINE t == Append(s, e)
<1>1. DOMAIN t = 1..(Len(s) + 1) /\ DOMAIN s = 1..Len(s)
  OBVIOUS
<1>2. t[Len(s) + 1] = e /\ \A i \in 1..Len(s) : t[i] = s[i] /\ s[i] # e
  BY <1>1 DEF Range
<1>3. ASSUME NEW a \in DOMAIN t, NEW b \in DOMAIN t, t[a] = t[b] PROVE a = b
  BY <1>1, <1>2, <1>3 DEF IsInjective
<1> QED  BY <1>3 DEF IsInjective

\* Taking the head of a sequence without repetitions takes it from its range.
LEMMA TailFacts ==
  ASSUME NEW S, NEW s \in Seq(S), s # <<>>, IsInjective(s)
  PROVE  /\ Head(s) \in S /\ Head(s) \in Range(s)
         /\ Tail(s) \in Seq(S) /\ Len(Tail(s)) = Len(s) - 1
         /\ Range(Tail(s)) = Range(s) \ {Head(s)}
         /\ IsInjective(Tail(s))
<1> DEFINE t == Tail(s)
<1>1. Head(s) \in S /\ Head(s) = s[1] /\ t \in Seq(S) /\ Len(t) = Len(s) - 1
      /\ 1 \in DOMAIN s
  OBVIOUS
<1>2. DOMAIN s = 1..Len(s) /\ DOMAIN t = 1..(Len(s) - 1)
      /\ \A i \in 1..(Len(s) - 1) : t[i] = s[i + 1]
  OBVIOUS
<1>3. IsInjective(t)
  BY <1>1, <1>2 DEF IsInjective
<1>4. ASSUME NEW x \in Range(t) PROVE x \in Range(s) \ {Head(s)}
  <2>1. PICK i \in 1..(Len(s) - 1) : x = s[i + 1]  BY <1>2 DEF Range
  <2> QED  BY <2>1, <1>1, <1>2 DEF Range, IsInjective
<1>5. ASSUME NEW x \in Range(s) \ {Head(s)} PROVE x \in Range(t)
  <2>1. PICK i \in 1..Len(s) : x = s[i]  BY <1>2 DEF Range
  <2>2. i # 1 /\ i - 1 \in 1..(Len(s) - 1)  BY <2>1, <1>1, <1>2
  <2>3. x = t[i - 1]  BY <2>1, <2>2, <1>2
  <2> QED  BY <2>2, <2>3, <1>2 DEF Range
<1> QED  BY <1>1, <1>2, <1>3, <1>4, <1>5 DEF Range

\* Joining two sequences that share nothing creates no repetition. (That it
\* joins their ranges is RangeConcatenation of SequenceTheorems.)
LEMMA InjectiveConcat ==
  ASSUME NEW S, NEW s \in Seq(S), NEW t \in Seq(S),
         IsInjective(s), IsInjective(t), Range(s) \cap Range(t) = {}
  PROVE  IsInjective(s \o t)
<1> DEFINE u == s \o t
<1>1. /\ DOMAIN u = 1..(Len(s) + Len(t))
      /\ DOMAIN s = 1..Len(s) /\ DOMAIN t = 1..Len(t)
      /\ Len(s) \in Nat /\ Len(t) \in Nat
  OBVIOUS
<1>2. /\ \A i \in 1..Len(s) : u[i] = s[i] /\ u[i] \in Range(s)
      /\ \A i \in 1..(Len(s) + Len(t)) : i > Len(s) =>
           /\ i - Len(s) \in 1..Len(t)
           /\ u[i] = t[i - Len(s)] /\ u[i] \in Range(t)
  BY <1>1 DEF Range
<1>3. ASSUME NEW a \in DOMAIN u, NEW b \in DOMAIN u, u[a] = u[b] PROVE a = b
  <2>1. CASE a <= Len(s) /\ b <= Len(s)
    BY <2>1, <1>1, <1>2, <1>3 DEF IsInjective
  <2>2. CASE a > Len(s) /\ b > Len(s)
    <3>1. t[a - Len(s)] = t[b - Len(s)]  BY <2>2, <1>1, <1>2, <1>3
    <3>2. a - Len(s) \in DOMAIN t /\ b - Len(s) \in DOMAIN t  BY <2>2, <1>1, <1>2
    <3>3. a - Len(s) = b - Len(s)  BY <3>1, <3>2 DEF IsInjective
    <3> QED  BY <3>3, <1>1
  <2>3. CASE a <= Len(s) /\ b > Len(s)  BY <2>3, <1>1, <1>2, <1>3
  <2>4. CASE a > Len(s) /\ b <= Len(s)  BY <2>4, <1>1, <1>2, <1>3
  <2> QED  BY <2>1, <2>2, <2>3, <2>4, <1>1
<1> QED  BY <1>3 DEF IsInjective

\* A sequence without repetitions has as many elements as it is long.
LEMMA CardinalityOfRange ==
  ASSUME NEW S, NEW s \in Seq(S), IsInjective(s)
  PROVE  IsFiniteSet(Range(s)) /\ Cardinality(Range(s)) = Len(s)
<1>1. Len(s) \in Nat /\ DOMAIN s = 1..Len(s)  OBVIOUS
<1>2. IsFiniteSet(1..Len(s)) /\ Cardinality(1..Len(s)) = Len(s)
  BY <1>1, FS_Interval
<1>3. s \in [1..Len(s) -> Range(s)]
  <2>1. s = [i \in 1..Len(s) |-> s[i]]  BY <1>1
  <2>2. \A i \in 1..Len(s) : s[i] \in Range(s)  BY <1>1 DEF Range
  <2> QED  BY <2>1, <2>2
<1>4. \A x \in Range(s) : \E i \in 1..Len(s) : s[i] = x
  BY <1>1 DEF Range
<1>5. s \in Bijection(1..Len(s), Range(s))
  BY <1>3, <1>4 DEF Bijection, Injection, Surjection
<1> QED  BY <1>2, <1>5, FS_Bijection DEF ExistsBijection

-----------------------------------------------------------------------------
(* The newest elements of a set.                                           *)

\* Those no younger than x, and the elements with at most n such.
Above(S, key, x) == {y \in S : key[y] >= key[x]}
NewestBy(S, key, n) == {x \in S : Cardinality(Above(S, key, x)) <= n}

\* A set of natural numbers that is not empty has a least element.
LEMMA LeastNatural ==
  ASSUME NEW T, T \subseteq Nat, T # {}
  PROVE  \E x \in T : \A y \in T : x <= y
<1>1. PICK x \in T : \A y \in T : ~(<<y, x>> \in OpToRel(<, Nat))
  BY NatLessThanWellFounded, WFMin
<1>2. ASSUME NEW y \in T PROVE x <= y
  <2>1. x \in Nat /\ y \in Nat  OBVIOUS
  <2>2. ~(y < x)  BY <1>1, <2>1 DEF OpToRel
  <2> QED  BY <2>1, <2>2
<1> QED  BY <1>2

LEMMA AboveFacts ==
  ASSUME NEW S, IsFiniteSet(S), NEW key \in [S -> Nat], NEW x \in S
  PROVE  /\ IsFiniteSet(Above(S, key, x)) /\ Cardinality(Above(S, key, x)) \in Nat
         /\ x \in Above(S, key, x) /\ Above(S, key, x) \subseteq S
         /\ \A y \in S : key[y] >= key[x] =>
              /\ Above(S, key, y) \subseteq Above(S, key, x)
              /\ Cardinality(Above(S, key, y)) <= Cardinality(Above(S, key, x))
<1>1. Above(S, key, x) \subseteq S /\ x \in Above(S, key, x)
  BY DEF Above
<1>2. IsFiniteSet(Above(S, key, x))  BY <1>1, FS_Subset
<1>3. ASSUME NEW y \in S, key[y] >= key[x]
      PROVE  /\ Above(S, key, y) \subseteq Above(S, key, x)
             /\ Cardinality(Above(S, key, y)) <= Cardinality(Above(S, key, x))
  <2>1. key[x] \in Nat /\ key[y] \in Nat /\ \A z \in S : key[z] \in Nat  OBVIOUS
  <2>2. Above(S, key, y) \subseteq Above(S, key, x)  BY <1>3, <2>1 DEF Above
  <2> QED  BY <1>2, <2>2, FS_Subset
<1> QED  BY <1>1, <1>2, <1>3, FS_CardinalityType

\* They are at most n, they are younger than the others, and there are n of them
\* if there are others.
LEMMA NewestFacts ==
  ASSUME NEW S, IsFiniteSet(S), NEW key \in [S -> Nat], IsInjective(key), NEW n \in Nat
  PROVE  LET N == NewestBy(S, key, n) IN
         /\ N \subseteq S /\ IsFiniteSet(N) /\ Cardinality(N) \in Nat
         /\ Cardinality(N) <= n
         /\ \A x \in S \ N : \A y \in N : key[y] > key[x]
         /\ S # N => Cardinality(N) = n
<1> DEFINE N == NewestBy(S, key, n)
           size(x) == Cardinality(Above(S, key, x))
<1>1. \A x \in S : key[x] \in Nat /\ size(x) \in Nat
  BY AboveFacts
<1>2. N \subseteq S /\ IsFiniteSet(N) /\ Cardinality(N) \in Nat
      /\ \A x \in S : x \in N <=> size(x) <= n
  <2>1. N \subseteq S /\ \A x \in S : x \in N <=> size(x) <= n  BY DEF NewestBy
  <2> QED  BY <2>1, FS_Subset, FS_CardinalityType
<1>3. Cardinality(N) <= n
  <2>1. CASE N = {}  BY <2>1, FS_EmptySet
  <2>2. CASE N # {}
    <3>1. {key[x] : x \in N} \subseteq Nat /\ {key[x] : x \in N} # {}
      BY <1>1, <1>2, <2>2
    <3>2. PICK k \in {key[x] : x \in N} : \A l \in {key[x] : x \in N} : k <= l
      BY <3>1, LeastNatural
    <3>3. PICK x \in N : k = key[x]  BY <3>2
    <3>4. N \subseteq Above(S, key, x)  BY <1>1, <1>2, <3>2, <3>3 DEF Above
    <3>5. Cardinality(N) <= size(x)  BY <1>2, <3>3, <3>4, AboveFacts, FS_Subset
    <3> QED  BY <1>1, <1>2, <3>3, <3>5
  <2> QED  BY <2>1, <2>2
<1>4. ASSUME NEW x \in S \ N, NEW y \in N PROVE key[y] > key[x]
  <2>1. y \in S /\ x \in S /\ key[y] \in Nat /\ key[x] \in Nat /\ size(y) <= n /\ ~(size(x) <= n)
    BY <1>1, <1>2, <1>4
  <2>2. key[x] >= key[y] => size(x) <= size(y)  BY <2>1, AboveFacts
  <2> QED  BY <1>1, <2>1, <2>2
<1>5. ASSUME S # N PROVE Cardinality(N) = n
  <2>1. {size(x) : x \in S \ N} \subseteq Nat /\ {size(x) : x \in S \ N} # {}
    BY <1>1, <1>2, <1>5
  <2> HIDE DEF size
  <2>2. PICK k \in {size(x) : x \in S \ N} : \A l \in {size(x) : x \in S \ N} : k <= l
    BY <2>1, LeastNatural
  <2>3. PICK x \in S \ N : k = size(x)  BY <2>2
  <2> DEFINE U == Above(S, key, x)
  <2>4. IsFiniteSet(U) /\ x \in U /\ U \subseteq S /\ Cardinality(U) = size(x)
    BY <2>3, AboveFacts DEF size
  <2>5. ASSUME NEW y \in U \ {x} PROVE y \in N
    <3>1. y \in S /\ key[y] >= key[x] /\ key[y] # key[x]
      BY <2>3, <2>4, <2>5 DEF U, Above, IsInjective
    <3>2. Above(S, key, y) \subseteq U /\ x \notin Above(S, key, y)
      BY <1>1, <2>3, <3>1, AboveFacts DEF Above
    <3>3. size(y) <= size(x) /\ size(y) # size(x)
      BY <2>4, <3>2, FS_Subset DEF size
    <3>4. y \notin S \ N  BY <1>1, <2>2, <2>3, <3>1, <3>3
    <3> QED  BY <3>1, <3>4
  <2>6. Cardinality(U \ {x}) = size(x) - 1  BY <2>4, FS_RemoveElement
  <2>7. Cardinality(U \ {x}) <= Cardinality(N)
    <3>1. U \ {x} \subseteq N  BY <2>5
    <3> QED  BY <1>2, <3>1, FS_Subset
  <2>8. size(x) \in Nat /\ ~(size(x) <= n)  BY <1>1, <1>2, <2>3 DEF size
  <2> QED  BY <1>2, <1>3, <2>6, <2>7, <2>8
<1> QED  BY <1>2, <1>3, <1>4, <1>5

\* Nothing else has these properties.
LEMMA NewestUnique ==
  ASSUME NEW S, IsFiniteSet(S), NEW key \in [S -> Nat], NEW n \in Nat,
         NEW T, T \subseteq S, Cardinality(T) <= n,
         \A x \in S \ T : \A y \in T : key[y] > key[x],
         S # T => Cardinality(T) = n
  PROVE  T = NewestBy(S, key, n)
<1>1. IsFiniteSet(T) /\ Cardinality(T) \in Nat  BY FS_Subset, FS_CardinalityType
<1>2. \A x \in S : key[x] \in Nat  OBVIOUS
<1>3. ASSUME NEW x \in T PROVE x \in NewestBy(S, key, n)
  <2>1. Above(S, key, x) \subseteq T  BY <1>2 DEF Above
  <2>2. Cardinality(Above(S, key, x)) <= Cardinality(T)  BY <1>1, <2>1, FS_Subset
  <2>3. Cardinality(Above(S, key, x)) \in Nat  BY AboveFacts
  <2> QED  BY <1>1, <2>2, <2>3 DEF NewestBy
<1>4. ASSUME NEW x \in S \ T PROVE x \notin NewestBy(S, key, n)
  <2>1. T \cup {x} \subseteq Above(S, key, x)  BY <1>2 DEF Above
  <2>2. Cardinality(T \cup {x}) = n + 1  BY <1>1, <1>4, FS_AddElement
  <2>3. IsFiniteSet(Above(S, key, x)) /\ Cardinality(Above(S, key, x)) \in Nat  BY AboveFacts
  <2>4. n + 1 <= Cardinality(Above(S, key, x))  BY <2>1, <2>2, <2>3, FS_Subset
  <2> QED  BY <2>3, <2>4 DEF NewestBy
<1> QED  BY <1>3, <1>4 DEF NewestBy

-----------------------------------------------------------------------------
(* Sorting a set.                                                          *)

\* A strict total order on S.
Orders(R, S) ==
  /\ \A x \in S : <<x, x>> \notin R
  /\ \A x, y \in S : x # y => <<x, y>> \in R \/ <<y, x>> \in R
  /\ \A x, y, z \in S : <<x, y>> \in R /\ <<y, z>> \in R => <<x, z>> \in R

Rank(S, R, x) == Cardinality({y \in S : <<y, x>> \in R})

\* The ranks of the n elements of a set are 0 to n - 1, in the order's order.
LEMMA RankFacts ==
  ASSUME NEW S, IsFiniteSet(S), NEW R, Orders(R, S)
  PROVE  /\ \A x, y \in S : <<x, y>> \in R => Rank(S, R, x) < Rank(S, R, y)
         /\ \A x, y \in S : Rank(S, R, x) = Rank(S, R, y) => x = y
         /\ \A i \in 1..Cardinality(S) : \E x \in S : Rank(S, R, x) = i - 1
<1> DEFINE P(x) == {y \in S : <<y, x>> \in R}
           n == Cardinality(S)
           f == [x \in S |-> Rank(S, R, x)]
<1>1. \A x \in S : IsFiniteSet(P(x)) /\ Rank(S, R, x) = Cardinality(P(x)) /\ Rank(S, R, x) \in Nat
  BY FS_Subset, FS_CardinalityType DEF Rank
<1>2. n \in Nat  BY FS_CardinalityType
<1>3. ASSUME NEW x \in S, NEW y \in S, <<x, y>> \in R
      PROVE  Rank(S, R, x) < Rank(S, R, y)
  <2>1. P(x) \subseteq P(y) /\ x \in P(y) /\ x \notin P(x)  BY <1>3 DEF Orders
  <2>2. P(x) # P(y)  BY <2>1
  <2> HIDE DEF P
  <2>3. Cardinality(P(x)) <= Cardinality(P(y)) /\ Cardinality(P(x)) # Cardinality(P(y))
    BY <1>1, <2>1, <2>2, FS_Subset
  <2> QED  BY <1>1, <2>3
<1>4. ASSUME NEW x \in S, NEW y \in S, Rank(S, R, x) = Rank(S, R, y) PROVE x = y
  <2>1. Rank(S, R, x) \in Nat /\ Rank(S, R, y) \in Nat  BY <1>1
  <2>2. <<x, y>> \notin R /\ <<y, x>> \notin R  BY <1>3, <1>4, <2>1
  <2> QED  BY <2>2 DEF Orders
<1>5. \A x \in S : Rank(S, R, x) \in 0..(n - 1)
  <2> SUFFICES ASSUME NEW x \in S PROVE Rank(S, R, x) \in 0..(n - 1)
    OBVIOUS
  <2>1. P(x) \subseteq S /\ P(x) # S  BY DEF Orders
  <2> HIDE DEF P
  <2>2. Cardinality(P(x)) <= n /\ Cardinality(P(x)) # n  BY <2>1, FS_Subset
  <2> QED  BY <1>1, <1>2, <2>2
<1>6. Range(f) = 0..(n - 1)
  <2>1. Range(f) \subseteq 0..(n - 1)  BY <1>5 DEF Range
  <2>2. f \in Bijection(S, Range(f))
    <3>1. f \in [S -> Range(f)] /\ \A r \in Range(f) : \E x \in S : f[x] = r
      BY DEF Range
    <3>2. \A x, y \in S : f[x] = f[y] => x = y  BY <1>4
    <3> HIDE DEF f
    <3> QED  BY <3>1, <3>2 DEF Bijection, Injection, Surjection, IsInjective
  <2>3. Cardinality(Range(f)) = n
    BY <2>2, FS_Bijection DEF ExistsBijection
  <2>4. IsFiniteSet(0..(n - 1)) /\ Cardinality(0..(n - 1)) = n
    BY <1>2, FS_Interval
  <2> QED  BY <2>1, <2>3, <2>4, FS_Subset
<1>7. ASSUME NEW i \in 1..n PROVE \E x \in S : Rank(S, R, x) = i - 1
  <2>1. i - 1 \in Range(f)  BY <1>2, <1>6
  <2> QED  BY <2>1 DEF Range
<1> QED  BY <1>3, <1>4, <1>7

\* The sequence of the elements by rank lists the set, in the order's order.
LEMMA RankedFacts ==
  ASSUME NEW S, IsFiniteSet(S), NEW R, Orders(R, S),
         NEW s, s = [i \in 1..Cardinality(S) |-> s[i]],
         \A i \in 1..Cardinality(S) : s[i] \in S /\ Rank(S, R, s[i]) = i - 1
  PROVE  /\ s \in Seq(S) /\ Len(s) = Cardinality(S) /\ Range(s) = S
         /\ \A i, j \in DOMAIN s : i < j => <<s[i], s[j]>> \in R
<1> DEFINE n == Cardinality(S)
<1>1. n \in Nat /\ DOMAIN s = 1..n  BY FS_CardinalityType
<1>2. s \in Seq(S) /\ Len(s) = n
  <2>1. s \in [1..n -> S]  OBVIOUS
  <2> QED  BY <1>1, <2>1
<1>3. \A x \in S : Rank(S, R, x) \in Nat
  BY FS_Subset, FS_CardinalityType DEF Rank
<1>4. ASSUME NEW x \in S PROVE x \in Range(s)
  <2> DEFINE B == {y \in S : <<y, x>> \in R}
  <2>1. B \subseteq S /\ B # S  BY DEF Orders
  <2> HIDE DEF B
  <2>2. Cardinality(B) <= n /\ Cardinality(B) # n  BY <2>1, FS_Subset
  <2>3. Rank(S, R, x) = Cardinality(B)  BY DEF Rank, B
  <2>4. PICK i \in 1..n : Rank(S, R, x) = i - 1
    <3>1. PICK r \in Nat : r = Rank(S, R, x)  BY <1>3
    <3>2. r + 1 \in 1..n /\ r = (r + 1) - 1  BY <1>1, <2>2, <2>3, <3>1
    <3> QED  BY <3>1, <3>2
  <2>5. s[i] \in S /\ Rank(S, R, s[i]) = Rank(S, R, x)  BY <2>4
  <2>6. s[i] = x  BY <2>5, RankFacts
  <2> QED  BY <1>1, <2>4, <2>6 DEF Range
<1>5. Range(s) = S  BY <1>1, <1>4 DEF Range
<1>6. ASSUME NEW i \in DOMAIN s, NEW j \in DOMAIN s, i < j PROVE <<s[i], s[j]>> \in R
  <2>1. s[i] \in S /\ s[j] \in S /\ Rank(S, R, s[i]) < Rank(S, R, s[j])
    BY <1>1, <1>6
  <2>2. s[i] # s[j] /\ ~(<<s[j], s[i]>> \in R)
    BY <1>3, <2>1, RankFacts
  <2> QED  BY <2>1, <2>2 DEF Orders
<1> QED  BY <1>2, <1>5, <1>6
=============================================================================
