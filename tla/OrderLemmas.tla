---------------------------- MODULE OrderLemmas ----------------------------
(* Facts about smallest and greatest numbers, and about the rank of a number *)
(* in a set, which the other proofs cite.  The well-foundedness of < on Nat   *)
(* stands in for induction: what holds for all numbers has no least           *)
(* counterexample.                                                            *)
EXTENDS Integers, FiniteSetsExt, FiniteSetTheorems, WellFoundedInduction, TLAPS

\* A set of natural numbers has a least one.
LEMMA LeastNumber ==
  ASSUME NEW S, S \subseteq Nat, S # {}
  PROVE  \E x \in S : \A y \in S : x =< y
<1>1. PICK x \in S : \A y \in S : ~(<<y, x>> \in OpToRel(<, Nat))
  BY WFMin, NatLessThanWellFounded, Zenon
<1>2. ASSUME NEW y \in S PROVE x =< y
  <2>1. x \in Nat /\ y \in Nat
    OBVIOUS
  <2>2. ~(y < x)
    BY <1>1, <2>1 DEF OpToRel
  <2>3. QED
    BY <2>1, <2>2
<1>3. QED
  BY <1>2

\* Min finds it.
LEMMA MinFacts ==
  ASSUME NEW S, S \subseteq Nat, S # {}
  PROVE  Min(S) \in S /\ \A y \in S : Min(S) =< y
  BY LeastNumber DEF Min

\* A bounded set of natural numbers has a greatest one, which Max finds.
LEMMA MaxFacts ==
  ASSUME NEW S, NEW n \in Nat, S \subseteq 0..n, S # {}
  PROVE  Max(S) \in S /\ \A y \in S : Max(S) >= y
<1> DEFINE D == {n - y : y \in S}
<1>0. \A y \in S : y \in Nat /\ y <= n
  OBVIOUS
<1>1. D \subseteq Nat /\ D # {}
  <2>1. \A y \in S : n - y \in Nat
    BY <1>0
  <2>2. QED
    BY <2>1
<1>2. PICK e \in D : \A d \in D : e =< d
  BY <1>1, LeastNumber
<1>3. PICK x \in S : e = n - x
  OBVIOUS
<1>4. ASSUME NEW y \in S PROVE x >= y
  <2>1. n - x =< n - y
    BY <1>2, <1>3
  <2>2. x \in Int /\ y \in Int
    OBVIOUS
  <2>3. QED
    BY <2>1, <2>2
<1>5. QED
  BY <1>4 DEF Max
-----------------------------------------------------------------------------
\* How many numbers of N are not greater than k.
Rank(N, k) == Cardinality({j \in N : j <= k})

\* From one number to the next the rank grows by one or not at all.
LEMMA RankFacts ==
  ASSUME NEW m \in Nat, NEW N, N \subseteq 1..m
  PROVE  /\ IsFiniteSet(N) /\ Cardinality(N) \in Nat
         /\ \A k \in Nat : Rank(N, k) \in Nat
         /\ Rank(N, 0) = 0
         /\ Rank(N, m) = Cardinality(N)
         /\ \A k \in Nat :
              /\ k + 1 \in N => Rank(N, k + 1) = Rank(N, k) + 1
              /\ k + 1 \notin N => Rank(N, k + 1) = Rank(N, k)
<1> DEFINE Below(k) == {j \in N : j <= k}
<1>0. \A j \in N : j \in Nat /\ 1 <= j /\ j <= m
  OBVIOUS
<1>1. IsFiniteSet(N)
  <2>1. IsFiniteSet(1..m) /\ N \in SUBSET (1..m)
    BY FS_Interval
  <2>2. QED
    BY <2>1, FS_Subset
<1>2. \A k : IsFiniteSet(Below(k)) /\ Cardinality(Below(k)) \in Nat
  BY <1>1, FS_Subset, FS_CardinalityType
<1>3. Below(0) = {} /\ Below(m) = N
  <2>1. \A j \in N : ~(j <= 0) /\ j <= m
    BY <1>0
  <2>2. QED
    BY <2>1
<1>4. ASSUME NEW k \in Nat
      PROVE  /\ k + 1 \in N => Below(k + 1) = Below(k) \cup {k + 1}
             /\ k + 1 \notin N => Below(k + 1) = Below(k)
             /\ k + 1 \notin Below(k)
  <2>1. \A j \in N : j <= k + 1 <=> j <= k \/ j = k + 1
    OBVIOUS
  <2>2. ~(k + 1 <= k) /\ k + 1 <= k + 1
    OBVIOUS
  <2>3. QED
    BY <2>1, <2>2
<1>5. \A k : Rank(N, k) = Cardinality(Below(k))
  BY DEF Rank
<1> HIDE DEF Below
<1>6. ASSUME NEW k \in Nat
      PROVE  /\ k + 1 \in N => Cardinality(Below(k + 1)) = Cardinality(Below(k)) + 1
             /\ k + 1 \notin N => Cardinality(Below(k + 1)) = Cardinality(Below(k))
  <2>1. Cardinality(Below(k) \cup {k + 1}) = Cardinality(Below(k)) + 1
    BY <1>2, <1>4, FS_AddElement
  <2>2. QED
    BY <2>1, <1>4
<1>7. QED
  BY <1>1, <1>2, <1>3, <1>5, <1>6, FS_EmptySet, FS_CardinalityType

\* Every rank up to the number of elements is the rank of an element.
LEMMA RankExists ==
  ASSUME NEW m \in Nat, NEW N, N \subseteq 1..m, NEW n \in 1..Cardinality(N)
  PROVE  \E k \in N : Rank(N, k) = n
<1>0. /\ Cardinality(N) \in Nat
      /\ \A k \in Nat : Rank(N, k) \in Nat
      /\ Rank(N, 0) = 0
      /\ Rank(N, m) = Cardinality(N)
  BY RankFacts
<1>a. \A k \in Nat :
        /\ k + 1 \in N => Rank(N, k + 1) = Rank(N, k) + 1
        /\ k + 1 \notin N => Rank(N, k + 1) = Rank(N, k)
  BY RankFacts
<1> DEFINE R == {k \in Nat : Rank(N, k) >= n}
<1>1. n \in Nat /\ n >= 1 /\ m \in R
  BY <1>0
<1>2. PICK l \in R : \A k \in R : l =< k
  BY <1>1, LeastNumber
<1>3. l # 0
  BY <1>0, <1>1, <1>2
<1>4. PICK k \in Nat : l = k + 1
  <2>1. l - 1 \in Nat /\ l = (l - 1) + 1
    BY <1>3
  <2>2. QED
    BY <2>1
<1>5. k \notin R
  BY <1>2, <1>4
<1>6. /\ Rank(N, k) \in Nat /\ Rank(N, k) < n /\ Rank(N, k + 1) >= n
      /\ k + 1 \in N => Rank(N, k + 1) = Rank(N, k) + 1
      /\ k + 1 \notin N => Rank(N, k + 1) = Rank(N, k)
  BY <1>0, <1>a, <1>1, <1>2, <1>4, <1>5
<1>7. k + 1 \in N /\ Rank(N, k + 1) = n
  BY <1>1, <1>6
<1>8. QED
  BY <1>7

\* Different elements have different ranks, in their order.
LEMMA RankGrows ==
  ASSUME NEW m \in Nat, NEW N, N \subseteq 1..m, NEW l \in N, NEW k \in Nat, k < l
  PROVE  Rank(N, k) < Rank(N, l)
<1> DEFINE Below(i) == {j \in N : j <= i}
<1>0. l \in Nat /\ \A j \in N : j \in Nat
  OBVIOUS
<1>1. IsFiniteSet(N) /\ Rank(N, k) \in Nat /\ Rank(N, l) \in Nat
  BY <1>0, RankFacts
<1>2. Below(k) \subseteq Below(l) /\ l \in Below(l) /\ l \notin Below(k)
  <2>1. \A j \in N : j <= k => j <= l
    BY <1>0
  <2>2. l <= l /\ ~(l <= k)
    BY <1>0
  <2>3. QED
    BY <2>1, <2>2
<1>3. IsFiniteSet(Below(l))
  BY <1>1, FS_Subset
<1>4. Cardinality(Below(k)) <= Cardinality(Below(l))
      /\ Cardinality(Below(k)) # Cardinality(Below(l))
  BY <1>2, <1>3, FS_Subset
<1>5. QED
  BY <1>1, <1>4 DEF Rank

\* So the rank tells the elements apart.
LEMMA RankIsUnique ==
  ASSUME NEW m \in Nat, NEW N, N \subseteq 1..m, NEW k \in N, NEW l \in N,
         Rank(N, k) = Rank(N, l)
  PROVE  k = l
<1>1. k \in Nat /\ l \in Nat
  OBVIOUS
<1>2. Rank(N, k) \in Nat
  BY <1>1, RankFacts
<1>3. ASSUME k < l PROVE FALSE
  <2>1. Rank(N, k) < Rank(N, l)
    BY <1>1, <1>3, RankGrows
  <2>2. QED
    BY <1>2, <2>1
<1>4. ASSUME l < k PROVE FALSE
  <2>1. Rank(N, l) < Rank(N, k)
    BY <1>1, <1>4, RankGrows
  <2>2. QED
    BY <1>2, <2>1
<1>5. QED
  BY <1>1, <1>3, <1>4

\* The rank of an element is at least one and at most their number.
LEMMA RankBounds ==
  ASSUME NEW m \in Nat, NEW N, N \subseteq 1..m, NEW k \in N
  PROVE  Rank(N, k) \in 1..Cardinality(N)
<1>1. k \in Nat /\ 0 < k /\ (k < m \/ k = m)
  OBVIOUS
<1>2. /\ Rank(N, 0) = 0 /\ Rank(N, m) = Cardinality(N)
      /\ Rank(N, k) \in Nat /\ Cardinality(N) \in Nat
  BY <1>1, RankFacts
<1>3. Rank(N, 0) < Rank(N, k)
  BY <1>1, RankGrows
<1>4. Rank(N, k) <= Cardinality(N)
  <2>1. {j \in N : j <= k} \subseteq N
    OBVIOUS
  <2>2. IsFiniteSet(N)
    BY RankFacts
  <2>3. QED
    BY <2>1, <2>2, FS_Subset DEF Rank
<1>5. QED
  BY <1>2, <1>3, <1>4
-----------------------------------------------------------------------------
\* A finite set of integers has a greatest one: the one with the fewest
\* elements from it upwards.
LEMMA GreatestInteger ==
  ASSUME NEW C, C \subseteq Int, IsFiniteSet(C), C # {}
  PROVE  \E x \in C : \A y \in C : y <= x
<1> DEFINE From(x) == {y \in C : y >= x}
           D == {Cardinality(From(x)) : x \in C}
<1>1. \A x : IsFiniteSet(From(x)) /\ Cardinality(From(x)) \in Nat
  BY FS_Subset, FS_CardinalityType
<1>2. D \subseteq Nat /\ D # {}
  BY <1>1
<1>3. PICK e \in D : \A d \in D : e =< d
  BY <1>2, LeastNumber
<1>4. PICK x \in C : e = Cardinality(From(x))
  OBVIOUS
<1>5. ASSUME NEW y \in C, x < y PROVE FALSE
  <2>1. x \in Int /\ y \in Int /\ \A z \in C : z \in Int
    OBVIOUS
  <2>2. From(y) \subseteq From(x) /\ x \in From(x) /\ x \notin From(y)
    <3>1. /\ x >= x /\ ~(x >= y)
          /\ \A z \in C : z >= y => z >= x
      BY <1>5, <2>1
    <3>2. QED
      BY <3>1
  <2>3. /\ Cardinality(From(y)) <= Cardinality(From(x))
        /\ Cardinality(From(y)) # Cardinality(From(x))
    BY <1>1, <2>2, FS_Subset
  <2>4. Cardinality(From(x)) =< Cardinality(From(y))
    BY <1>3, <1>4
  <2>5. QED
    BY <1>1, <2>3, <2>4
<1>6. \A y \in C : y <= x
  BY <1>5
<1>7. QED
  BY <1>6

\* And a least one.
LEMMA LeastInteger ==
  ASSUME NEW C, C \subseteq Int, IsFiniteSet(C), C # {}
  PROVE  \E x \in C : \A y \in C : x <= y
<1> DEFINE B == {-c : c \in C}
<1>0. \A c \in C : c \in Int /\ -c \in Int /\ -c \in B
  OBVIOUS
<1>1. B \subseteq Int /\ B # {} /\ IsFiniteSet(B)
  <2> DEFINE f == [c \in C |-> -c]
  <2>1. f \in Surjection(C, B)
    BY DEF Surjection
  <2>2. IsFiniteSet(B)
    BY <2>1, FS_Surjection
  <2>3. B \subseteq Int /\ B # {}
    BY <1>0
  <2>4. QED
    BY <2>2, <2>3
<1>2. PICK b \in B : \A a \in B : a <= b
  BY <1>1, GreatestInteger
<1>3. PICK x \in C : b = -x
  OBVIOUS
<1>4. ASSUME NEW y \in C PROVE x <= y
  <2>1. -y <= -x
    BY <1>0, <1>2, <1>3
  <2>2. QED
    BY <1>0, <2>1
<1>5. QED
  BY <1>4

\* The values that a function has on a finite set are finitely many.
LEMMA FiniteImage ==
  ASSUME NEW S, IsFiniteSet(S), NEW f
  PROVE  IsFiniteSet({f[x] : x \in S})
<1> DEFINE g == [x \in S |-> f[x]]
           T == {f[x] : x \in S}
<1>1. g \in Surjection(S, T)
  BY DEF Surjection
<1>2. QED
  BY <1>1, FS_Surjection
=============================================================================
