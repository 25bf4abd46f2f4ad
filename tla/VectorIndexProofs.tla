------------------------- MODULE VectorIndexProofs -------------------------
(***************************************************************************)
(* The graph stays within its bounds, a wide beam finds what it can reach, *)
(* and the index in front of the graph returns of every record the node    *)
(* inserted last, for any vectors, metric, levels and limits.              *)
(***************************************************************************)
EXTENDS VectorIndex, FiniteSetTheorems, TLAPS

-----------------------------------------------------------------------------
(* Numbers, induction and recursion. *)

(* Every nonempty set of naturals has a least element.                     *)
LEMMA Least ==
  ASSUME NEW T \in SUBSET Nat, T # {}
  PROVE  \E x \in T : \A y \in T : x <= y
<1>1. PICK x \in T : \A y \in T : ~ (<<y, x>> \in OpToRel(<, Nat))
  BY NatLessThanWellFounded, WFMin
<1>2. \A y \in T : y < x => <<y, x>> \in OpToRel(<, Nat)
  BY DEF OpToRel
<1>3. \A y \in T : ~(y < x)
  BY <1>1, <1>2, Zenon
<1>4. x \in Nat /\ \A y \in T : y \in Nat
  OBVIOUS
<1> QED BY <1>3, <1>4

(* Induction up to a number, for a predicate given by the set of numbers   *)
(* it holds of.                                                            *)
LEMMA InductionTo ==
  ASSUME NEW S, NEW n \in Nat, 0 \in S, \A i \in 1..n : i - 1 \in S => i \in S
  PROVE  0..n \subseteq S
<1> DEFINE T == (0..n) \ S
<1>1. SUFFICES ASSUME T # {} PROVE FALSE
  OBVIOUS
<1>2. T \in SUBSET Nat
  OBVIOUS
<1>3. PICK x \in T : \A y \in T : x <= y
  BY <1>1, <1>2, Least
<1>4. x \in 1..n /\ x - 1 \in 0..n /\ x - 1 \notin T
  BY <1>3
<1> QED BY <1>3, <1>4

(* A function that is computed from the start on, one step after another,  *)
(* exists.                                                                 *)
Computed(f, D, start, n, step) ==
  /\ f \in [0..n -> D]
  /\ f[0] = start
  /\ \A i \in 1..n : f[i] = step[<<i, f[i - 1]>>]

LEMMA Recursion ==
  ASSUME NEW D, NEW start \in D, NEW n \in Nat, NEW step \in [(1..n) \X D -> D]
  PROVE  \E f : Computed(f, D, start, n, step)
<1> DEFINE S == {k \in 0..n : \E f : Computed(f, D, start, k, step)}
<1>1. 0 \in S
  <2>1. Computed([i \in 0..0 |-> start], D, start, 0, step)
    BY DEF Computed
  <2> QED BY <2>1
<1>2. ASSUME NEW k \in 1..n, k - 1 \in S PROVE k \in S
  <2>1. PICK f : Computed(f, D, start, k - 1, step)
    BY <1>2
  <2> DEFINE g == [i \in 0..k |-> IF i = k THEN step[<<k, f[k - 1]>>] ELSE f[i]]
  <2>2. f[k - 1] \in D /\ <<k, f[k - 1]>> \in (1..n) \X D
    BY <2>1 DEF Computed
  <2>3. g \in [0..k -> D]
    BY <2>1, <2>2 DEF Computed
  <2>4. g[0] = start
    BY <2>1 DEF Computed
  <2>5. ASSUME NEW i \in 1..k PROVE g[i] = step[<<i, g[i - 1]>>]
    <3>1. CASE i = k
      <4>1. k \in 0..k /\ k - 1 \in 0..k /\ k - 1 # k
        OBVIOUS
      <4>2. g[k] = step[<<k, f[k - 1]>>] /\ g[k - 1] = f[k - 1]
        BY <4>1
      <4> HIDE DEF g
      <4> QED BY <3>1, <4>2
    <3>2. CASE i # k
      <4>1. i \in 1..(k - 1) /\ i \in 0..k /\ i - 1 \in 0..k /\ i - 1 # k
        BY <3>2
      <4>2. f[i] = step[<<i, f[i - 1]>>]
        BY <2>1, <4>1 DEF Computed
      <4> QED BY <3>2, <4>1, <4>2
    <3> QED BY <3>1, <3>2
  <2>6. Computed(g, D, start, k, step)
    <3> HIDE DEF g
    <3> QED BY <2>3, <2>4, <2>5 DEF Computed
  <2> QED BY <2>6
<1>3. 0..n \subseteq S
  <2> HIDE DEF S
  <2> QED BY <1>1, <1>2, InductionTo
<1> QED BY <1>3

(* What a sum of integers is, and one of naturals.                         *)
LEMMA SumIn ==
  ASSUME NEW N \in {Int, Nat}, NEW n \in Nat, NEW terms \in [1..n -> N]
  PROVE  SumOf(terms) \in N
<1> DEFINE step == [p \in (1..n) \X N |-> p[2] + terms[p[1]]]
           Body(f) == [i \in 0..n |-> IF i = 0 THEN 0 ELSE f[i - 1] + terms[i]]
<1>1. step \in [(1..n) \X N -> N] /\ 0 \in N
  OBVIOUS
<1>2. PICK g : Computed(g, N, 0, n, step)
  <2> HIDE DEF step
  <2> QED BY <1>1, Recursion
<1>3. g = Body(g)
  <2>1. ASSUME NEW i \in 0..n PROVE g[i] = IF i = 0 THEN 0 ELSE g[i - 1] + terms[i]
    <3>1. CASE i = 0
      BY <1>2, <3>1 DEF Computed
    <3>2. CASE i # 0
      <4>1. i \in 1..n /\ i - 1 \in 0..n
        BY <3>2
      <4>2. g[i - 1] \in N /\ g[i] = step[<<i, g[i - 1]>>]
        BY <1>2, <4>1 DEF Computed
      <4>3. <<i, g[i - 1]>> \in (1..n) \X N
        BY <4>1, <4>2
      <4> QED BY <3>2, <4>2, <4>3
    <3> QED BY <3>1, <3>2
  <2>2. g = [i \in 0..n |-> g[i]]
    BY <1>2 DEF Computed
  <2> QED BY <2>1, <2>2
<1> DEFINE f == CHOOSE h : h = Body(h)
<1>4. f = Body(f)
  <2> HIDE DEF Body
  <2> QED BY <1>3
<1>5. Len(terms) = n
  OBVIOUS
<1>6. SumOf(terms) = f[n]
  BY <1>5 DEF SumOf
<1> HIDE DEF f
<1>7. f[0] = 0 /\ \A i \in 1..n : f[i] = f[i - 1] + terms[i]
  BY <1>4
<1> DEFINE S == {i \in 0..n : f[i] \in N}
<1>8. 0 \in S
  BY <1>7
<1>9. ASSUME NEW i \in 1..n, i - 1 \in S PROVE i \in S
  <2>1. i \in 0..n /\ f[i - 1] \in N /\ terms[i] \in N /\ f[i] = f[i - 1] + terms[i]
    BY <1>7, <1>9
  <2>2. f[i] \in N
    BY <2>1
  <2> QED BY <2>1, <2>2
<1>10. 0..n \subseteq S
  <2> HIDE DEF S
  <2> QED BY <1>8, <1>9, InductionTo
<1> QED BY <1>6, <1>10

(* Distances are integers: any two can be compared.                        *)
LEMMA DotIn ==
  ASSUME NEW a \in Seq(Int), NEW b \in Seq(Int)
  PROVE  Dot(a, b) \in Int /\ SquaredL2(a, b) \in Int /\ Dot(a, a) \in Nat
<1> DEFINE n == IF Len(a) < Len(b) THEN Len(a) ELSE Len(b)
           times == [i \in 1..n |-> a[i] * b[i]]
           squares == [i \in 1..n |-> (a[i] - b[i]) * (a[i] - b[i])]
           norms == [i \in 1..Len(a) |-> a[i] * a[i]]
<1>1. n \in Nat /\ \A i \in 1..n : a[i] \in Int /\ b[i] \in Int
  OBVIOUS
<1>2. times \in [1..n -> Int] /\ squares \in [1..n -> Int]
  <2> HIDE DEF n
  <2>1. \A i \in 1..n : a[i] * b[i] \in Int /\ (a[i] - b[i]) * (a[i] - b[i]) \in Int
    BY <1>1
  <2> QED BY <2>1
<1>3. norms \in [1..Len(a) -> Nat]
  <2>1. ASSUME NEW i \in 1..Len(a) PROVE a[i] * a[i] \in Nat
    <3>1. a[i] \in Int
      OBVIOUS
    <3> QED BY <3>1
  <2> QED BY <2>1
<1>4. Dot(a, b) = SumOf(times) /\ SquaredL2(a, b) = SumOf(squares) /\ Dot(a, a) = SumOf(norms)
  BY DEF Dot, SquaredL2, Zipped
<1> HIDE DEF n, times, squares, norms
<1>5. Len(a) \in Nat
  OBVIOUS
<1> QED BY <1>1, <1>2, <1>3, <1>4, <1>5, SumIn

LEMMA DistanceIn ==
  ASSUME NEW by \in DistanceMetric, NEW a \in Seq(Int), NEW b \in Seq(Int)
  PROVE  DistanceBy(by, a, b) \in Int
<1>1. Dot(a, b) \in Int /\ SquaredL2(a, b) \in Int /\ Dot(a, a) \in Nat /\ Dot(b, b) \in Nat
  BY DotIn
<1> DEFINE d == Dot(a, b)
           x == Dot(a, a)
           y == Dot(b, b)
<1>2. CosineDistance(a, b) \in Int
  <2> HIDE DEF d, x, y
  <2>1. x * y \in Nat
    BY <1>1 DEF x, y
  <2>2. SignedSquare(d) \in Int
    BY <1>1 DEF SignedSquare, d
  <2>3. Scale * SignedSquare(d) \in Int
    BY <2>2, HnswAssumption
  <2>4. x * y # 0 => (Scale * SignedSquare(d)) \div (x * y) \in Int
    BY <2>1, <2>3
  <2>5. CosineDistance(a, b) =
          IF x * y = 0 THEN 0 ELSE -((Scale * SignedSquare(d)) \div (x * y))
    BY DEF CosineDistance, d, x, y
  <2> QED BY <2>4, <2>5
<1> QED BY <1>1, <1>2 DEF DistanceBy, DistanceMetric, NegativeDotProduct

LEMMA DistancesAreIntegers ==
  Distances \in [DistanceMetric -> [Sought -> [Point -> Int]]]
<1>1. ASSUME NEW a \in Sought, NEW b \in Point
      PROVE  Components[a] \in Seq(Int) /\ Components[b] \in Seq(Int)
  BY HnswAssumption
<1> QED BY <1>1, DistanceIn DEF Distances

-----------------------------------------------------------------------------
(* The first so many of an ordered finite set. *)

StrictOrder(R, S) ==
  /\ \A a \in S : <<a, a>> \notin R
  /\ \A a, b \in S : a # b => <<a, b>> \in R \/ <<b, a>> \in R
  /\ \A a, b, c \in S : <<a, b>> \in R /\ <<b, c>> \in R => <<a, c>> \in R

(* By what they are worth, and among equals the smaller number first.      *)
By(far, S) ==
  {p \in S \X S : far[p[1]] < far[p[2]] \/ (far[p[1]] = far[p[2]] /\ p[1] < p[2])}

Below(R, S, n) == {m \in S : <<m, n>> \in R}

First(R, S, k) == {n \in S : Cardinality(Below(R, S, n)) < k}

LEMMA ByIsStrict ==
  ASSUME NEW S \in SUBSET Nat, NEW far \in [S -> Int]
  PROVE  StrictOrder(By(far, S), S)
<1>1. ASSUME NEW a \in S, NEW b \in S
      PROVE  <<a, b>> \in By(far, S)
                <=> far[a] < far[b] \/ (far[a] = far[b] /\ a < b)
  BY DEF By
<1>2. \A a \in S : far[a] \in Int /\ a \in Nat
  OBVIOUS
<1> QED BY <1>1, <1>2 DEF StrictOrder

LEMMA SubOrder ==
  ASSUME NEW R, NEW S, NEW T \in SUBSET S, StrictOrder(R, S)
  PROVE  StrictOrder(R, T)
  BY DEF StrictOrder

LEMMA BelowFinite ==
  ASSUME NEW R, NEW S, IsFiniteSet(S), NEW n
  PROVE  IsFiniteSet(Below(R, S, n)) /\ Cardinality(Below(R, S, n)) \in Nat
<1>1. Below(R, S, n) \in SUBSET S
  BY DEF Below
<1> QED BY <1>1, FS_Subset, FS_CardinalityType

(* Whatever is below one has fewer below itself.                           *)
LEMMA BelowGrows ==
  ASSUME NEW R, NEW S, IsFiniteSet(S), StrictOrder(R, S),
         NEW a \in S, NEW b \in S, <<a, b>> \in R
  PROVE  Cardinality(Below(R, S, a)) < Cardinality(Below(R, S, b))
<1>1. Below(R, S, a) \in SUBSET Below(R, S, b)
  BY DEF Below, StrictOrder
<1>2. a \in Below(R, S, b) /\ a \notin Below(R, S, a)
  BY DEF Below, StrictOrder
<1>3. /\ IsFiniteSet(Below(R, S, b))
      /\ Cardinality(Below(R, S, a)) \in Nat /\ Cardinality(Below(R, S, b)) \in Nat
  BY BelowFinite
<1>4. Cardinality(Below(R, S, a)) <= Cardinality(Below(R, S, b))
  BY <1>1, <1>3, FS_Subset
<1>5. Cardinality(Below(R, S, b)) # Cardinality(Below(R, S, a))
  BY <1>1, <1>2, <1>3, FS_Subset
<1> QED BY <1>3, <1>4, <1>5

LEMMA LeastOf ==
  ASSUME NEW R, NEW S, IsFiniteSet(S), StrictOrder(R, S), S # {}
  PROVE  \E n \in S : \A m \in S : m = n \/ <<n, m>> \in R
<1> DEFINE rank(n) == Cardinality(Below(R, S, n))
           T == {rank(n) : n \in S}
<1>1. \A n \in S : rank(n) \in Nat
  BY BelowFinite
<1>2. T \in SUBSET Nat /\ T # {}
  BY <1>1
<1>3. PICK x \in T : \A y \in T : x <= y
  <2> HIDE DEF T
  <2> QED BY <1>2, Least
<1>4. PICK n \in S : x = rank(n)
  OBVIOUS
<1>5. ASSUME NEW m \in S, m # n PROVE <<n, m>> \in R
  <2>1. rank(n) <= rank(m)
    BY <1>3, <1>4
  <2>2. ~(rank(m) < rank(n))
    BY <1>1, <2>1
  <2>3. <<m, n>> \notin R
    BY <2>2, BelowGrows
  <2> QED BY <1>5, <2>3 DEF StrictOrder
<1> QED BY <1>5

LEMMA GreatestOf ==
  ASSUME NEW R, NEW S, IsFiniteSet(S), StrictOrder(R, S), S # {}
  PROVE  \E n \in S : \A m \in S : m = n \/ <<m, n>> \in R
<1> DEFINE I == {p \in S \X S : <<p[2], p[1]>> \in R}
<1>1. \A a, b \in S : <<a, b>> \in I <=> <<b, a>> \in R
  OBVIOUS
<1> HIDE DEF I
<1>2. StrictOrder(I, S)
  BY <1>1 DEF StrictOrder
<1>3. PICK n \in S : \A m \in S : m = n \/ <<n, m>> \in I
  BY <1>2, LeastOf
<1> QED BY <1>1, <1>3

(* There are k of them, or else all.                                       *)
LEMMA FirstAtMost ==
  ASSUME NEW R, NEW S, IsFiniteSet(S), StrictOrder(R, S), NEW k \in Nat
  PROVE  /\ First(R, S, k) \in SUBSET S
         /\ IsFiniteSet(First(R, S, k)) /\ Cardinality(First(R, S, k)) \in Nat
         /\ Cardinality(First(R, S, k)) <= k
<1> DEFINE F == First(R, S, k)
           rank == [n \in F |-> Cardinality(Below(R, S, n))]
<1>1. F \in SUBSET S
  BY DEF First
<1>2. \A n \in F : rank[n] \in 0..(k - 1)
  <2>1. \A n \in F : rank[n] \in Nat /\ rank[n] < k
    BY BelowFinite DEF First
  <2> QED BY <2>1
<1>3. \A a, b \in F : rank[a] = rank[b] => a = b
  <2> SUFFICES ASSUME NEW a \in F, NEW b \in F, rank[a] = rank[b], a # b
               PROVE  FALSE
    OBVIOUS
  <2>1. a \in S /\ b \in S
    BY <1>1
  <2>2. <<a, b>> \in R \/ <<b, a>> \in R
    BY <2>1 DEF StrictOrder
  <2>3. rank[a] < rank[b] \/ rank[b] < rank[a]
    BY <2>1, <2>2, BelowGrows
  <2> QED BY <1>2, <2>3
<1>4. rank \in Injection(F, 0..(k - 1))
  <2>1. rank \in [F -> 0..(k - 1)] /\ DOMAIN rank = F
    BY <1>2
  <2> HIDE DEF rank
  <2> QED BY <1>3, <2>1 DEF Injection, IsInjective
<1>5. IsFiniteSet(0..(k - 1)) /\ Cardinality(0..(k - 1)) = k
  <2>1. 0 \in Int /\ k - 1 \in Int
    OBVIOUS
  <2>2. /\ IsFiniteSet(0..(k - 1))
        /\ Cardinality(0..(k - 1)) = IF 0 > k - 1 THEN 0 ELSE (k - 1) - 0 + 1
    BY <2>1, FS_Interval
  <2> QED BY <2>2
<1>6. IsFiniteSet(F) /\ Cardinality(F) <= k
  <2> HIDE DEF F, rank
  <2> QED BY <1>4, <1>5, FS_Injection
<1> QED BY <1>1, <1>6, FS_CardinalityType DEF F

LEMMA FirstAllOrMany ==
  ASSUME NEW R, NEW S, IsFiniteSet(S), StrictOrder(R, S), NEW k \in Nat,
         Cardinality(First(R, S, k)) < k
  PROVE  First(R, S, k) = S
<1> DEFINE F == First(R, S, k)
<1>1. F \in SUBSET S /\ IsFiniteSet(F) /\ Cardinality(F) \in Nat
  BY FirstAtMost
<1>2. SUFFICES ASSUME S \ F # {} PROVE FALSE
  BY <1>1
<1>3. PICK n \in S \ F : \A m \in S \ F : m = n \/ <<n, m>> \in R
  <2>1. IsFiniteSet(S \ F) /\ StrictOrder(R, S \ F)
    BY FS_Subset, SubOrder
  <2> HIDE DEF F
  <2> QED BY <1>2, <2>1, LeastOf
<1>4. Below(R, S, n) \in SUBSET F
  <2> SUFFICES ASSUME NEW m \in S, <<m, n>> \in R, m \notin F
               PROVE  FALSE
    BY DEF Below
  <2>1. m = n \/ <<n, m>> \in R
    BY <1>3
  <2> HIDE DEF F
  <2> QED BY <1>3, <2>1 DEF StrictOrder
<1>5. Cardinality(Below(R, S, n)) <= Cardinality(F) /\ Cardinality(Below(R, S, n)) \in Nat
  <2> HIDE DEF F
  <2> QED BY <1>1, <1>4, FS_Subset, BelowFinite
<1>6. Cardinality(Below(R, S, n)) < k
  BY <1>1, <1>5
<1> QED BY <1>3, <1>6 DEF First

LEMMA FirstSize ==
  ASSUME NEW R, NEW S, IsFiniteSet(S), StrictOrder(R, S), NEW k \in Nat
  PROVE  Cardinality(First(R, S, k)) = IF k < Cardinality(S) THEN k ELSE Cardinality(S)
<1> DEFINE F == First(R, S, k)
<1>1. /\ F \in SUBSET S /\ Cardinality(F) \in Nat /\ Cardinality(F) <= k
      /\ Cardinality(F) < k => F = S
  BY FirstAtMost, FirstAllOrMany
<1>2. Cardinality(S) \in Nat /\ Cardinality(F) <= Cardinality(S)
  <2> HIDE DEF F
  <2> QED BY <1>1, FS_Subset, FS_CardinalityType
<1> HIDE DEF F
<1>3. Cardinality(F) = IF k < Cardinality(S) THEN k ELSE Cardinality(S)
  <2>1. CASE Cardinality(F) < k
    BY <1>1, <1>2, <2>1
  <2>2. CASE ~(Cardinality(F) < k)
    BY <1>1, <1>2, <2>2
  <2> QED BY <2>1, <2>2
<1> QED BY <1>3 DEF F

(* No more than k are all among the first k.                               *)
LEMMA FirstOfFew ==
  ASSUME NEW R, NEW S, IsFiniteSet(S), StrictOrder(R, S), NEW k \in Nat,
         Cardinality(S) <= k
  PROVE  First(R, S, k) = S
<1>1. ASSUME NEW n \in S PROVE Cardinality(Below(R, S, n)) < k
  <2>1. Below(R, S, n) \in SUBSET S /\ n \notin Below(R, S, n)
    BY DEF Below, StrictOrder
  <2>2. /\ Cardinality(Below(R, S, n)) <= Cardinality(S)
        /\ Cardinality(Below(R, S, n)) # Cardinality(S)
    BY <2>1, FS_Subset
  <2>3. Cardinality(S) \in Nat /\ Cardinality(Below(R, S, n)) \in Nat
    BY BelowFinite, FS_CardinalityType
  <2> QED BY <2>2, <2>3
<1> QED BY <1>1 DEF First

(* Among the first k of some is the first of all.                          *)
LEMMA FirstNonempty ==
  ASSUME NEW R, NEW S, IsFiniteSet(S), StrictOrder(R, S), NEW k \in Nat \ {0}, S # {}
  PROVE  First(R, S, k) # {}
<1>1. Cardinality(S) \in Nat /\ Cardinality(S) # 0
  BY FS_CardinalityType, FS_EmptySet
<1>2. Cardinality(First(R, S, k)) # 0
  BY <1>1, FirstSize
<1> QED BY <1>2, FS_EmptySet

(* What is among the first k stays so when others leave.                   *)
LEMMA FirstBetween ==
  ASSUME NEW R, NEW S, IsFiniteSet(S), StrictOrder(R, S), NEW k \in Nat,
         NEW T \in SUBSET S, First(R, S, k) \subseteq T
  PROVE  First(R, T, k) = First(R, S, k)
<1>1. IsFiniteSet(T) /\ StrictOrder(R, T)
  BY FS_Subset, SubOrder
<1>2. ASSUME NEW n PROVE /\ Below(R, T, n) \in SUBSET Below(R, S, n)
                         /\ IsFiniteSet(Below(R, S, n)) /\ IsFiniteSet(Below(R, T, n))
                         /\ Cardinality(Below(R, T, n)) \in Nat
                         /\ Cardinality(Below(R, S, n)) \in Nat
                         /\ Cardinality(Below(R, T, n)) <= Cardinality(Below(R, S, n))
  <2>1. Below(R, T, n) \in SUBSET Below(R, S, n)
    BY DEF Below
  <2> QED BY <1>1, <2>1, BelowFinite, FS_Subset
<1>3. ASSUME NEW n \in First(R, S, k) PROVE n \in First(R, T, k)
  <2>1. n \in T /\ Cardinality(Below(R, S, n)) < k
    BY DEF First
  <2> QED BY <1>2, <2>1 DEF First
<1>4. ASSUME NEW n \in First(R, T, k) PROVE n \in First(R, S, k)
  <2> SUFFICES ASSUME n \notin First(R, S, k) PROVE FALSE
    OBVIOUS
  <2> DEFINE F == First(R, S, k)
  <2>1. n \in S /\ n \in T /\ ~(Cardinality(Below(R, S, n)) < k) /\ Cardinality(Below(R, T, n)) < k
    BY DEF First
  <2>2. ASSUME NEW f \in F PROVE f \in Below(R, T, n)
    <3>1. f \in S /\ f \in T /\ f # n /\ Cardinality(Below(R, S, f)) < k
      BY DEF First
    <3>2. <<n, f>> \notin R
      <4> SUFFICES ASSUME <<n, f>> \in R PROVE FALSE
        OBVIOUS
      <4>1. Cardinality(Below(R, S, n)) < Cardinality(Below(R, S, f))
        BY <2>1, <3>1, BelowGrows
      <4> QED BY <1>2, <2>1, <3>1, <4>1
    <3>3. <<f, n>> \in R
      BY <2>1, <3>1, <3>2 DEF StrictOrder
    <3> QED BY <3>1, <3>3 DEF Below
  <2>3. F \in SUBSET S /\ IsFiniteSet(F) /\ Cardinality(F) \in Nat
    BY FirstAtMost
  <2>4. Cardinality(F) >= k
    <3>1. F # S
      BY <2>1
    <3> QED BY <2>3, <3>1, FirstAllOrMany
  <2> HIDE DEF F
  <2>5. Cardinality(F) <= Cardinality(Below(R, T, n))
    <3>1. F \in SUBSET Below(R, T, n)
      BY <2>2
    <3> QED BY <1>2, <3>1, FS_Subset
  <2> QED BY <1>2, <2>1, <2>3, <2>4, <2>5
<1> QED BY <1>3, <1>4

(* Each of the first k is below each of the others.                        *)
LEMMA FirstAreBelow ==
  ASSUME NEW R, NEW S, IsFiniteSet(S), StrictOrder(R, S), NEW k \in Nat,
         NEW f \in First(R, S, k), NEW m \in S \ First(R, S, k)
  PROVE  <<f, m>> \in R /\ Cardinality(First(R, S, k)) = k
<1>1. /\ f \in S /\ Cardinality(Below(R, S, f)) < k /\ Cardinality(Below(R, S, f)) \in Nat
      /\ ~(Cardinality(Below(R, S, m)) < k) /\ Cardinality(Below(R, S, m)) \in Nat
      /\ f # m
  BY BelowFinite DEF First
<1>2. <<m, f>> \notin R
  <2> SUFFICES ASSUME <<m, f>> \in R PROVE FALSE
    OBVIOUS
  <2>1. Cardinality(Below(R, S, m)) < Cardinality(Below(R, S, f))
    BY <1>1, BelowGrows
  <2> QED BY <1>1, <2>1
<1>3. <<f, m>> \in R
  BY <1>1, <1>2 DEF StrictOrder
<1>4. Cardinality(First(R, S, k)) \in Nat /\ Cardinality(First(R, S, k)) <= k
  BY FirstAtMost
<1>5. First(R, S, k) # S
  OBVIOUS
<1>6. ~(Cardinality(First(R, S, k)) < k)
  BY <1>5, FirstAllOrMany
<1> QED BY <1>3, <1>4, <1>6

-----------------------------------------------------------------------------
(* The graph: searching. *)

GraphInv == ListsInBounds /\ apart = Distances

Far(q) == [n \in Node |-> apart[metric][q][vectors[n]]]

Rank(q) == By(Far(q), Node)

OnLayer(lc) == {n \in Node : lc \in Layers(n)}

SearchState ==
  [visited : SUBSET Node, frontier : SUBSET Node, results : SUBSET Node]

LEMMA Nodes ==
  ASSUME GraphInv
  PROVE  /\ Len(vectors) \in Nat /\ Node = 1..Len(vectors) /\ Node \in SUBSET Nat
         /\ IsFiniteSet(Node) /\ Cardinality(Node) = Len(vectors)
         /\ \A n \in Node : vectors[n] \in Point
<1>1. vectors \in Seq(Point)
  BY DEF GraphInv, ListsInBounds, HnswTypeOK
<1>2. /\ Len(vectors) \in Nat /\ Node = 1..Len(vectors)
      /\ \A n \in Node : vectors[n] \in Point
  BY <1>1 DEF Node
<1> DEFINE len == Len(vectors)
<1>3. IsFiniteSet(1..len) /\ Cardinality(1..len) = len
  <2>1. len \in Nat /\ 1 \in Int /\ len \in Int
    BY <1>2
  <2> HIDE DEF len
  <2>2. /\ IsFiniteSet(1..len)
        /\ Cardinality(1..len) = IF 1 > len THEN 0 ELSE len - 1 + 1
    BY <2>1, FS_Interval
  <2> QED BY <2>1, <2>2
<1> QED BY <1>2, <1>3

(* How far the nodes are from a vector puts them in a strict order.        *)
LEMMA Ranked ==
  ASSUME GraphInv, NEW q \in Sought
  PROVE  /\ StrictOrder(Rank(q), Node)
         /\ \A m, n \in Node : <<m, n>> \in Rank(q) <=> Closer(q, m, n)
<1>1. metric \in DistanceMetric
  BY HnswAssumption DEF GraphInv, ListsInBounds, HnswTypeOK
<1>2. Far(q) \in [Node -> Int]
  BY <1>1, Nodes, DistancesAreIntegers DEF Far, GraphInv
<1>3. StrictOrder(Rank(q), Node)
  BY <1>2, Nodes, ByIsStrict DEF Rank
<1>4. ASSUME NEW m \in Node, NEW n \in Node
      PROVE  <<m, n>> \in Rank(q) <=> Closer(q, m, n)
  BY DEF Rank, By, Far, Closer
<1> QED BY <1>3, <1>4

LEMMA NearestOfIs ==
  ASSUME GraphInv, NEW q \in Sought, NEW k, NEW S \in SUBSET Node
  PROVE  NearestOf(q, k, S) = First(Rank(q), S, k)
<1>1. ASSUME NEW n \in S PROVE {m \in S : Closer(q, m, n)} = Below(Rank(q), S, n)
  BY Ranked DEF Below
<1> QED BY <1>1 DEF NearestOf, First

LEMMA NearestIs ==
  ASSUME GraphInv, NEW q \in Sought, NEW S \in SUBSET Node, S # {}
  PROVE  /\ Nearest(q, S) \in S
         /\ \A m \in S : m = Nearest(q, S) \/ <<Nearest(q, S), m>> \in Rank(q)
<1>1. IsFiniteSet(S) /\ StrictOrder(Rank(q), S)
  BY Nodes, Ranked, FS_Subset, SubOrder
<1>2. \E n \in S : \A m \in S : m = n \/ <<n, m>> \in Rank(q)
  BY <1>1, LeastOf
<1>3. \E n \in S : \A m \in S : m = n \/ Closer(q, n, m)
  BY <1>2, Ranked
<1>4. Nearest(q, S) \in S /\ \A m \in S : m = Nearest(q, S) \/ Closer(q, Nearest(q, S), m)
  BY <1>3 DEF Nearest
<1> QED BY <1>4, Ranked

LEMMA FarthestIs ==
  ASSUME GraphInv, NEW q \in Sought, NEW S \in SUBSET Node, S # {}
  PROVE  /\ Farthest(q, S) \in S
         /\ \A m \in S : m = Farthest(q, S) \/ <<m, Farthest(q, S)>> \in Rank(q)
<1>1. IsFiniteSet(S) /\ StrictOrder(Rank(q), S)
  BY Nodes, Ranked, FS_Subset, SubOrder
<1>2. \E n \in S : \A m \in S : m = n \/ <<m, n>> \in Rank(q)
  BY <1>1, GreatestOf
<1>3. \E n \in S : \A m \in S : m = n \/ Closer(q, m, n)
  BY <1>2, Ranked
<1>4. Farthest(q, S) \in S /\ \A m \in S : m = Farthest(q, S) \/ Closer(q, m, Farthest(q, S))
  BY <1>3 DEF Farthest
<1> QED BY <1>4, Ranked

(* What k nodes at most are found among some.                              *)
LEMMA NearestOfSome ==
  ASSUME GraphInv, NEW q \in Sought, NEW k \in Nat, NEW S \in SUBSET Node
  PROVE  /\ NearestOf(q, k, S) \in SUBSET S
         /\ IsFiniteSet(S) /\ Cardinality(S) \in Nat
         /\ Cardinality(NearestOf(q, k, S)) = MinOf(k, Cardinality(S))
         /\ Cardinality(S) <= k => NearestOf(q, k, S) = S
         /\ k > 0 /\ S # {} => NearestOf(q, k, S) # {}
<1>1. IsFiniteSet(S) /\ StrictOrder(Rank(q), S)
  BY Nodes, Ranked, FS_Subset, SubOrder
<1>2. NearestOf(q, k, S) = First(Rank(q), S, k)
  BY NearestOfIs
<1>3. Cardinality(S) \in Nat
  BY <1>1, FS_CardinalityType
<1>4. Cardinality(First(Rank(q), S, k)) = MinOf(k, Cardinality(S))
  BY <1>1, FirstSize DEF MinOf
<1> QED BY <1>1, <1>2, <1>3, <1>4, FirstAtMost, FirstOfFew, FirstNonempty

(* One round of the search.                                                *)
Begin(entry, eligible) ==
  [visited |-> {entry}, frontier |-> {entry}, results |-> {entry} \cap eligible]

Fresh(s, c, layer) ==
  IF layer \in Layers(c) THEN neighbors[c][layer] \ s.visited ELSE {}

RoundOf(s, q, layer, ef, eligible, maxVisits) ==
  IF Stops(s, q, ef, maxVisits) THEN [s EXCEPT !.frontier = {}]
  ELSE Explore(s, q, layer, ef, eligible)

LEMMA LinksLead ==
  ASSUME GraphInv, NEW n \in Node, NEW lc \in Layers(n)
  PROVE  neighbors[n][lc] \in SUBSET OnLayer(lc)
<1>1. neighbors[n][lc] \in SUBSET Node
  BY DEF GraphInv, ListsInBounds, HnswTypeOK, Layers
<1>2. \A m \in neighbors[n][lc] : lc \in Layers(m)
  BY DEF GraphInv, ListsInBounds, LinksOnLayer
<1> QED BY <1>1, <1>2 DEF OnLayer

Advances(s, e, q, layer, ef, eligible) ==
  LET c == Nearest(q, s.frontier)
      fresh == Fresh(s, c, layer)
      pool == s.results \cup (fresh \cap eligible)
  IN  /\ c \in s.frontier /\ c \in Node
      /\ fresh \in SUBSET Node /\ fresh \in SUBSET OnLayer(layer)
      /\ fresh \cap s.visited = {}
      /\ pool \in SUBSET Node
      /\ e \in SearchState
      /\ e.visited = s.visited \cup fresh
      /\ e.frontier = (s.frontier \ {c}) \cup fresh
      /\ e.results = First(Rank(q), pool, ef)
      /\ e.results = NearestOf(q, ef, pool)
      /\ e.results \in SUBSET pool

LEMMA ExploreIs ==
  ASSUME GraphInv, NEW q \in Sought, NEW layer, NEW ef \in Nat,
         NEW eligible \in SUBSET Node, NEW s \in SearchState, s.frontier # {}
  PROVE  Advances(s, Explore(s, q, layer, ef, eligible), q, layer, ef, eligible)
<1> DEFINE c == Nearest(q, s.frontier)
           fresh == Fresh(s, c, layer)
           e == Explore(s, q, layer, ef, eligible)
           pool == s.results \cup (fresh \cap eligible)
<1>1. s.visited \in SUBSET Node /\ s.frontier \in SUBSET Node /\ s.results \in SUBSET Node
  BY DEF SearchState
<1>2. c \in s.frontier /\ c \in Node
  BY <1>1, NearestIs
<1>3. fresh \in SUBSET OnLayer(layer) /\ fresh \cap s.visited = {}
  <2> HIDE DEF c
  <2>1. CASE layer \in Layers(c)
    BY <1>2, <2>1, LinksLead DEF Fresh
  <2>2. CASE layer \notin Layers(c)
    BY <2>2 DEF Fresh
  <2> QED BY <2>1, <2>2
<1>4. fresh \in SUBSET Node
  BY <1>3 DEF OnLayer
<1>5. e = [visited |-> s.visited \cup fresh,
           frontier |-> (s.frontier \ {c}) \cup fresh,
           results |-> NearestOf(q, ef, pool)]
  BY DEF Explore, Fresh
<1> HIDE DEF c, fresh, e
<1>6. pool \in SUBSET Node
  BY <1>1, <1>4
<1>7. NearestOf(q, ef, pool) = First(Rank(q), pool, ef)
  BY <1>6, NearestOfIs
<1>8. NearestOf(q, ef, pool) \in SUBSET pool
  BY <1>6, NearestOfSome
<1>9. e \in SearchState
  BY <1>1, <1>4, <1>5, <1>6, <1>8 DEF SearchState
<1> QED BY <1>2, <1>3, <1>4, <1>5, <1>6, <1>7, <1>8, <1>9 DEF Advances, c, fresh, e

(* The rounds of a search, one after another.                              *)
Runs(f, q, entry, layer, ef, eligible, maxVisits) ==
  /\ f \in [0..Len(vectors) -> SearchState]
  /\ f[0] = Begin(entry, eligible)
  /\ \A i \in 1..Len(vectors) :
        f[i] = RoundOf(f[i - 1], q, layer, ef, eligible, maxVisits)

LEMMA RoundType ==
  ASSUME GraphInv, NEW q \in Sought, NEW layer, NEW ef \in Nat,
         NEW eligible \in SUBSET Node, NEW maxVisits, NEW s \in SearchState
  PROVE  RoundOf(s, q, layer, ef, eligible, maxVisits) \in SearchState
<1>1. [s EXCEPT !.frontier = {}] \in SearchState
  BY DEF SearchState
<1>2. CASE Stops(s, q, ef, maxVisits)
  BY <1>1, <1>2 DEF RoundOf
<1>3. CASE ~Stops(s, q, ef, maxVisits)
  <2>1. s.frontier # {}
    BY <1>3 DEF Stops
  <2>2. Explore(s, q, layer, ef, eligible) \in SearchState
    BY <2>1, ExploreIs DEF Advances
  <2> QED BY <1>3, <2>2 DEF RoundOf
<1> QED BY <1>2, <1>3

LEMMA SearchRuns ==
  ASSUME GraphInv, NEW q \in Sought, NEW entry \in Node, NEW layer, NEW ef \in Nat,
         NEW eligible \in SUBSET Node, NEW maxVisits
  PROVE  \E f : /\ Runs(f, q, entry, layer, ef, eligible, maxVisits)
                /\ Explored(q, entry, layer, ef, eligible, maxVisits) = f[Len(vectors)]
<1> DEFINE N == Len(vectors)
           Next(s) == RoundOf(s, q, layer, ef, eligible, maxVisits)
           start == Begin(entry, eligible)
           step == [p \in (1..N) \X SearchState |-> Next(p[2])]
           Body(f) == [i \in 0..N |-> IF i = 0 THEN start ELSE Next(f[i - 1])]
<1>1. N \in Nat /\ start \in SearchState
  BY Nodes DEF Begin, SearchState
<1>2. \A s \in SearchState : Next(s) \in SearchState
  BY RoundType
<1>3. step \in [(1..N) \X SearchState -> SearchState]
  <2> HIDE DEF N, Next
  <2> QED BY <1>2
<1>4. PICK g : Computed(g, SearchState, start, N, step)
  <2> HIDE DEF N, start, step
  <2> QED BY <1>1, <1>3, Recursion
<1>5. g = Body(g)
  <2> HIDE DEF N, Next, start
  <2>1. ASSUME NEW i \in 0..N PROVE g[i] = IF i = 0 THEN start ELSE Next(g[i - 1])
    <3>1. CASE i = 0
      BY <1>4, <3>1 DEF Computed
    <3>2. CASE i # 0
      <4>1. i \in 1..N /\ i - 1 \in 0..N
        BY <1>1, <3>2
      <4>2. g[i - 1] \in SearchState /\ g[i] = step[<<i, g[i - 1]>>]
        BY <1>4, <4>1 DEF Computed
      <4>3. <<i, g[i - 1]>> \in (1..N) \X SearchState
        BY <4>1, <4>2
      <4> QED BY <3>2, <4>2, <4>3
    <3> QED BY <3>1, <3>2
  <2>2. g = [i \in 0..N |-> g[i]]
    BY <1>4 DEF Computed
  <2> QED BY <2>1, <2>2
<1> DEFINE f == CHOOSE h : h = Body(h)
<1>6. f = Body(f)
  <2> HIDE DEF Body
  <2> QED BY <1>5
<1>7. Explored(q, entry, layer, ef, eligible, maxVisits) = f[N]
  BY DEF Explored, RoundOf, Begin
<1> HIDE DEF f
<1>8. /\ DOMAIN f = 0..N /\ f[0] = start
      /\ \A i \in 1..N : f[i] = Next(f[i - 1])
  <2> HIDE DEF N, Next, start
  <2>1. f = Body(f) /\ DOMAIN f = 0..N /\ f[0] = start
    BY <1>1, <1>6
  <2>2. ASSUME NEW i \in 1..N PROVE f[i] = Next(f[i - 1])
    <3>1. i \in 0..N /\ i # 0
      BY <1>1
    <3> QED BY <1>6, <3>1
  <2> QED BY <2>1, <2>2
<1>9. \A i \in 0..N : f[i] \in SearchState
  <2> DEFINE S == {i \in 0..N : f[i] \in SearchState}
  <2> HIDE DEF N, Next, start
  <2>1. 0 \in S
    BY <1>1, <1>8
  <2>2. ASSUME NEW i \in 1..N, i - 1 \in S PROVE i \in S
    BY <1>2, <1>8, <2>2
  <2>3. 0..N \subseteq S
    <3> HIDE DEF S
    <3> QED BY <1>1, <2>1, <2>2, InductionTo
  <2> QED BY <2>3
<1>10. Runs(f, q, entry, layer, ef, eligible, maxVisits)
  <2>1. f \in [0..N -> SearchState]
    <3> HIDE DEF N
    <3>1. f = [i \in 0..N |-> f[i]]
      BY <1>6
    <3> QED BY <1>9, <3>1
  <2> QED BY <1>8, <2>1 DEF Runs
<1> QED BY <1>7, <1>10

(* What a search of a layer finds is eligible, something if it starts from *)
(* such a node, and on the layer if it starts there.                       *)
LEMMA LayerFinds ==
  ASSUME GraphInv, NEW q \in Sought, NEW entry \in Node, NEW layer, NEW ef \in Nat \ {0},
         NEW eligible \in SUBSET Node, NEW maxVisits
  PROVE  LET found == SearchLayer(q, entry, layer, ef, eligible, maxVisits)
         IN  /\ found \in SUBSET eligible
             /\ entry \in eligible => found # {}
             /\ entry \in OnLayer(layer) => found \in SUBSET OnLayer(layer)
<1> DEFINE Good(s) ==
             /\ s.results \in SUBSET eligible
             /\ entry \in eligible => s.results # {}
             /\ entry \in OnLayer(layer) =>
                   s.results \in SUBSET OnLayer(layer) /\ s.frontier \in SUBSET OnLayer(layer)
<1>1. PICK f : /\ Runs(f, q, entry, layer, ef, eligible, maxVisits)
               /\ Explored(q, entry, layer, ef, eligible, maxVisits) = f[Len(vectors)]
  BY SearchRuns
<1> DEFINE S == {i \in 0..Len(vectors) : Good(f[i])}
<1>2. 0 \in S
  <2>1. Good(Begin(entry, eligible))
    BY DEF Begin
  <2> QED BY <1>1, <2>1, Nodes DEF Runs
<1>3. ASSUME NEW i \in 1..Len(vectors), i - 1 \in S PROVE i \in S
  <2> DEFINE s == f[i - 1]
  <2>1. s \in SearchState /\ f[i] = RoundOf(s, q, layer, ef, eligible, maxVisits) /\ Good(s)
    BY <1>1, <1>3, Nodes DEF Runs
  <2> HIDE DEF s
  <2>2. CASE Stops(s, q, ef, maxVisits)
    <3>1. f[i] = [s EXCEPT !.frontier = {}]
      BY <2>1, <2>2 DEF RoundOf
    <3>2. f[i].results = s.results /\ f[i].frontier = {}
      BY <2>1, <3>1 DEF SearchState
    <3>3. Good(f[i])
      BY <2>1, <3>2
    <3> QED BY <3>3, Nodes
  <2>3. CASE ~Stops(s, q, ef, maxVisits)
    <3> DEFINE c == Nearest(q, s.frontier)
               fresh == Fresh(s, c, layer)
               pool == s.results \cup (fresh \cap eligible)
    <3>1. f[i] = Explore(s, q, layer, ef, eligible) /\ s.frontier # {}
      BY <2>1, <2>3 DEF RoundOf, Stops
    <3>2. Advances(s, f[i], q, layer, ef, eligible)
      BY <2>1, <3>1, ExploreIs
    <3>3. /\ fresh \in SUBSET OnLayer(layer) /\ pool \in SUBSET Node
          /\ f[i].frontier = (s.frontier \ {c}) \cup fresh
          /\ f[i].results = NearestOf(q, ef, pool)
          /\ f[i].results \in SUBSET pool
      BY <3>2 DEF Advances
    <3> HIDE DEF c, fresh
    <3>4. pool # {} => f[i].results # {}
      <4>1. ef \in Nat /\ ef > 0
        OBVIOUS
      <4> HIDE DEF pool
      <4>2. pool # {} => NearestOf(q, ef, pool) # {}
        BY <3>3, <4>1, NearestOfSome
      <4> QED BY <3>3, <4>2
    <3>5. Good(f[i])
      BY <2>1, <3>3, <3>4
    <3> QED BY <3>5, Nodes
  <2> QED BY <2>2, <2>3
<1>4. 0..Len(vectors) \subseteq S
  <2> HIDE DEF S
  <2> QED BY <1>2, <1>3, Nodes, InductionTo
<1>5. Good(f[Len(vectors)])
  BY <1>4, Nodes
<1> QED BY <1>1, <1>5 DEF SearchLayer

(* One layer's part of a descent.                                          *)
LayerOf(q, entry, lc, level, ef) ==
  SearchLayer(q, entry, lc, IF lc > level THEN 1 ELSE ef, Node, Len(vectors))

Descends(f, q, level, ef, low) ==
  /\ f[max_level] = LayerOf(q, entry_point, max_level, level, ef)
  /\ \A lc \in low..(max_level - 1) :
        f[lc] = LayerOf(q, Nearest(q, f[lc + 1]), lc, level, ef)

LEMMA LayerOfFinds ==
  ASSUME GraphInv, NEW q \in Sought, NEW entry \in Node, NEW lc, NEW level,
         NEW ef \in Nat \ {0}
  PROVE  /\ LayerOf(q, entry, lc, level, ef) \in (SUBSET Node) \ {{}}
         /\ entry \in OnLayer(lc) => LayerOf(q, entry, lc, level, ef) \in SUBSET OnLayer(lc)
<1> DEFINE beam == IF lc > level THEN 1 ELSE ef
<1>1. beam \in Nat \ {0} /\ Node \in SUBSET Node
  OBVIOUS
<1> HIDE DEF beam
<1>2. LET found == SearchLayer(q, entry, lc, beam, Node, Len(vectors))
      IN  /\ found \in SUBSET Node
          /\ entry \in Node => found # {}
          /\ entry \in OnLayer(lc) => found \in SUBSET OnLayer(lc)
  BY <1>1, LayerFinds
<1> QED BY <1>2 DEF LayerOf, beam

LEMMA DescentIs ==
  ASSUME GraphInv, entry_point # NoNode, NEW q \in Sought, NEW level, NEW ef \in Nat \ {0},
         NEW low \in 0..max_level
  PROVE  Descends(Descent(q, level, ef, low), q, level, ef, low)
<1> DEFINE top == max_level
           n == top - low
           D == (SUBSET Node) \ {{}}
           At(entry, lc) == LayerOf(q, entry, lc, level, ef)
           step == [p \in (1..n) \X D |-> At(Nearest(q, p[2]), top - p[1])]
           start == At(entry_point, top)
           Body(f) == [lc \in low..top |->
                         At(IF lc = top THEN entry_point ELSE Nearest(q, f[lc + 1]), lc)]
<1>1. top \in Nat /\ low \in Nat /\ low <= top /\ n \in Nat
  BY HnswAssumption DEF GraphInv, ListsInBounds, HnswTypeOK
<1>2. entry_point \in Node
  BY DEF GraphInv, ListsInBounds, HnswTypeOK
<1>3. ASSUME NEW entry \in Node, NEW lc PROVE At(entry, lc) \in D
  BY LayerOfFinds
<1>4. start \in D
  BY <1>2, <1>3
<1>5. step \in [(1..n) \X D -> D]
  <2>1. ASSUME NEW p \in (1..n) \X D PROVE At(Nearest(q, p[2]), top - p[1]) \in D
    <3>1. p[2] \in SUBSET Node /\ p[2] # {}
      OBVIOUS
    <3>2. Nearest(q, p[2]) \in Node
      BY <3>1, NearestIs
    <3> HIDE DEF D, At
    <3> QED BY <1>3, <3>2
  <2> HIDE DEF D, At, n, top
  <2> QED BY <2>1
<1> HIDE DEF D, At, n, start
<1>6. PICK g : Computed(g, D, start, n, step)
  <2> HIDE DEF step
  <2> QED BY <1>1, <1>4, <1>5, Recursion
<1> DEFINE h == [lc \in low..top |-> g[top - lc]]
<1>7. h = Body(h)
  <2>1. ASSUME NEW lc \in low..top
        PROVE  h[lc] = At(IF lc = top THEN entry_point ELSE Nearest(q, h[lc + 1]), lc)
    <3> HIDE DEF top
    <3>1. CASE lc = top
      <4>1. h[lc] = g[0]
        BY <1>1, <3>1
      <4> QED BY <1>6, <3>1, <4>1 DEF Computed, start
    <3>2. CASE lc # top
      <4> DEFINE i == top - lc
      <4>1. /\ i \in 1..n /\ i - 1 \in 0..n /\ lc + 1 \in low..top
            /\ i - 1 = top - (lc + 1) /\ top - i = lc
        BY <1>1, <3>2 DEF n
      <4>2. h[lc] = g[i] /\ h[lc + 1] = g[i - 1]
        BY <4>1
      <4> HIDE DEF h, i
      <4>3. g[i - 1] \in D /\ g[i] = step[<<i, g[i - 1]>>]
        BY <1>6, <4>1 DEF Computed
      <4>4. step[<<i, g[i - 1]>>] = At(Nearest(q, g[i - 1]), top - i)
        BY <4>1, <4>3
      <4> QED BY <3>2, <4>1, <4>2, <4>3, <4>4
    <3> QED BY <3>1, <3>2
  <2> QED BY <2>1
<1> DEFINE f == CHOOSE x : x = Body(x)
<1>8. f = Body(f)
  <2> HIDE DEF Body, h
  <2> QED BY <1>7
<1>9. Descent(q, level, ef, low) = f
  BY DEF Descent, At, LayerOf, top
<1> HIDE DEF f
<1>10. f[top] = At(entry_point, top)
  BY <1>1, <1>8
<1>11. ASSUME NEW lc \in low..(top - 1) PROVE f[lc] = At(Nearest(q, f[lc + 1]), lc)
  <2>1. lc \in low..top /\ lc # top
    BY <1>1
  <2> QED BY <1>8, <2>1
<1> QED BY <1>9, <1>10, <1>11 DEF Descends, At, top

(* What a descent finds on each layer lives there, and it finds something. *)
LEMMA DescentFinds ==
  ASSUME GraphInv, entry_point # NoNode, NEW q \in Sought, NEW level, NEW ef \in Nat \ {0},
         NEW low \in 0..max_level, NEW lc \in low..max_level
  PROVE  LET found == Descent(q, level, ef, low)[lc]
         IN  found # {} /\ found \in SUBSET Node /\ found \in SUBSET OnLayer(lc)
<1> DEFINE f == Descent(q, level, ef, low)
           n == max_level - low
           Good(l) == f[l] # {} /\ f[l] \in SUBSET OnLayer(l)
           S == {i \in 0..n : Good(max_level - i)}
<1>1. max_level \in Nat /\ low \in Nat /\ low <= max_level /\ n \in Nat
  BY HnswAssumption DEF GraphInv, ListsInBounds, HnswTypeOK
<1>2. entry_point \in Node /\ entry_point \in OnLayer(max_level)
  BY DEF GraphInv, ListsInBounds, HnswTypeOK, EntryOnTop, OnLayer
<1>3. Descends(f, q, level, ef, low)
  BY DescentIs
<1> HIDE DEF f
<1>4. Good(max_level)
  BY <1>2, <1>3, LayerOfFinds DEF Descends
<1>5. 0 \in S
  BY <1>1, <1>4
<1>6. ASSUME NEW i \in 1..n, i - 1 \in S PROVE i \in S
  <2> DEFINE l == max_level - i
  <2>1. l \in low..(max_level - 1) /\ l + 1 = max_level - (i - 1) /\ l \in Nat /\ i \in 0..n
    BY <1>1
  <2>2. Good(l + 1)
    BY <1>6, <2>1
  <2>3. f[l] = LayerOf(q, Nearest(q, f[l + 1]), l, level, ef)
    BY <1>3, <2>1 DEF Descends
  <2> HIDE DEF l
  <2>4. OnLayer(l + 1) \in SUBSET OnLayer(l) /\ OnLayer(l + 1) \in SUBSET Node
    <3> SUFFICES ASSUME NEW m \in Node, l + 1 \in Layers(m) PROVE l \in Layers(m)
      BY DEF OnLayer
    <3>1. PICK t \in 0..TopLevel : neighbors[m] \in [0..t -> SUBSET Node]
      BY DEF GraphInv, ListsInBounds, HnswTypeOK
    <3>2. Layers(m) = 0..t /\ t \in Int
      BY <3>1, HnswAssumption DEF Layers
    <3> QED BY <2>1, <3>2
  <2>5. Nearest(q, f[l + 1]) \in f[l + 1]
    BY <2>2, <2>4, NearestIs
  <2>6. Good(l)
    BY <2>2, <2>3, <2>4, <2>5, LayerOfFinds
  <2> QED BY <2>1, <2>6 DEF l
<1>7. 0..n \subseteq S
  <2> HIDE DEF S, n
  <2> QED BY <1>1, <1>5, <1>6, InductionTo
<1>8. Good(lc)
  <2>1. max_level - lc \in 0..n /\ max_level - (max_level - lc) = lc
    BY <1>1
  <2> HIDE DEF n, Good
  <2> QED BY <1>7, <2>1
<1> QED BY <1>8 DEF f, OnLayer

-----------------------------------------------------------------------------
(* The graph: growing. *)

New == Len(vectors) + 1

Linked(level) == IF entry_point = NoNode THEN {} ELSE {lc \in 0..level : lc <= max_level}

Chosen(v, level, lc) == NearestOf(v, MLayer(lc), Descent(v, level, EfConstruction, 0)[lc])

(* The new node links to nodes that live on the layer, as many as fit.     *)
LEMMA ChosenAre ==
  ASSUME GraphInv, NEW v \in Point, NEW level \in 0..TopLevel, NEW lc \in Linked(level)
  PROVE  /\ Chosen(v, level, lc) \in SUBSET Node
         /\ Chosen(v, level, lc) \in SUBSET OnLayer(lc)
         /\ Chosen(v, level, lc) # {}
         /\ Cardinality(Chosen(v, level, lc)) <= MLayer(lc)
<1> DEFINE found == Descent(v, level, EfConstruction, 0)[lc]
<1>1. /\ entry_point # NoNode /\ lc \in 0..max_level /\ 0 \in 0..max_level
      /\ EfConstruction \in Nat \ {0} /\ v \in Sought /\ MLayer(lc) \in Nat \ {0}
  BY HnswAssumption DEF Linked, MLayer, GraphInv, ListsInBounds, HnswTypeOK
<1>2. found # {} /\ found \in SUBSET Node /\ found \in SUBSET OnLayer(lc)
  BY <1>1, DescentFinds
<1> HIDE DEF found
<1>3. MLayer(lc) \in Nat /\ MLayer(lc) > 0
  BY <1>1
<1>4. LET c == NearestOf(v, MLayer(lc), found)
      IN  /\ c \in SUBSET found /\ c # {} /\ Cardinality(found) \in Nat
          /\ Cardinality(c) = MinOf(MLayer(lc), Cardinality(found))
  BY <1>1, <1>2, <1>3, NearestOfSome
<1>5. Cardinality(NearestOf(v, MLayer(lc), found)) <= MLayer(lc)
  BY <1>3, <1>4 DEF MinOf
<1> QED BY <1>2, <1>4, <1>5 DEF Chosen, found

(* An old node of theirs keeps its closest neighbours, the new one among   *)
(* them, as many as fit; none is lost while there is room.                 *)
LEMMA PruneIs ==
  ASSUME GraphInv, NEW v \in Point, NEW n \in Node, NEW lc \in Layers(n)
  PROVE  LET all == neighbors[n][lc] \cup {New}
             kept == ConnectAndPrune(n, lc, v)
         IN  /\ kept \in SUBSET all /\ IsFiniteSet(all) /\ Cardinality(all) \in Nat
             /\ Cardinality(kept) = MinOf(MLayer(lc), Cardinality(all))
             /\ Cardinality(kept) <= MLayer(lc)
             /\ Cardinality(all) <= MLayer(lc) => kept = all
<1> DEFINE all == neighbors[n][lc] \cup {New}
           far == [m \in all |-> Dist(vectors[n], IF m \in Node THEN vectors[m] ELSE v)]
           kept == ConnectAndPrune(n, lc, v)
<1>1. /\ neighbors[n][lc] \in SUBSET Node /\ IsFiniteSet(neighbors[n][lc])
      /\ all \in SUBSET Nat
  <2>1. neighbors[n][lc] \in SUBSET Node
    BY DEF GraphInv, ListsInBounds, HnswTypeOK, Layers
  <2> QED BY <2>1, Nodes, FS_Subset DEF New
<1>2. IsFiniteSet(all)
  BY <1>1, FS_AddElement
<1>3. far \in [all -> Int]
  <2>1. metric \in DistanceMetric /\ vectors[n] \in Sought
    BY Nodes, HnswAssumption DEF GraphInv, ListsInBounds, HnswTypeOK
  <2>2. \A m \in all : (IF m \in Node THEN vectors[m] ELSE v) \in Point
    BY Nodes
  <2> QED BY <2>1, <2>2, DistancesAreIntegers DEF Dist, GraphInv
<1>4. StrictOrder(By(far, all), all)
  <2> HIDE DEF far, all
  <2> QED BY <1>1, <1>3, ByIsStrict
<1>5. kept = First(By(far, all), all, MLayer(lc))
  <2>1. ASSUME NEW m \in all
        PROVE  Below(By(far, all), all, m)
                  = {o \in all : far[o] < far[m] \/ (far[o] = far[m] /\ o < m)}
    BY DEF Below, By
  <2> QED BY <2>1 DEF ConnectAndPrune, First, New
<1>6. MLayer(lc) \in Nat
  BY HnswAssumption DEF MLayer
<1>7. Cardinality(all) \in Nat
  BY <1>2, FS_CardinalityType
<1> HIDE DEF all, far, kept
<1>8. /\ kept \in SUBSET all
      /\ Cardinality(kept) = MinOf(MLayer(lc), Cardinality(all))
      /\ Cardinality(kept) <= MLayer(lc)
      /\ Cardinality(all) <= MLayer(lc) => kept = all
  BY <1>2, <1>4, <1>5, <1>6, FirstAtMost, FirstSize, FirstOfFew DEF MinOf
<1> QED BY <1>2, <1>7, <1>8 DEF all, kept

(* What insert() does to the graph.                                        *)
Grown(v, level) ==
  /\ Node' = Node \cup {New} /\ New \notin Node
  /\ DOMAIN neighbors' = Node'
  /\ neighbors'[New] =
        [lc \in 0..level |-> IF lc \in Linked(level) THEN Chosen(v, level, lc) ELSE {}]
  /\ \A n \in Node :
        neighbors'[n] =
           [lc \in Layers(n) |-> IF lc \in Linked(level) /\ n \in Chosen(v, level, lc)
                                 THEN ConnectAndPrune(n, lc, v)
                                 ELSE neighbors[n][lc]]

LEMMA InsertGrows ==
  ASSUME GraphInv, NEW v \in Point, NEW level \in 0..TopLevel, Insert(v, level)
  PROVE  Grown(v, level)
<1>1. /\ vectors' = Append(vectors, v)
      /\ neighbors' = [n \in 1..New |->
              IF n = New
              THEN [lc \in 0..level |-> IF lc \in Linked(level) THEN Chosen(v, level, lc) ELSE {}]
              ELSE [lc \in Layers(n) |->
                      IF lc \in Linked(level) /\ n \in Chosen(v, level, lc)
                      THEN ConnectAndPrune(n, lc, v)
                      ELSE neighbors[n][lc]]]
  BY DEF Insert, New, Linked, Chosen, Lists
<1>2. vectors \in Seq(Point)
  BY DEF GraphInv, ListsInBounds, HnswTypeOK
<1>3. Len(vectors') = New /\ Node' = 1..New
  BY <1>1, <1>2 DEF Node, New
<1>4. Node' = Node \cup {New} /\ New \notin Node /\ New \in 1..New /\ \A n \in Node : n \in 1..New /\ n # New
  BY <1>3, Nodes DEF New
<1> QED BY <1>1, <1>3, <1>4 DEF Grown

(* The old nodes it links to whose lists are full already.                 *)
Crowd(v, level) ==
  {n \in Node : /\ 0 \in Linked(level) /\ n \in Chosen(v, level, 0)
                /\ Cardinality(neighbors[n][0]) >= MMax0}

LEMMA InsertCrowds ==
  ASSUME NEW v, NEW level, Insert(v, level)
  PROVE  crowded' = crowded \cup Crowd(v, level)
<1> DEFINE chosen == [lc \in Linked(level) |-> Chosen(v, level, lc)]
<1>1. crowded' = crowded \cup
          {n \in Node : /\ 0 \in Linked(level) /\ n \in chosen[0]
                        /\ Cardinality(neighbors[n][0]) >= MMax0}
  BY DEF Insert, Linked, Chosen
<1>2. 0 \in Linked(level) => chosen[0] = Chosen(v, level, 0)
  OBVIOUS
<1> HIDE DEF chosen
<1> QED BY <1>1, <1>2 DEF Crowd

LEMMA InsertKeepsTypes ==
  ASSUME GraphInv, NEW v \in Point, NEW level \in 0..TopLevel, Insert(v, level)
  PROVE  HnswTypeOK'
<1>1. Grown(v, level)
  BY InsertGrows
<1>2. metric' \in Metric /\ vectors' \in Seq(Point)
  BY DEF Insert, GraphInv, ListsInBounds, HnswTypeOK
<1>3. ASSUME NEW n \in Node'
      PROVE  \E l \in 0..TopLevel : neighbors'[n] \in [0..l -> SUBSET Node']
  <2>1. CASE n = New
    <3>1. \A lc \in Linked(level) : Chosen(v, level, lc) \in SUBSET Node
      BY ChosenAre
    <3>2. neighbors'[n] \in [0..level -> SUBSET Node']
      BY <1>1, <2>1, <3>1 DEF Grown
    <3> QED BY <3>2
  <2>2. CASE n \in Node
    <3>1. PICK l \in 0..TopLevel : neighbors[n] \in [0..l -> SUBSET Node]
      BY <2>2 DEF GraphInv, ListsInBounds, HnswTypeOK
    <3>2. Layers(n) = 0..l
      BY <3>1 DEF Layers
    <3>3. \A lc \in Layers(n) : ConnectAndPrune(n, lc, v) \in SUBSET (neighbors[n][lc] \cup {New})
      BY <2>2, PruneIs
    <3>4. \A lc \in 0..l : neighbors[n][lc] \in SUBSET Node
      BY <3>1
    <3>5. neighbors'[n] \in [0..l -> SUBSET Node']
      BY <1>1, <2>2, <3>2, <3>3, <3>4 DEF Grown
    <3> QED BY <3>5
  <2> QED BY <1>1, <2>1, <2>2 DEF Grown
<1>4. entry_point' \in Node' \cup {NoNode} /\ max_level' \in 0..TopLevel
  <2>1. NewTop(level) /\ entry_point \in Node \cup {NoNode} /\ max_level \in 0..TopLevel
    BY DEF Insert, GraphInv, ListsInBounds, HnswTypeOK
  <2> QED BY <1>1, <2>1 DEF NewTop, Grown, New
<1>5. DOMAIN neighbors' = Node'
  BY <1>1 DEF Grown
<1>6. crowded' \subseteq Node'
  <2>1. crowded \subseteq Node /\ Node \subseteq Node'
    BY <1>1 DEF GraphInv, ListsInBounds, HnswTypeOK, Grown
  <2>2. crowded' \subseteq crowded \cup Node
    BY InsertCrowds DEF Crowd
  <2> QED BY <2>1, <2>2
<1> QED BY <1>2, <1>3, <1>4, <1>5, <1>6 DEF HnswTypeOK

LEMMA InsertKeepsLinks ==
  ASSUME GraphInv, NEW v \in Point, NEW level \in 0..TopLevel, Insert(v, level)
  PROVE  LinksOnLayer'
<1>1. Grown(v, level) /\ LinksOnLayer
  BY InsertGrows DEF GraphInv, ListsInBounds
<1>2. DOMAIN neighbors'[New] = 0..level /\ \A n \in Node : DOMAIN neighbors'[n] = Layers(n)
  BY <1>1 DEF Grown
<1>3. ASSUME NEW lc \in 0..level
      PROVE  /\ \A m \in neighbors'[New][lc] : m # New /\ lc \in DOMAIN neighbors'[m]
             /\ Cardinality(neighbors'[New][lc]) <= MLayer(lc)
  <2>1. CASE lc \in Linked(level)
    <3>1. neighbors'[New][lc] = Chosen(v, level, lc)
      BY <1>1, <2>1 DEF Grown
    <3> QED BY <1>1, <1>2, <2>1, <3>1, ChosenAre DEF Grown, OnLayer
  <2>2. CASE lc \notin Linked(level)
    <3>1. neighbors'[New][lc] = {}
      BY <1>1, <2>2 DEF Grown
    <3>2. MLayer(lc) \in Nat
      BY HnswAssumption DEF MLayer
    <3> QED BY <3>1, <3>2, FS_EmptySet
  <2> QED BY <2>1, <2>2
<1>4. ASSUME NEW n \in Node, NEW lc \in Layers(n)
      PROVE  /\ \A m \in neighbors'[n][lc] : m # n /\ lc \in DOMAIN neighbors'[m]
             /\ Cardinality(neighbors'[n][lc]) <= MLayer(lc)
  <2>1. /\ neighbors[n][lc] \in SUBSET OnLayer(lc)
        /\ \A m \in neighbors[n][lc] : m # n
        /\ Cardinality(neighbors[n][lc]) <= MLayer(lc)
    BY <1>1, LinksLead DEF LinksOnLayer
  <2>2. \A m \in neighbors[n][lc] : m # n /\ lc \in DOMAIN neighbors'[m]
    BY <1>2, <2>1 DEF OnLayer
  <2>3. CASE lc \in Linked(level) /\ n \in Chosen(v, level, lc)
    <3>1. neighbors'[n][lc] = ConnectAndPrune(n, lc, v)
      BY <1>1, <2>3 DEF Grown
    <3>2. /\ neighbors'[n][lc] \in SUBSET (neighbors[n][lc] \cup {New})
          /\ Cardinality(neighbors'[n][lc]) <= MLayer(lc)
      BY <3>1, PruneIs
    <3>3. New # n /\ lc \in DOMAIN neighbors'[New]
      BY <1>1, <1>2, <2>3 DEF Grown, Linked
    <3> QED BY <2>2, <3>2, <3>3
  <2>4. CASE ~(lc \in Linked(level) /\ n \in Chosen(v, level, lc))
    <3>1. neighbors'[n][lc] = neighbors[n][lc]
      BY <1>1, <2>4 DEF Grown
    <3> QED BY <2>1, <2>2, <3>1
  <2> QED BY <2>3, <2>4
<1>5. \A lc : MLayer(lc)' = MLayer(lc)
  BY DEF MLayer
<1> QED BY <1>1, <1>2, <1>3, <1>4, <1>5 DEF LinksOnLayer, Grown, Layers

LEMMA InsertKeepsTop ==
  ASSUME GraphInv, NEW v \in Point, NEW level \in 0..TopLevel, Insert(v, level)
  PROVE  EntryOnTop'
<1>1. Grown(v, level) /\ EntryOnTop /\ NewTop(level) /\ vectors' = Append(vectors, v)
  BY InsertGrows DEF GraphInv, ListsInBounds, Insert
<1>2. DOMAIN neighbors'[New] = 0..level /\ \A n \in Node : DOMAIN neighbors'[n] = Layers(n)
  BY <1>1 DEF Grown
<1>3. /\ vectors \in Seq(Point) /\ max_level \in Int /\ level \in Nat
      /\ entry_point \in Node \cup {NoNode}
      /\ Len(vectors) \in Nat
  BY Nodes, HnswAssumption DEF GraphInv, ListsInBounds, HnswTypeOK
<1>4. vectors' # <<>>
  BY <1>1, <1>3
<1>5. NoNode \notin Node' /\ New # NoNode
  BY <1>1, <1>3, Nodes DEF NoNode, New, Grown
<1>6. CASE entry_point = NoNode \/ level > max_level
  <2>1. entry_point' = New /\ max_level' = level
    BY <1>1, <1>6 DEF NewTop, New
  <2>2. \A n \in Node : \A lc \in Layers(n) : lc <= level
    <3>1. entry_point = NoNode => Node = {}
      BY <1>1, <1>3 DEF EntryOnTop, Node
    <3>2. \A n \in Node : \A lc \in Layers(n) : lc \in Int /\ lc <= max_level
      BY <1>1, HnswAssumption DEF EntryOnTop, GraphInv, ListsInBounds, HnswTypeOK, Layers
    <3> QED BY <1>3, <1>6, <3>1, <3>2
  <2>3. \A n \in Node' : \A lc \in DOMAIN neighbors'[n] : lc <= max_level'
    BY <1>1, <1>2, <2>1, <2>2 DEF Grown
  <2>4. max_level' \in DOMAIN neighbors'[entry_point']
    BY <1>2, <1>3, <2>1
  <2> QED BY <1>4, <1>5, <2>1, <2>3, <2>4 DEF EntryOnTop, Layers
<1>7. CASE ~(entry_point = NoNode \/ level > max_level)
  <2>1. entry_point' = entry_point /\ max_level' = max_level /\ entry_point \in Node
    BY <1>1, <1>3, <1>7 DEF NewTop
  <2>2. \A n \in Node' : \A lc \in DOMAIN neighbors'[n] : lc <= max_level'
    BY <1>1, <1>2, <1>3, <1>7, <2>1 DEF Grown, EntryOnTop
  <2>3. max_level' \in DOMAIN neighbors'[entry_point']
    BY <1>1, <1>2, <1>7, <2>1 DEF EntryOnTop
  <2> QED BY <1>4, <1>7, <2>1, <2>2, <2>3 DEF EntryOnTop, Layers
<1> QED BY <1>6, <1>7

LEMMA InitGraph == HnswInit => GraphInv
<1> SUFFICES ASSUME HnswInit PROVE GraphInv
  OBVIOUS
<1>1. Node = {} /\ vectors \in Seq(Point) /\ 0 \in 0..TopLevel
  BY HnswAssumption DEF HnswInit, Node
<1>2. HnswTypeOK
  BY <1>1 DEF HnswInit, HnswTypeOK, Node
<1>3. LinksOnLayer /\ EntryOnTop
  BY <1>1 DEF HnswInit, LinksOnLayer, EntryOnTop
<1> QED BY <1>2, <1>3 DEF GraphInv, ListsInBounds, HnswInit

LEMMA InsertKeepsGraph ==
  ASSUME GraphInv, NEW v \in Point, NEW level \in 0..TopLevel, Insert(v, level)
  PROVE  GraphInv'
<1>1. apart' = apart /\ Distances' = Distances
  BY DEF Insert, Distances
<1> QED BY <1>1, InsertKeepsTypes, InsertKeepsLinks, InsertKeepsTop DEF GraphInv, ListsInBounds

LEMMA SameKeepsGraph ==
  ASSUME GraphInv, UNCHANGED hnswVars
  PROVE  GraphInv'
<1> USE DEF hnswVars, GraphInv, ListsInBounds, Node
<1>1. HnswTypeOK'
  BY DEF HnswTypeOK
<1>2. LinksOnLayer' /\ EntryOnTop' /\ (apart = Distances)'
  BY DEF LinksOnLayer, EntryOnTop, Layers, MLayer, Distances
<1> QED BY <1>1, <1>2

LEMMA NextKeepsGraph == GraphInv /\ [HnswNext]_hnswVars => GraphInv'
<1> SUFFICES ASSUME GraphInv, [HnswNext]_hnswVars PROVE GraphInv'
  OBVIOUS
<1>1. CASE Grow
  <2>1. PICK v \in Point, level \in 0..TopLevel : Insert(v, level)
    BY <1>1 DEF Grow
  <2> QED BY <2>1, InsertKeepsGraph
<1>2. CASE UNCHANGED hnswVars
  BY <1>2, SameKeepsGraph
<1> QED BY <1>1, <1>2 DEF HnswNext, Query

(* No list of a node is indexed by a layer it does not have, whatever the  *)
(* vectors, the levels drawn and the limits (src/hnsw.rs:280-380).         *)
THEOREM GraphStaysInBounds == HnswSpec => []ListsInBounds
<1>1. GraphInv => ListsInBounds
  BY DEF GraphInv
<1> QED BY <1>1, InitGraph, NextKeepsGraph, PTL DEF HnswSpec

-----------------------------------------------------------------------------
(* The graph: what a wide beam finds. *)

LEMMA BaseLayer ==
  ASSUME GraphInv, NEW n \in Node
  PROVE  0 \in Layers(n) /\ neighbors[n][0] \in SUBSET Node
<1>1. PICK l \in 0..TopLevel : neighbors[n] \in [0..l -> SUBSET Node]
  BY DEF GraphInv, ListsInBounds, HnswTypeOK
<1>2. 0 \in 0..l
  BY HnswAssumption
<1> QED BY <1>1, <1>2 DEF Layers

(* The hops from a node, one after another.                                *)
Around(near) == near \cup UNION {neighbors[m][0] : m \in near}

Hops(f, n) ==
  /\ f \in [0..Len(vectors) -> SUBSET Node]
  /\ f[0] = {n}
  /\ \A i \in 1..Len(vectors) : f[i] = Around(f[i - 1])

LEMMA HopsReach ==
  ASSUME GraphInv, NEW n \in Node
  PROVE  \E f : Hops(f, n) /\ ReachableFrom(n) = f[Len(vectors)]
<1> DEFINE N == Len(vectors)
           D == SUBSET Node
           start == {n}
           step == [p \in (1..N) \X D |-> Around(p[2])]
           Body(f) == [i \in 0..N |-> IF i = 0 THEN start ELSE Around(f[i - 1])]
<1>1. N \in Nat /\ start \in D
  BY Nodes
<1>2. \A S \in D : Around(S) \in D
  BY BaseLayer DEF Around
<1>3. step \in [(1..N) \X D -> D]
  <2> HIDE DEF N, D
  <2> QED BY <1>2
<1>4. PICK g : Computed(g, D, start, N, step)
  <2> HIDE DEF N, D, start, step
  <2> QED BY <1>1, <1>3, Recursion
<1> HIDE DEF D
<1>5. g = Body(g)
  <2> HIDE DEF N, start
  <2>1. ASSUME NEW i \in 0..N PROVE g[i] = IF i = 0 THEN start ELSE Around(g[i - 1])
    <3>1. CASE i = 0
      BY <1>4, <3>1 DEF Computed
    <3>2. CASE i # 0
      <4>1. i \in 1..N /\ i - 1 \in 0..N
        BY <1>1, <3>2
      <4>2. g[i - 1] \in D /\ g[i] = step[<<i, g[i - 1]>>]
        BY <1>4, <4>1 DEF Computed
      <4>3. <<i, g[i - 1]>> \in (1..N) \X D
        BY <4>1, <4>2
      <4> QED BY <3>2, <4>2, <4>3
    <3> QED BY <3>1, <3>2
  <2>2. g = [i \in 0..N |-> g[i]]
    BY <1>4 DEF Computed
  <2> QED BY <2>1, <2>2
<1> DEFINE f == CHOOSE h : h = Body(h)
<1>6. f = Body(f)
  <2> HIDE DEF Body
  <2> QED BY <1>5
<1>7. ReachableFrom(n) = f[N]
  BY DEF ReachableFrom, Around
<1> HIDE DEF f
<1>8. /\ DOMAIN f = 0..N /\ f[0] = start
      /\ \A i \in 1..N : f[i] = Around(f[i - 1])
  <2> HIDE DEF N, start
  <2>1. DOMAIN f = 0..N /\ f[0] = start
    BY <1>1, <1>6
  <2>2. ASSUME NEW i \in 1..N PROVE f[i] = Around(f[i - 1])
    <3>1. i \in 0..N /\ i # 0
      BY <1>1
    <3> QED BY <1>6, <3>1
  <2> QED BY <2>1, <2>2
<1>9. \A i \in 0..N : f[i] \in D
  <2> DEFINE S == {i \in 0..N : f[i] \in D}
  <2> HIDE DEF N, start
  <2>1. 0 \in S
    BY <1>1, <1>8
  <2>2. ASSUME NEW i \in 1..N, i - 1 \in S PROVE i \in S
    BY <1>2, <1>8, <2>2
  <2>3. 0..N \subseteq S
    <3> HIDE DEF S
    <3> QED BY <1>1, <2>1, <2>2, InductionTo
  <2> QED BY <2>3
<1>10. f \in [0..N -> D]
  <2> HIDE DEF N
  <2>1. f = [i \in 0..N |-> f[i]]
    BY <1>6
  <2> QED BY <1>9, <2>1
<1> QED BY <1>7, <1>8, <1>10 DEF Hops, D

(* Whatever contains the start and all neighbours of what it contains      *)
(* contains everything that can be reached.                                *)
LEMMA ReachIsLeast ==
  ASSUME GraphInv, NEW n \in Node, NEW T, n \in T,
         \A m \in T \cap Node : neighbors[m][0] \subseteq T
  PROVE  ReachableFrom(n) \subseteq T
<1>1. PICK f : Hops(f, n) /\ ReachableFrom(n) = f[Len(vectors)]
  BY HopsReach
<1> DEFINE S == {i \in 0..Len(vectors) : f[i] \subseteq T}
<1>2. Len(vectors) \in Nat
  BY Nodes
<1>3. 0 \in S
  BY <1>1, <1>2 DEF Hops
<1>4. ASSUME NEW i \in 1..Len(vectors), i - 1 \in S PROVE i \in S
  <2>1. f[i - 1] \subseteq T /\ f[i - 1] \in SUBSET Node /\ f[i] = Around(f[i - 1])
    BY <1>1, <1>2, <1>4 DEF Hops
  <2>2. f[i] \subseteq T
    BY <2>1 DEF Around
  <2> QED BY <1>2, <2>2
<1>5. 0..Len(vectors) \subseteq S
  <2> HIDE DEF S
  <2> QED BY <1>2, <1>3, <1>4, InductionTo
<1> QED BY <1>1, <1>2, <1>5

(* How far a search with a beam that is never full has come after i        *)
(* rounds: everything but the frontier has been looked at, one node in a   *)
(* round, and nothing that cannot be reached in i hops.                    *)
Swept(s, hop, i, entry, eligible) ==
  /\ s \in SearchState
  /\ entry \in s.visited /\ s.frontier \subseteq s.visited
  /\ s.results = s.visited \cap eligible
  /\ s.visited \subseteq hop[i]
  /\ \A m \in s.visited \ s.frontier : neighbors[m][0] \subseteq s.visited
  /\ s.frontier = {} \/ Cardinality(s.visited \ s.frontier) >= i

LEMMA RoundSweeps ==
  ASSUME GraphInv, NEW q \in Sought, NEW entry \in Node, NEW ef \in Nat, ef >= Len(vectors),
         NEW eligible \in SUBSET Node, NEW hop, Hops(hop, entry),
         NEW i \in 1..Len(vectors), NEW s, Swept(s, hop, i - 1, entry, eligible)
  PROVE  Swept(RoundOf(s, q, 0, ef, eligible, Len(vectors)), hop, i, entry, eligible)
<1> DEFINE r == RoundOf(s, q, 0, ef, eligible, Len(vectors))
<1>1. /\ s \in SearchState
      /\ s.visited \in SUBSET Node /\ s.frontier \in SUBSET Node /\ s.results \in SUBSET Node
  BY DEF Swept, SearchState
<1>2. /\ Len(vectors) \in Nat /\ IsFiniteSet(Node) /\ Cardinality(Node) = Len(vectors)
      /\ i \in Nat /\ i - 1 \in 0..Len(vectors) /\ i \in 0..Len(vectors)
  BY Nodes
<1>3. \A S \in SUBSET Node :
         IsFiniteSet(S) /\ Cardinality(S) \in Nat /\ Cardinality(S) <= Len(vectors)
  BY <1>2, FS_Subset, FS_CardinalityType
<1>4. hop[i] = Around(hop[i - 1]) /\ s.visited \subseteq hop[i - 1] /\ hop[i - 1] \in SUBSET Node
  BY <1>2 DEF Hops, Swept
<1>5. CASE Stops(s, q, ef, Len(vectors))
  <2>1. r = [s EXCEPT !.frontier = {}]
    BY <1>5 DEF RoundOf
  <2> HIDE DEF r
  <2>2. r \in SearchState /\ r.visited = s.visited /\ r.results = s.results /\ r.frontier = {}
    BY <1>1, <2>1 DEF SearchState
  <2>3. s.frontier = {} \/ s.visited = Node
    <3>1. ~(Cardinality(s.visited) > Len(vectors))
      BY <1>1, <1>2, <1>3
    <3>2. Hopeless(s, q, ef) => s.visited = Node
      <4> SUFFICES ASSUME Cardinality(s.results) >= ef PROVE s.visited = Node
        BY DEF Hopeless
      <4>1. Cardinality(s.results) = Cardinality(Node)
        BY <1>1, <1>2, <1>3
      <4>2. s.results = Node
        BY <1>1, <1>2, <4>1, FS_Subset
      <4> QED BY <1>1, <4>2 DEF Swept
    <3> QED BY <1>5, <3>1, <3>2 DEF Stops
  <2>4. \A m \in s.visited : neighbors[m][0] \subseteq s.visited
    <3>1. CASE s.frontier = {}
      BY <3>1 DEF Swept
    <3>2. CASE s.visited = Node
      BY <3>2, BaseLayer
    <3> QED BY <2>3, <3>1, <3>2
  <2>5. r.visited \subseteq hop[i]
    BY <1>4, <2>2 DEF Around
  <2>6. /\ entry \in r.visited /\ r.frontier \subseteq r.visited
        /\ r.results = r.visited \cap eligible
    BY <2>2 DEF Swept
  <2>7. \A m \in r.visited \ r.frontier : neighbors[m][0] \subseteq r.visited
    BY <2>2, <2>4
  <2>8. r.frontier = {}
    BY <2>2
  <2>9. Swept(r, hop, i, entry, eligible)
    BY <2>2, <2>5, <2>6, <2>7, <2>8, Zenon DEF Swept
  <2> QED BY <2>9 DEF r
<1>6. CASE ~Stops(s, q, ef, Len(vectors))
  <2> DEFINE c == Nearest(q, s.frontier)
             fresh == Fresh(s, c, 0)
             pool == s.results \cup (fresh \cap eligible)
  <2>1. r = Explore(s, q, 0, ef, eligible) /\ s.frontier # {}
    BY <1>6 DEF RoundOf, Stops
  <2> HIDE DEF r
  <2>2. Advances(s, r, q, 0, ef, eligible)
    BY <1>1, <2>1, ExploreIs
  <2>3. /\ c \in s.frontier /\ c \in Node /\ fresh \in SUBSET Node /\ fresh \cap s.visited = {}
        /\ pool \in SUBSET Node
        /\ r \in SearchState /\ r.visited = s.visited \cup fresh
        /\ r.frontier = (s.frontier \ {c}) \cup fresh
        /\ r.results = NearestOf(q, ef, pool)
    BY <2>2 DEF Advances
  <2> HIDE DEF c
  <2>4. fresh = neighbors[c][0] \ s.visited
    BY <2>3, BaseLayer DEF Fresh
  <2> HIDE DEF fresh
  <2>5. r.results = pool
    <3>1. Cardinality(pool) <= ef
      BY <1>2, <1>3, <2>3
    <3> HIDE DEF pool
    <3> QED BY <2>3, <3>1, NearestOfSome
  <2>6. r.results = r.visited \cap eligible
    BY <2>3, <2>5 DEF Swept
  <2>7. r.visited \subseteq hop[i]
    <3>1. c \in hop[i - 1]
      BY <1>4, <2>3 DEF Swept
    <3> QED BY <1>4, <2>3, <2>4, <3>1 DEF Around
  <2>8. r.visited \ r.frontier = (s.visited \ s.frontier) \cup {c} /\ c \notin s.visited \ s.frontier
    BY <2>3 DEF Swept
  <2>9. \A m \in r.visited \ r.frontier : neighbors[m][0] \subseteq r.visited
    BY <2>3, <2>4, <2>8 DEF Swept
  <2>10. Cardinality(r.visited \ r.frontier) >= i
    <3> DEFINE done == s.visited \ s.frontier
    <3>1. done \in SUBSET Node /\ c \notin done /\ r.visited \ r.frontier = done \cup {c}
      BY <1>1, <2>8
    <3>2. Cardinality(done) >= i - 1
      BY <2>3 DEF Swept
    <3> HIDE DEF done
    <3>3. IsFiniteSet(done) /\ Cardinality(done) \in Nat
      BY <1>3, <3>1
    <3>4. Cardinality(done \cup {c}) = Cardinality(done) + 1
      BY <3>1, <3>3, FS_AddElement
    <3>5. Cardinality(done) + 1 >= i
      BY <1>2, <3>2, <3>3
    <3> QED BY <3>1, <3>4, <3>5, Zenon
  <2>11. entry \in r.visited /\ r.frontier \subseteq r.visited
    BY <2>3 DEF Swept
  <2>12. r \in SearchState
    BY <2>3
  <2>13. Swept(r, hop, i, entry, eligible)
    BY <2>6, <2>7, <2>9, <2>10, <2>11, <2>12, Zenon DEF Swept
  <2> QED BY <2>13 DEF r
<1> QED BY <1>5, <1>6

(* So in the end it has seen what can be reached and nothing else.         *)
LEMMA WideSearch ==
  ASSUME GraphInv, NEW q \in Sought, NEW entry \in Node, NEW ef \in Nat, ef >= Len(vectors),
         NEW eligible \in SUBSET Node
  PROVE  LET s == Explored(q, entry, 0, ef, eligible, Len(vectors))
         IN  /\ s.visited = ReachableFrom(entry)
             /\ s.results = eligible \cap ReachableFrom(entry)
<1> DEFINE N == Len(vectors)
<1>1. PICK f : /\ Runs(f, q, entry, 0, ef, eligible, N)
               /\ Explored(q, entry, 0, ef, eligible, N) = f[N]
  BY SearchRuns
<1>2. PICK hop : Hops(hop, entry) /\ ReachableFrom(entry) = hop[N]
  BY HopsReach
<1>3. N \in Nat /\ IsFiniteSet(Node) /\ Cardinality(Node) = N
  BY Nodes
<1> DEFINE S == {i \in 0..N : Swept(f[i], hop, i, entry, eligible)}
<1>4. 0 \in S
  <2>1. f[0] = Begin(entry, eligible) /\ hop[0] = {entry}
    BY <1>1, <1>2 DEF Runs, Hops
  <2>2. Begin(entry, eligible) \in SearchState
    BY DEF Begin, SearchState
  <2>3. Cardinality({}) = 0 /\ {entry} \ {entry} = {}
    BY FS_EmptySet
  <2> DEFINE b == Begin(entry, eligible)
  <2>4. /\ b.visited = {entry} /\ b.frontier = {entry}
        /\ b.results = b.visited \cap eligible /\ b.visited \ b.frontier = {}
    BY <2>3 DEF Begin
  <2> HIDE DEF b
  <2>5. Cardinality(b.visited \ b.frontier) >= 0
    <3>1. b.visited \ b.frontier = {}
      BY <2>4
    <3>2. Cardinality(b.visited \ b.frontier) = 0
      BY <3>1, FS_EmptySet, Zenon
    <3> QED BY <3>2
  <2>6. Swept(b, hop, 0, entry, eligible)
    BY <2>1, <2>2, <2>4, <2>5 DEF Swept, b
  <2> QED BY <1>3, <2>1, <2>6 DEF b
<1>5. ASSUME NEW i \in 1..N, i - 1 \in S PROVE i \in S
  <2>1. f[i] = RoundOf(f[i - 1], q, 0, ef, eligible, N)
    BY <1>1 DEF Runs
  <2>2. Swept(f[i], hop, i, entry, eligible)
    BY <1>2, <1>5, <2>1, RoundSweeps
  <2> QED BY <1>3, <2>2
<1>6. 0..N \subseteq S
  <2> HIDE DEF S, N
  <2> QED BY <1>3, <1>4, <1>5, InductionTo
<1> DEFINE s == f[N]
<1>7. Swept(s, hop, N, entry, eligible)
  BY <1>3, <1>6
<1> HIDE DEF s
<1>8. s.frontier = {}
  <2>1. SUFFICES ASSUME Cardinality(s.visited \ s.frontier) >= N PROVE s.frontier = {}
    BY <1>7 DEF Swept
  <2>2. s.visited \ s.frontier \in SUBSET Node /\ s.frontier \in SUBSET Node
    BY <1>7 DEF Swept, SearchState
  <2>3. /\ Cardinality(s.visited \ s.frontier) <= Cardinality(Node)
        /\ Cardinality(s.visited \ s.frontier) \in Nat
    BY <1>3, <2>2, FS_Subset, FS_CardinalityType
  <2>4. Cardinality(s.visited \ s.frontier) = Cardinality(Node)
    BY <1>3, <2>1, <2>3
  <2>5. s.visited \ s.frontier = Node
    BY <1>3, <2>2, <2>4, FS_Subset
  <2> QED BY <2>2, <2>5
<1>9. \A m \in s.visited : neighbors[m][0] \subseteq s.visited
  BY <1>7, <1>8 DEF Swept
<1>10. ReachableFrom(entry) \subseteq s.visited
  BY <1>7, <1>9, ReachIsLeast DEF Swept
<1>11. s.visited = ReachableFrom(entry) /\ s.results = s.visited \cap eligible
  BY <1>2, <1>7, <1>10 DEF Swept
<1> QED BY <1>1, <1>11 DEF s

(* A descent lands on a node.                                              *)
LEMMA LandsOnNode ==
  ASSUME GraphInv, entry_point # NoNode, NEW q \in Sought
  PROVE  Landing(q) \in Node
<1>1. CASE max_level = 0
  BY <1>1 DEF Landing, GraphInv, ListsInBounds, HnswTypeOK
<1>2. CASE max_level # 0
  <2>1. 1 \in 0..max_level /\ 1 \in 1..max_level /\ 1 \in Nat \ {0}
    BY <1>2, HnswAssumption DEF GraphInv, ListsInBounds, HnswTypeOK
  <2>2. LET found == Descent(q, 0, 1, 1)[1] IN found # {} /\ found \in SUBSET Node
    BY <2>1, DescentFinds
  <2>3. Nearest(q, Descent(q, 0, 1, 1)[1]) \in Node
    BY <2>2, NearestIs
  <2> QED BY <1>2, <2>3 DEF Landing
<1> QED BY <1>1, <1>2

LEMMA WideFiltered ==
  ASSUME GraphInv, entry_point # NoNode, NEW q \in Sought, NEW k \in Nat,
         NEW ef \in Nat, ef >= Len(vectors), NEW eligible \in SUBSET Node
  PROVE  SearchFiltered(q, k, ef, eligible, Len(vectors))
            = NearestOf(q, k, eligible \cap ReachableFrom(Landing(q)))
<1>1. Landing(q) \in Node
  BY LandsOnNode
<1>2. MaxOf(ef, k) \in Nat /\ MaxOf(ef, k) >= Len(vectors)
  BY Nodes DEF MaxOf
<1>3. Explored(q, Landing(q), 0, MaxOf(ef, k), eligible, Len(vectors)).results
         = eligible \cap ReachableFrom(Landing(q))
  BY <1>1, <1>2, WideSearch
<1> QED BY <1>3 DEF SearchFiltered, SearchLayer

(* A beam as wide as the graph makes a search, filtered or not, exact on   *)
(* what can be reached from where it lands, through nodes that do not      *)
(* match too (src/hnsw.rs:470-560).                                        *)
THEOREM WideSearchesAreExact == HnswSpec => []WideBeamIsExact
<1>1. GraphInv => WideBeamIsExact
  BY Nodes, WideFiltered DEF WideBeamIsExact
<1> QED BY <1>1, InitGraph, NextKeepsGraph, PTL DEF HnswSpec

-----------------------------------------------------------------------------
(* The index: which node answers for a record.                             *)

(* The node a record was last inserted as is the last of its nodes, and    *)
(* the others are tombstoned.                                              *)
Bridged ==
  \A id \in RecordId :
     /\ id_to_internal[id] = NoNode => NodesOf(id) = {}
     /\ id_to_internal[id] # NoNode =>
           /\ id_to_internal[id] \in NodesOf(id)
           /\ \A m \in NodesOf(id) :
                 m = id_to_internal[id] \/ (m < id_to_internal[id] /\ m \in tombstoned)

Known == {id \in RecordId : id_to_internal[id] # NoNode}

Counted == live_count <= Cardinality(Known)

(* The field index lists the nodes that were inserted with a value that    *)
(* has the key.                                                            *)
Keyed ==
  \A a \in Metadata : a.type # "missing" =>
     field_index[CanonicalKey(a)] = {n \in Node : CanonicalKey(metadata[n]) = CanonicalKey(a)}

IndexInv == GraphInv /\ IndexTypeOK /\ Bridged /\ Counted /\ Keyed

LEMMA KnownFinite ==
  ASSUME IndexInv
  PROVE  /\ Known \in SUBSET RecordId /\ IsFiniteSet(Known)
         /\ Cardinality(Known) \in Nat /\ Cardinality(RecordId) \in Nat
         /\ Cardinality(Known) <= Cardinality(RecordId)
         /\ live_count \in Nat
<1>1. Known \in SUBSET RecordId /\ IsFiniteSet(RecordId)
  BY VectorIndexAssumption DEF Known
<1>2. /\ IsFiniteSet(Known) /\ Cardinality(Known) \in Nat /\ Cardinality(RecordId) \in Nat
      /\ Cardinality(Known) <= Cardinality(RecordId)
  BY <1>1, FS_Subset, FS_CardinalityType
<1> QED BY <1>1, <1>2 DEF IndexInv, IndexTypeOK

LEMMA InsertKeepsBridge ==
  ASSUME IndexInv, NEW id \in RecordId, NEW d \in Dims, NEW v \in Point,
         NEW level \in 0..TopLevel, NEW a \in Metadata, InsertRecord(id, d, v, level, a)
  PROVE  Bridged'
<1>1. /\ Node' = Node \cup {New} /\ New \notin Node
      /\ Node = 1..Len(vectors) /\ Len(vectors) \in Nat
  BY Nodes, InsertGrows DEF IndexInv, InsertRecord, Grown
<1>2. /\ id_map' = Append(id_map, id) /\ id_map \in Seq(RecordId) /\ Len(id_map) = Len(vectors)
      /\ id_to_internal' = [id_to_internal EXCEPT ![id] = New]
      /\ id_to_internal \in [RecordId -> Node \cup {NoNode}]
      /\ tombstoned' = tombstoned \cup ({id_to_internal[id]} \ {NoNode})
  BY DEF InsertRecord, OldNodeHidden, IndexInv, IndexTypeOK, New
<1>3. id_map'[New] = id /\ \A n \in Node : id_map'[n] = id_map[n]
  BY <1>1, <1>2 DEF New
<1>4. \A other \in RecordId :
         NodesOf(other)' = IF other = id THEN NodesOf(other) \cup {New} ELSE NodesOf(other)
  BY <1>1, <1>3 DEF NodesOf
<1>5. New \in Nat \ {0} /\ (\A m \in Node : m < New)
  BY <1>1 DEF New
<1> SUFFICES ASSUME NEW other \in RecordId
             PROVE  /\ id_to_internal'[other] = NoNode => NodesOf(other)' = {}
                    /\ id_to_internal'[other] # NoNode =>
                          /\ id_to_internal'[other] \in NodesOf(other)'
                          /\ \A m \in NodesOf(other)' :
                                \/ m = id_to_internal'[other]
                                \/ m < id_to_internal'[other] /\ m \in tombstoned'
  BY DEF Bridged
<1>6. CASE other # id
  BY <1>2, <1>4, <1>6 DEF IndexInv, Bridged
<1>7. CASE other = id
  <2>1. id_to_internal'[other] = New /\ NodesOf(other)' = NodesOf(other) \cup {New}
    BY <1>2, <1>4, <1>7
  <2>2. \A m \in NodesOf(other) : m \in Node
    BY DEF NodesOf
  <2>3. \A m \in NodesOf(other) : m \in tombstoned'
    BY <1>2, <1>7 DEF IndexInv, Bridged
  <2>4. New # NoNode
    BY <1>5 DEF NoNode
  <2> QED BY <1>5, <2>1, <2>2, <2>3, <2>4
<1> QED BY <1>6, <1>7

LEMMA InsertKeepsIndexTypes ==
  ASSUME IndexInv, NEW id \in RecordId, NEW d \in Dims, NEW v \in Point,
         NEW level \in 0..TopLevel, NEW a \in Metadata, InsertRecord(id, d, v, level, a)
  PROVE  IndexTypeOK' /\ Counted'
<1>1. /\ Node' = Node \cup {New} /\ New \notin Node
      /\ Node = 1..Len(vectors) /\ Len(vectors) \in Nat /\ Len(vectors') = New
  <2>1. vectors' = Append(vectors, v) /\ vectors \in Seq(Point)
    BY DEF InsertRecord, Insert, IndexInv, IndexTypeOK, HnswTypeOK
  <2>2. Len(vectors') = New
    BY <2>1 DEF New
  <2> QED BY <2>2, Nodes, InsertGrows DEF IndexInv, InsertRecord, Grown
<1>2. HnswTypeOK'
  BY InsertKeepsTypes DEF IndexInv, InsertRecord
<1>3. id_map' \in Seq(RecordId) /\ Len(id_map') = Len(vectors')
  BY <1>1 DEF IndexInv, IndexTypeOK, InsertRecord, New
<1>4. metadata' \in Seq(Metadata) /\ Len(metadata') = Len(vectors')
  BY <1>1 DEF IndexInv, IndexTypeOK, InsertRecord, New
<1>5. id_to_internal' \in [RecordId -> Node' \cup {NoNode}]
  BY <1>1 DEF IndexInv, IndexTypeOK, InsertRecord, New
<1>6. tombstoned' \subseteq Node'
  BY <1>1 DEF IndexInv, IndexTypeOK, InsertRecord, OldNodeHidden
<1>7. field_index' \in [{CanonicalKey(b) : b \in Metadata} -> SUBSET Node']
  <2>1. CanonicalKey(a) \in {CanonicalKey(b) : b \in Metadata}
    OBVIOUS
  <2> DEFINE Keys == {CanonicalKey(b) : b \in Metadata}
             key == CanonicalKey(a)
  <2>2. /\ field_index \in [Keys -> SUBSET Node]
        /\ \/ field_index' = field_index
           \/ field_index' = [field_index EXCEPT ![key] = @ \cup {New}]
    BY DEF IndexInv, IndexTypeOK, InsertRecord, New
  <2>3. key \in Keys
    BY <2>1
  <2> HIDE DEF Keys, key
  <2>4. field_index' \in [Keys -> SUBSET Node']
    BY <1>1, <2>2, <2>3
  <2> QED BY <2>4 DEF Keys
<1>8. dim' \in Dims \cup {0}
  BY DEF InsertRecord
<1>9. Counted' /\ live_count' \in 0..Cardinality(RecordId)
  <2>1. Known' = Known \cup {id}
    BY <1>1 DEF Known, InsertRecord, IndexInv, IndexTypeOK, NoNode, New
  <2>2. IsFiniteSet(Known) /\ Cardinality(Known) \in Nat /\ live_count \in Nat
    BY KnownFinite
  <2>3. live_count <= Cardinality(Known)
    BY DEF IndexInv, Counted
  <2>4. Known' \in SUBSET RecordId /\ IsFiniteSet(RecordId)
    BY VectorIndexAssumption DEF Known
  <2>5. Cardinality(Known') \in Nat /\ Cardinality(Known') <= Cardinality(RecordId)
          /\ Cardinality(RecordId) \in Nat
    BY <2>4, FS_Subset, FS_CardinalityType
  <2>6. live_count' \in Nat /\ live_count' <= Cardinality(Known')
    <3>1. CASE id_to_internal[id] = NoNode
      <4>1. live_count' = live_count + 1 /\ id \notin Known
        BY <3>1 DEF InsertRecord, CountAfterInsert, Known
      <4>2. Cardinality(Known') = Cardinality(Known) + 1
        BY <2>1, <2>2, <4>1, FS_AddElement
      <4> QED BY <2>2, <2>3, <4>1, <4>2
    <3>2. CASE id_to_internal[id] # NoNode
      <4>1. live_count' = live_count /\ Known' = Known
        BY <2>1, <3>2 DEF InsertRecord, CountAfterInsert, Known
      <4> QED BY <2>2, <2>3, <4>1
    <3> QED BY <3>1, <3>2
  <2> QED BY <2>5, <2>6 DEF Counted
<1> QED BY <1>2, <1>3, <1>4, <1>5, <1>6, <1>7, <1>8, <1>9 DEF IndexTypeOK

LEMMA InsertKeepsKeys ==
  ASSUME IndexInv, NEW id \in RecordId, NEW d \in Dims, NEW v \in Point,
         NEW level \in 0..TopLevel, NEW a \in Metadata, InsertRecord(id, d, v, level, a)
  PROVE  Keyed'
<1>1. /\ Node' = Node \cup {New} /\ New \notin Node
      /\ Node = 1..Len(vectors) /\ Len(vectors) \in Nat
  BY Nodes, InsertGrows DEF IndexInv, InsertRecord, Grown
<1>2. metadata'[New] = a /\ \A n \in Node : metadata'[n] = metadata[n]
  <2>1. metadata' = Append(metadata, a) /\ metadata \in Seq(Metadata)
          /\ Len(metadata) = Len(vectors)
    BY DEF InsertRecord, IndexInv, IndexTypeOK
  <2> QED BY <1>1, <2>1 DEF New
<1> SUFFICES ASSUME NEW b \in Metadata, b.type # "missing"
             PROVE  field_index'[CanonicalKey(b)]
                      = {n \in Node' : CanonicalKey(metadata'[n]) = CanonicalKey(b)}
  BY DEF Keyed
<1> DEFINE Keys == {CanonicalKey(c) : c \in Metadata}
<1>3. CanonicalKey(b) \in Keys /\ CanonicalKey(a) \in Keys /\ field_index \in [Keys -> SUBSET Node]
  BY DEF IndexInv, IndexTypeOK
<1>4. field_index[CanonicalKey(b)] = {n \in Node : CanonicalKey(metadata[n]) = CanonicalKey(b)}
  BY DEF IndexInv, Keyed
<1> HIDE DEF Keys
<1>5. field_index'[CanonicalKey(b)] = IF CanonicalKey(a) = CanonicalKey(b)
                                      THEN field_index[CanonicalKey(b)] \cup {New}
                                      ELSE field_index[CanonicalKey(b)]
  <2>1. CASE a = Missing
    <3>1. CanonicalKey(a) # CanonicalKey(b)
      BY <2>1 DEF CanonicalKey, Missing
    <3>2. field_index' = field_index
      BY <2>1 DEF InsertRecord
    <3> QED BY <3>1, <3>2
  <2>2. CASE a # Missing
    <3>1. field_index' = [field_index EXCEPT ![CanonicalKey(a)] = @ \cup {New}]
      BY <2>2 DEF InsertRecord, New
    <3> QED BY <1>3, <3>1
  <2> QED BY <2>1, <2>2
<1>6. {n \in Node' : CanonicalKey(metadata'[n]) = CanonicalKey(b)}
        = IF CanonicalKey(a) = CanonicalKey(b)
          THEN {n \in Node : CanonicalKey(metadata[n]) = CanonicalKey(b)} \cup {New}
          ELSE {n \in Node : CanonicalKey(metadata[n]) = CanonicalKey(b)}
  BY <1>1, <1>2
<1> QED BY <1>4, <1>5, <1>6, Zenon

LEMMA IndexInitially == IndexInit => IndexInv
<1> SUFFICES ASSUME IndexInit PROVE IndexInv
  OBVIOUS
<1>1. GraphInv /\ HnswTypeOK
  BY InitGraph DEF IndexInit, GraphInv, ListsInBounds
<1>2. Node = {} /\ Len(vectors) = 0
  BY DEF IndexInit, HnswInit, Node
<1>3. Cardinality(RecordId) \in Nat
  BY VectorIndexAssumption, FS_CardinalityType
<1>4. Known = {} /\ Cardinality(Known) = 0
  BY FS_EmptySet DEF IndexInit, Known
<1>5. IndexTypeOK
  BY <1>1, <1>2, <1>3 DEF IndexTypeOK, IndexInit
<1>6. Bridged /\ Keyed
  BY <1>2 DEF Bridged, Keyed, NodesOf, IndexInit
<1>7. Counted
  BY <1>4 DEF Counted, IndexInit
<1> QED BY <1>1, <1>5, <1>6, <1>7 DEF IndexInv

LEMMA DeleteKeepsIndex ==
  ASSUME IndexInv, NEW id \in RecordId, DeleteRecord(id)
  PROVE  IndexInv'
<1>1. GraphInv'
  BY SameKeepsGraph DEF DeleteRecord, IndexInv
<1>2. /\ UNCHANGED <<vectors, neighbors, id_map, metadata, id_to_internal, field_index, dim>>
      /\ Node' = Node /\ Known' = Known
      /\ tombstoned \subseteq tombstoned' /\ tombstoned' \subseteq Node
  BY DEF DeleteRecord, hnswVars, Known, IndexInv, IndexTypeOK, Node
<1>3. live_count' \in Nat /\ live_count' <= live_count
  BY KnownFinite DEF DeleteRecord, CountAfterDelete
<1>4. Counted' /\ live_count' \in 0..Cardinality(RecordId)
  <2>1. live_count <= Cardinality(Known)
    BY DEF IndexInv, Counted
  <2>2. live_count' <= Cardinality(Known') /\ live_count' <= Cardinality(RecordId)
    BY KnownFinite, <1>2, <1>3, <2>1
  <2> QED BY KnownFinite, <1>3, <2>2 DEF Counted
<1>5. IndexTypeOK'
  <2>1. HnswTypeOK'
    BY <1>1 DEF GraphInv, ListsInBounds
  <2> QED BY <1>2, <1>4, <2>1 DEF IndexTypeOK, IndexInv
<1>6. Bridged'
  BY <1>2 DEF Bridged, NodesOf, IndexInv
<1>7. Keyed'
  BY <1>2 DEF Keyed, IndexInv
<1> QED BY <1>1, <1>4, <1>5, <1>6, <1>7 DEF IndexInv

LEMMA SameKeepsIndex ==
  ASSUME IndexInv, UNCHANGED indexVars
  PROVE  IndexInv'
<1>1. GraphInv'
  BY SameKeepsGraph DEF indexVars, IndexInv
<1>2. IndexTypeOK'
  BY <1>1 DEF GraphInv, ListsInBounds, IndexTypeOK, IndexInv, indexVars, hnswVars, Node
<1>3. Bridged' /\ Keyed' /\ Counted'
  BY DEF Bridged, Keyed, Counted, Known, NodesOf, IndexInv, indexVars, hnswVars, Node
<1> QED BY <1>1, <1>2, <1>3 DEF IndexInv

LEMMA NextKeepsIndex == IndexInv /\ [IndexNext]_indexVars => IndexInv'
<1> SUFFICES ASSUME IndexInv, [IndexNext]_indexVars PROVE IndexInv'
  OBVIOUS
<1>1. ASSUME NEW id \in RecordId, NEW d \in Dims, NEW v \in Point, NEW level \in 0..TopLevel,
             NEW a \in Metadata, InsertRecord(id, d, v, level, a)
      PROVE  IndexInv'
  <2>1. GraphInv'
    BY <1>1, InsertKeepsGraph DEF InsertRecord, IndexInv
  <2> QED BY <1>1, <2>1, InsertKeepsIndexTypes, InsertKeepsBridge, InsertKeepsKeys DEF IndexInv
<1>2. ASSUME NEW id \in RecordId, DeleteRecord(id) PROVE IndexInv'
  BY <1>2, DeleteKeepsIndex
<1>3. CASE UNCHANGED indexVars
  BY <1>3, SameKeepsIndex
<1> QED BY <1>1, <1>2, <1>3 DEF IndexNext, InsertSkipped

LEMMA IndexInvariant == IndexSpec => []IndexInv
BY IndexInitially, NextKeepsIndex, PTL DEF IndexSpec

(* However records are inserted, updated, deleted and inserted again, no   *)
(* record has more than one node that a search may return, and it is the   *)
(* latest (src/vector_index.rs:177-260: insert tombstones the node it      *)
(* supersedes, delete the current one).                                    *)
THEOREM OneNodeAnswers == IndexSpec => []OneLiveNode
<1>1. IndexInv => OneLiveNode
  <2> SUFFICES ASSUME IndexInv, NEW id \in RecordId
               PROVE  /\ \A n \in NodesOf(id) \cap Live : \A m \in NodesOf(id) : m <= n
                      /\ (NodesOf(id) \cap Live = {}) = IsDeleted(id)
    BY DEF OneLiveNode, IndexInv
  <2>1. NodesOf(id) \subseteq Nat
    BY Nodes DEF NodesOf, IndexInv
  <2>2. CASE id_to_internal[id] = NoNode
    BY <2>2 DEF IndexInv, Bridged, IsDeleted
  <2>3. CASE id_to_internal[id] # NoNode
    <3>1. /\ id_to_internal[id] \in NodesOf(id)
          /\ \A m \in NodesOf(id) :
                m = id_to_internal[id] \/ (m < id_to_internal[id] /\ m \in tombstoned)
      BY <2>3 DEF IndexInv, Bridged
    <3>2. \A n \in NodesOf(id) \cap Live : n = id_to_internal[id]
      BY <3>1 DEF Live
    <3>3. \A m \in NodesOf(id) : m <= id_to_internal[id]
      BY <2>1, <3>1
    <3>4. (NodesOf(id) \cap Live = {}) = (id_to_internal[id] \in tombstoned)
      BY <3>1, <3>2 DEF Live, NodesOf
    <3> QED BY <2>3, <3>2, <3>3, <3>4 DEF IsDeleted
  <2> QED BY <2>2, <2>3
<1> QED BY <1>1, IndexInvariant, PTL

-----------------------------------------------------------------------------
(* The index: filters.                                                     *)

LEMMA CandidatesAre ==
  ASSUME IndexInv, NEW a \in Targets, a.type # "missing"
  PROVE  Candidates(a) = {n \in Live : CanonicalKey(metadata[n]) = CanonicalKey(a)}
<1> DEFINE Keys == {CanonicalKey(b) : b \in Metadata}
<1>1. DOMAIN field_index = Keys /\ \A n \in Live : n \in Node /\ metadata[n] \in Metadata
  BY Nodes DEF IndexInv, IndexTypeOK, Live
<1>2. CASE CanonicalKey(a) \in Keys
  <2>1. PICK b \in Metadata : CanonicalKey(a) = CanonicalKey(b)
    BY <1>2
  <2>2. b.type # "missing"
    BY <2>1 DEF CanonicalKey
  <2>3. field_index[CanonicalKey(b)] = {n \in Node : CanonicalKey(metadata[n]) = CanonicalKey(b)}
    BY <2>2 DEF IndexInv, Keyed
  <2> HIDE DEF Keys
  <2>4. Candidates(a) = Live \cap field_index[CanonicalKey(b)]
    BY <1>1, <1>2, <2>1 DEF Candidates
  <2> QED BY <1>1, <2>1, <2>3, <2>4
<1>3. CASE CanonicalKey(a) \notin Keys
  <2>1. \A n \in Live : CanonicalKey(metadata[n]) # CanonicalKey(a)
    BY <1>1, <1>3
  <2> HIDE DEF Keys
  <2> QED BY <1>1, <1>3, <2>1 DEF Candidates
<1> QED BY <1>2, <1>3

(* Asked for both zeros, the field index finds what is equal.              *)
LEMMA CandidatesAreEqual ==
  ASSUME IndexInv, NEW target \in Targets, target.type = "number"
  PROVE  UNION {Candidates(a) : a \in {b \in Targets : Equal(b, target)}}
           = {n \in Live : Equal(metadata[n], target)}
<1> DEFINE same == {b \in Targets : Equal(b, target)}
<1>1. ASSUME NEW a \in same
      PROVE  Candidates(a) = {n \in Live : CanonicalKey(metadata[n]) = CanonicalKey(a)}
  <2>1. a \in Targets /\ a.type = "number"
    BY DEF Equal
  <2> QED BY <2>1, CandidatesAre
<1>2. ASSUME NEW n \in UNION {Candidates(a) : a \in same}
      PROVE  n \in Live /\ Equal(metadata[n], target)
  <2>1. PICK a \in same : n \in Candidates(a)
    OBVIOUS
  <2>2. n \in Live /\ CanonicalKey(metadata[n]) = CanonicalKey(a) /\ Equal(a, target)
    BY <1>1, <2>1
  <2> QED BY <2>2 DEF CanonicalKey, Equal
<1>3. ASSUME NEW n \in Live, Equal(metadata[n], target)
      PROVE  n \in UNION {Candidates(a) : a \in same}
  <2>1. metadata[n] \in Targets
    BY Nodes, VectorIndexAssumption DEF IndexInv, IndexTypeOK, Live
  <2>2. metadata[n] \in same
    BY <1>3, <2>1
  <2>3. n \in Candidates(metadata[n])
    BY <1>1, <2>2
  <2> QED BY <2>2, <2>3
<1> QED BY <1>2, <1>3

(* The filters divide the live records that hold a number, though one of   *)
(* them is answered by the field index and the others by the graph         *)
(* (src/vector_index.rs:470-560, record.rs canonical_key).                 *)
THEOREM FiltersDivide == IndexSpec => []RangesPartition
<1>1. IndexInv => RangesPartition
  <2> SUFFICES ASSUME IndexInv,
                      NEW target \in UNION {Comparable(op) : op \in FilterOp \ {"eq"}}
               PROVE  LET same  == {a \in Targets : Equal(a, target)}
                          found == [o \in FilterOp |->
                                      IF o = "eq" THEN UNION {Candidates(a) : a \in same}
                                      ELSE LiveMatching(o, target)]
                      IN  /\ found["lt"] \cap found["gt"] = {}
                          /\ found["lte"] \cap found["gte"] = found["eq"]
                          /\ found["lte"] = found["lt"] \cup found["eq"]
                          /\ found["gte"] = found["gt"] \cup found["eq"]
                          /\ found["lte"] \cup found["gte"]
                               = {n \in Live : metadata[n].type = "number"}
    BY DEF RangesPartition
  <2>1. target \in Targets /\ target.type = "number" /\ target.is \in Int
    <3>1. PICK op \in FilterOp \ {"eq"} : target \in Comparable(op)
      OBVIOUS
    <3> QED BY <3>1, ValueAssumption DEF Comparable, ParseFilterOp, OpOf, FilterOp
  <2>2. \A n \in Live : metadata[n].type = "number" => metadata[n].is \in Int
    <3>1. \A n \in Live : metadata[n] \in Targets
      BY Nodes, VectorIndexAssumption DEF IndexInv, IndexTypeOK, Live
    <3> QED BY <3>1, ValueAssumption
  <2> DEFINE Is(n) == metadata[n].is
             Numeric == {n \in Live : metadata[n].type = "number"}
  <2>3. LiveMatching("lt", target) = {n \in Numeric : Is(n) < target.is}
    BY DEF LiveMatching, Matches
  <2>4. LiveMatching("lte", target) = {n \in Numeric : Is(n) <= target.is}
    BY DEF LiveMatching, Matches
  <2>5. LiveMatching("gt", target) = {n \in Numeric : Is(n) > target.is}
    BY DEF LiveMatching, Matches
  <2>6. LiveMatching("gte", target) = {n \in Numeric : Is(n) >= target.is}
    BY DEF LiveMatching, Matches
  <2> DEFINE eq == UNION {Candidates(a) : a \in {b \in Targets : Equal(b, target)}}
  <2>7. eq = {n \in Numeric : Is(n) = target.is}
    BY <2>1, CandidatesAreEqual DEF Equal
  <2>8. /\ {"lt", "lte", "gt", "gte", "eq"} \subseteq FilterOp
    BY DEF FilterOp
  <2>9. \A n \in Numeric : Is(n) \in Int
    BY <2>2
  <2> HIDE DEF eq, Numeric, Is
  <2>10. /\ LiveMatching("lt", target) \cap LiveMatching("gt", target) = {}
         /\ LiveMatching("lte", target) \cap LiveMatching("gte", target) = eq
         /\ LiveMatching("lte", target) = LiveMatching("lt", target) \cup eq
         /\ LiveMatching("gte", target) = LiveMatching("gt", target) \cup eq
         /\ LiveMatching("lte", target) \cup LiveMatching("gte", target) = Numeric
    BY <2>1, <2>3, <2>4, <2>5, <2>6, <2>7, <2>9
  <2> QED BY <2>8, <2>10 DEF eq, Numeric
<1> QED BY <1>1, IndexInvariant, PTL

(* An equality filter's fast path finds what the graph search it stands in *)
(* for finds, and no more nodes than that counts as matched                *)
(* (src/vector_index.rs:470-640).                                          *)
THEOREM ShortcutIsExact == IndexSpec => []FastPathMatchesGraph
<1>1. IndexInv => FastPathMatchesGraph
  <2> SUFFICES ASSUME IndexInv, NEW q \in Sought, NothingStranded(q),
                      NEW k \in Queries \ {0}, NEW target \in Comparable("absent"),
                      \A n \in LiveMatching("eq", target) : metadata[n] = target
               PROVE  LET all   == Len(vectors)
                          fast  == Filtered(q, k, all, "eq", target, all, all)
                          stats == FilteredWithStats(q, k, all, "eq", target, all, 0)
                      IN  fast = stats.results /\ Cardinality(fast) <= stats.matched
    BY DEF FastPathMatchesGraph
  <2> DEFINE N == Len(vectors)
             E == LiveMatching("eq", target)
             fast == Filtered(q, k, N, "eq", target, N, N)
             stats == FilteredWithStats(q, k, N, "eq", target, N, 0)
             seen == IF entry_point = NoNode THEN {}
                     ELSE Explored(q, Landing(q), 0, MaxOf(N, k), E, N).visited
  <2>1. k \in Nat \ {0} /\ N \in Nat /\ E \in SUBSET Node /\ GraphInv
        /\ Node = 1..N /\ IsFiniteSet(Node)
    BY VectorIndexAssumption, Nodes DEF LiveMatching, Live, IndexInv
  <2>2. /\ MaxOf(k, 1) = k
        /\ MaxOf(N, k) \in Nat /\ MaxOf(N, k) >= N
    BY <2>1 DEF MaxOf
  <2>3. Candidates(target) = E
    <3>1. target \in Targets /\ target.type # "missing"
      BY ValueAssumption DEF Comparable, ParseFilterOp, OpOf, JsonValue
    <3>2. Candidates(target) = {n \in Live : CanonicalKey(metadata[n]) = CanonicalKey(target)}
      BY <3>1, CandidatesAre
    <3>3. \A n \in Live : CanonicalKey(metadata[n]) = CanonicalKey(target)
                            => Matches("eq", target, metadata[n])
      BY DEF CanonicalKey, Matches, Equal
    <3>4. \A n \in Live : Matches("eq", target, metadata[n])
                            => CanonicalKey(metadata[n]) = CanonicalKey(target)
      BY DEF LiveMatching
    <3> QED BY <3>2, <3>3, <3>4 DEF LiveMatching
  <2>4. /\ IsFiniteSet(E) /\ Cardinality(E) \in Nat /\ Cardinality(E) <= N
        /\ NearestOf(q, k, E) \in SUBSET E
        /\ Cardinality(NearestOf(q, k, E)) <= Cardinality(E)
        /\ E = {} => NearestOf(q, k, E) = {}
    <3>1. /\ IsFiniteSet(E) /\ Cardinality(E) \in Nat /\ NearestOf(q, k, E) \in SUBSET E
      BY <2>1, NearestOfSome
    <3>2. Cardinality(E) <= N
      BY <2>1, Nodes, FS_Subset
    <3>3. Cardinality(NearestOf(q, k, E)) <= Cardinality(E)
      BY <3>1, FS_Subset
    <3> QED BY <3>1, <3>2, <3>3
  <2>5. fast = NearestOf(q, k, E)
    BY <2>2, <2>3, <2>4 DEF Filtered, HeapTop
  <2>6. stats.results = SearchFiltered(q, k, N, E, N) /\ stats.matched = Cardinality(seen \cap E)
    <3>1. ~(Cardinality(Candidates(target)) \in 1..0)
      BY <2>3, <2>4
    <3> QED BY <3>1 DEF FilteredWithStats
  <2>7. CASE entry_point = NoNode
    <3>1. Node = {} /\ E = {}
      BY <2>1, <2>7 DEF IndexInv, GraphInv, ListsInBounds, EntryOnTop, Node
    <3>2. seen \cap E = {} /\ Cardinality({}) = 0
      BY <3>1, FS_EmptySet
    <3>3. stats.results = {}
      BY <2>6, <2>7 DEF SearchFiltered
    <3>4. fast = {}
      BY <2>4, <2>5, <3>1
    <3>5. Cardinality(fast) = 0 /\ stats.matched = 0
      BY <2>6, <3>2, <3>4, Zenon
    <3> HIDE DEF fast, stats, seen
    <3>6. fast = stats.results /\ Cardinality(fast) <= stats.matched
      BY <3>3, <3>4, <3>5
    <3> QED BY <3>6 DEF fast, stats
  <2>8. CASE entry_point # NoNode
    <3>1. ReachableFrom(Landing(q)) = Node /\ Landing(q) \in Node
      BY <2>1, <2>8, LandsOnNode DEF NothingStranded
    <3>2. SearchFiltered(q, k, N, E, N) = NearestOf(q, k, E)
      <4>1. E \cap ReachableFrom(Landing(q)) = E
        BY <2>1, <3>1
      <4> HIDE DEF E
      <4> QED BY <2>1, <2>8, <4>1, WideFiltered
    <3>3. seen \cap E = E
      <4>1. Explored(q, Landing(q), 0, MaxOf(N, k), E, N).visited = ReachableFrom(Landing(q))
        <5> HIDE DEF E
        <5> QED BY <2>1, <2>2, <3>1, WideSearch
      <4> QED BY <2>1, <2>8, <3>1, <4>1
    <3>4. fast = stats.results /\ stats.matched = Cardinality(E)
      BY <2>5, <2>6, <3>2, <3>3, Zenon
    <3>5. Cardinality(fast) <= stats.matched
      BY <2>4, <2>5, <3>4
    <3> HIDE DEF fast, stats
    <3>6. fast = stats.results /\ Cardinality(fast) <= stats.matched
      BY <3>4, <3>5, Zenon
    <3> QED BY <3>6 DEF fast, stats
  <2> QED BY <2>7, <2>8
<1> QED BY <1>1, IndexInvariant, PTL

-----------------------------------------------------------------------------
(* The index: a beam of any width, and how many results it yields.         *)

(* After i rounds a beam of width ef is as full as what it has seen can    *)
(* make it, and while it is not full it has left out nothing.              *)
Beamed(s, i, entry, ef) ==
  /\ s \in SearchState
  /\ entry \in s.visited /\ s.frontier \subseteq s.visited /\ s.results \subseteq s.visited
  /\ Cardinality(s.results) = MinOf(ef, Cardinality(s.visited))
  /\ \/ Cardinality(s.results) >= ef
     \/ /\ \A m \in s.visited \ s.frontier : neighbors[m][0] \subseteq s.visited
        /\ s.frontier = {} \/ Cardinality(s.visited \ s.frontier) >= i

LEMMA SubsetsCount ==
  ASSUME GraphInv, NEW S \in SUBSET Node
  PROVE  /\ IsFiniteSet(S) /\ Cardinality(S) \in Nat /\ Cardinality(S) <= Len(vectors)
         /\ \A T \in SUBSET S : /\ Cardinality(T) \in Nat /\ Cardinality(T) <= Cardinality(S)
                                /\ Cardinality(T) = Cardinality(S) => T = S
BY Nodes, FS_Subset, FS_CardinalityType

LEMMA RoundBeams ==
  ASSUME GraphInv, NEW q \in Sought, NEW entry \in Node, NEW ef \in Nat \ {0},
         NEW i \in 1..Len(vectors), NEW s, Beamed(s, i - 1, entry, ef)
  PROVE  Beamed(RoundOf(s, q, 0, ef, Node, Len(vectors)), i, entry, ef)
<1> DEFINE r == RoundOf(s, q, 0, ef, Node, Len(vectors))
<1>1. /\ s \in SearchState
      /\ s.visited \in SUBSET Node /\ s.frontier \in SUBSET Node /\ s.results \in SUBSET Node
      /\ entry \in s.visited /\ s.frontier \subseteq s.visited /\ s.results \subseteq s.visited
  BY DEF Beamed, SearchState
<1>2. /\ Len(vectors) \in Nat /\ i \in Nat /\ i - 1 \in Nat
      /\ Cardinality(s.visited) \in Nat /\ Cardinality(s.visited) <= Len(vectors)
      /\ Cardinality(s.results) \in Nat
  BY <1>1, Nodes, SubsetsCount
<1>3. Cardinality(s.results) = MinOf(ef, Cardinality(s.visited))
  BY DEF Beamed
<1>4. Cardinality(s.results) >= ef => Cardinality(s.results) = ef
  BY <1>2, <1>3 DEF MinOf
<1>5. CASE Stops(s, q, ef, Len(vectors))
  <2>1. r = [s EXCEPT !.frontier = {}]
    BY <1>5 DEF RoundOf
  <2> HIDE DEF r
  <2>2. r \in SearchState /\ r.visited = s.visited /\ r.results = s.results /\ r.frontier = {}
    BY <1>1, <2>1 DEF SearchState
  <2>3. Cardinality(s.results) >= ef \/ s.frontier = {}
    BY <1>2, <1>5 DEF Stops, Hopeless
  <2>4. \/ Cardinality(s.results) >= ef
        \/ \A m \in s.visited : neighbors[m][0] \subseteq s.visited
    BY <2>3 DEF Beamed
  <2>5. \/ Cardinality(r.results) >= ef
        \/ \A m \in r.visited \ r.frontier : neighbors[m][0] \subseteq r.visited
    BY <2>2, <2>4
  <2>6. /\ entry \in r.visited /\ r.frontier \subseteq r.visited /\ r.results \subseteq r.visited
        /\ Cardinality(r.results) = MinOf(ef, Cardinality(r.visited))
        /\ r.frontier = {} /\ r \in SearchState
    BY <1>1, <1>3, <2>2
  <2>7. Beamed(r, i, entry, ef)
    BY <2>5, <2>6, Zenon DEF Beamed
  <2> QED BY <2>7 DEF r
<1>6. CASE ~Stops(s, q, ef, Len(vectors))
  <2> DEFINE c == Nearest(q, s.frontier)
             fresh == Fresh(s, c, 0)
             pool == s.results \cup (fresh \cap Node)
  <2>1. r = Explore(s, q, 0, ef, Node) /\ s.frontier # {}
    BY <1>6 DEF RoundOf, Stops
  <2> HIDE DEF r
  <2>2. Advances(s, r, q, 0, ef, Node)
    BY <1>1, <2>1, ExploreIs
  <2>3. /\ c \in s.frontier /\ c \in Node /\ fresh \in SUBSET Node /\ fresh \cap s.visited = {}
        /\ pool \in SUBSET Node
        /\ r \in SearchState /\ r.visited = s.visited \cup fresh
        /\ r.frontier = (s.frontier \ {c}) \cup fresh
        /\ r.results = NearestOf(q, ef, pool) /\ r.results \in SUBSET pool
    BY <2>2 DEF Advances
  <2> HIDE DEF c
  <2>4. fresh = neighbors[c][0] \ s.visited
    BY <2>3, BaseLayer DEF Fresh
  <2> HIDE DEF fresh
  <2>5. pool = s.results \cup fresh
    BY <2>3
  <2>6. /\ entry \in r.visited /\ r.frontier \subseteq r.visited /\ r.results \subseteq r.visited
        /\ r \in SearchState /\ r.visited \in SUBSET Node
    BY <1>1, <2>3, <2>5
  <2> HIDE DEF pool
  <2>7. /\ Cardinality(r.results) = MinOf(ef, Cardinality(pool))
        /\ Cardinality(pool) \in Nat /\ Cardinality(r.visited) \in Nat
        /\ Cardinality(s.results) <= Cardinality(pool)
        /\ Cardinality(s.visited) <= Cardinality(r.visited)
    <3>1. Cardinality(r.results) = MinOf(ef, Cardinality(pool))
      BY <2>3, NearestOfSome
    <3>2. s.results \in SUBSET pool /\ s.visited \in SUBSET r.visited
      BY <2>3, <2>5
    <3> QED BY <2>3, <2>6, <3>1, <3>2, SubsetsCount
  <2>8. Cardinality(r.results) = MinOf(ef, Cardinality(r.visited))
    <3>1. CASE Cardinality(s.visited) <= ef
      <4>1. Cardinality(s.results) = Cardinality(s.visited)
        BY <1>2, <1>3, <3>1 DEF MinOf
      <4>2. s.results = s.visited
        BY <1>1, <4>1, SubsetsCount
      <4>3. pool = r.visited
        BY <2>3, <2>5, <4>2
      <4> QED BY <2>7, <4>3
    <3>2. CASE Cardinality(s.visited) > ef
      <4>1. Cardinality(s.results) = ef
        BY <1>2, <1>3, <3>2 DEF MinOf
      <4> QED BY <1>2, <2>7, <3>2, <4>1 DEF MinOf
    <3> QED BY <1>2, <3>1, <3>2
  <2>9. CASE Cardinality(s.results) >= ef
    <3>1. Cardinality(r.results) >= ef
      BY <1>2, <2>7, <2>9 DEF MinOf
    <3>2. Beamed(r, i, entry, ef)
      BY <2>6, <2>8, <3>1, Zenon DEF Beamed
    <3> QED BY <3>2 DEF r
  <2>10. CASE ~(Cardinality(s.results) >= ef)
    <3>1. /\ \A m \in s.visited \ s.frontier : neighbors[m][0] \subseteq s.visited
          /\ Cardinality(s.visited \ s.frontier) >= i - 1
      BY <2>1, <2>10 DEF Beamed
    <3>2. r.visited \ r.frontier = (s.visited \ s.frontier) \cup {c}
            /\ c \notin s.visited \ s.frontier
      BY <1>1, <2>3
    <3>3. \A m \in r.visited \ r.frontier : neighbors[m][0] \subseteq r.visited
      BY <2>3, <2>4, <3>1, <3>2
    <3>4. Cardinality(r.visited \ r.frontier) >= i
      <4> DEFINE done == s.visited \ s.frontier
      <4>1. done \in SUBSET Node /\ c \notin done /\ r.visited \ r.frontier = done \cup {c}
        BY <1>1, <3>2
      <4>2. Cardinality(done) >= i - 1
        BY <3>1
      <4> HIDE DEF done
      <4>3. IsFiniteSet(done) /\ Cardinality(done) \in Nat
        BY <4>1, SubsetsCount
      <4>4. Cardinality(done \cup {c}) = Cardinality(done) + 1
        BY <4>1, <4>3, FS_AddElement
      <4>5. Cardinality(done) + 1 >= i
        BY <1>2, <4>2, <4>3
      <4> QED BY <4>1, <4>4, <4>5, Zenon
    <3>5. Beamed(r, i, entry, ef)
      BY <2>6, <2>8, <3>3, <3>4, Zenon DEF Beamed
    <3> QED BY <3>5 DEF r
  <2> QED BY <2>9, <2>10
<1> QED BY <1>5, <1>6

LEMMA BeamFills ==
  ASSUME GraphInv, NEW q \in Sought, NEW entry \in Node, NEW ef \in Nat \ {0},
         ReachableFrom(entry) = Node
  PROVE  LET found == SearchLayer(q, entry, 0, ef, Node, Len(vectors))
         IN  found \in SUBSET Node /\ Cardinality(found) = MinOf(ef, Len(vectors))
<1> DEFINE N == Len(vectors)
<1>1. PICK f : /\ Runs(f, q, entry, 0, ef, Node, N)
               /\ Explored(q, entry, 0, ef, Node, N) = f[N]
  BY SearchRuns
<1>2. N \in Nat /\ IsFiniteSet(Node) /\ Cardinality(Node) = N
  BY Nodes
<1> DEFINE S == {i \in 0..N : Beamed(f[i], i, entry, ef)}
<1>3. 0 \in S
  <2> DEFINE b == Begin(entry, Node)
  <2>1. f[0] = b
    BY <1>1 DEF Runs
  <2>2. b \in SearchState
    BY DEF Begin, SearchState
  <2>3. /\ b.visited = {entry} /\ b.frontier = {entry} /\ b.results = {entry}
        /\ b.visited \ b.frontier = {}
    BY DEF Begin
  <2> HIDE DEF b
  <2>4. Cardinality({entry}) = 1 /\ Cardinality({}) = 0
    BY FS_Singleton, FS_EmptySet
  <2>5. Cardinality(b.results) = MinOf(ef, Cardinality(b.visited))
    <3>1. 1 = MinOf(ef, 1)
      BY DEF MinOf
    <3> QED BY <2>3, <2>4, <3>1, Zenon
  <2>6. Cardinality(b.visited \ b.frontier) >= 0
    <3>1. Cardinality(b.visited \ b.frontier) = 0
      BY <2>3, <2>4, Zenon
    <3> QED BY <3>1
  <2>7. /\ entry \in b.visited /\ b.frontier \subseteq b.visited /\ b.results \subseteq b.visited
        /\ \A m \in b.visited \ b.frontier : neighbors[m][0] \subseteq b.visited
    BY <2>3
  <2>8. Beamed(b, 0, entry, ef)
    BY <2>2, <2>5, <2>6, <2>7, Zenon DEF Beamed
  <2> QED BY <1>2, <2>1, <2>8
<1>4. ASSUME NEW i \in 1..N, i - 1 \in S PROVE i \in S
  <2>1. f[i] = RoundOf(f[i - 1], q, 0, ef, Node, N)
    BY <1>1 DEF Runs
  <2>2. Beamed(f[i], i, entry, ef)
    BY <1>4, <2>1, RoundBeams
  <2> QED BY <1>2, <2>2
<1>5. 0..N \subseteq S
  <2> HIDE DEF S, N
  <2> QED BY <1>2, <1>3, <1>4, InductionTo
<1> DEFINE s == f[N]
<1>6. Beamed(s, N, entry, ef)
  BY <1>2, <1>5
<1> HIDE DEF s
<1>7. s.visited \in SUBSET Node /\ s.results \in SUBSET Node /\ s.frontier \in SUBSET Node
  BY <1>6 DEF Beamed, SearchState
<1>8. /\ Cardinality(s.visited) \in Nat /\ Cardinality(s.visited) <= N
      /\ Cardinality(s.results) = MinOf(ef, Cardinality(s.visited))
  BY <1>6, <1>7, SubsetsCount DEF Beamed
<1>9. CASE Cardinality(s.results) >= ef
  <2>1. Cardinality(s.results) = MinOf(ef, N)
    <3> HIDE DEF N
    <3> QED BY <1>2, <1>8, <1>9 DEF MinOf
  <2> QED BY <1>1, <1>7, <2>1 DEF SearchLayer, s
<1>10. CASE ~(Cardinality(s.results) >= ef)
  <2>1. /\ \A m \in s.visited \ s.frontier : neighbors[m][0] \subseteq s.visited
        /\ s.frontier = {} \/ Cardinality(s.visited \ s.frontier) >= N
        /\ s.frontier \subseteq s.visited /\ entry \in s.visited
    BY <1>6, <1>10 DEF Beamed
  <2>2. s.frontier = {}
    <3>1. SUFFICES ASSUME Cardinality(s.visited \ s.frontier) >= N PROVE s.frontier = {}
      BY <2>1
    <3>2. s.visited \ s.frontier \in SUBSET Node
      BY <1>7
    <3>3. /\ Cardinality(s.visited \ s.frontier) <= N
          /\ Cardinality(s.visited \ s.frontier) \in Nat
      BY <3>2, SubsetsCount
    <3>4. Cardinality(s.visited \ s.frontier) = Cardinality(Node)
      BY <1>2, <3>1, <3>3
    <3>5. s.visited \ s.frontier = Node
      BY <1>2, <3>2, <3>4, FS_Subset
    <3> QED BY <1>7, <3>5
  <2>3. \A m \in s.visited : neighbors[m][0] \subseteq s.visited
    BY <2>1, <2>2
  <2>4. ReachableFrom(entry) \subseteq s.visited
    BY <2>1, <2>3, ReachIsLeast
  <2>5. s.visited = Node
    BY <1>7, <2>4
  <2>6. Cardinality(s.results) = MinOf(ef, N)
    BY <1>2, <1>8, <2>5
  <2> QED BY <1>1, <1>7, <2>6 DEF SearchLayer, s
<1> QED BY <1>9, <1>10

(* t others among all can push what is first back by t places at most.     *)
LEMMA FirstWithin ==
  ASSUME NEW R, NEW S, IsFiniteSet(S), NEW L \in SUBSET S, NEW k \in Nat, NEW t \in Nat,
         Cardinality(S \ L) <= t
  PROVE  First(R, L, k) \subseteq First(R, S, k + t)
<1> SUFFICES ASSUME NEW n \in First(R, L, k) PROVE n \in First(R, S, k + t)
  OBVIOUS
<1> DEFINE few == Below(R, L, n)
           others == Below(R, S, n) \ L
<1>1. IsFiniteSet(L) /\ IsFiniteSet(S \ L) /\ Cardinality(S \ L) \in Nat
  BY FS_Subset, FS_CardinalityType
<1>2. IsFiniteSet(few) /\ Cardinality(few) \in Nat /\ Cardinality(few) < k
  BY <1>1, BelowFinite DEF First
<1>3. others \in SUBSET (S \ L) /\ Below(R, S, n) = few \cup others /\ few \cap others = {}
  BY DEF Below
<1> HIDE DEF few, others
<1>4. IsFiniteSet(others) /\ Cardinality(others) \in Nat /\ Cardinality(others) <= Cardinality(S \ L)
  BY <1>1, <1>3, FS_Subset, FS_CardinalityType
<1>5. Cardinality(few \cup others) = Cardinality(few) + Cardinality(others)
  <2>1. Cardinality(few \cup others)
          = Cardinality(few) + Cardinality(others) - Cardinality(few \cap others)
    BY <1>2, <1>4, FS_Union
  <2>2. Cardinality(few \cap others) = 0
    BY <1>3, FS_EmptySet, Zenon
  <2> QED BY <1>2, <1>4, <2>1, <2>2
<1>6. Cardinality(few \cup others) < k + t
  BY <1>1, <1>2, <1>4, <1>5
<1>7. Cardinality(Below(R, S, n)) < k + t
  BY <1>3, <1>6, Zenon
<1> QED BY <1>7 DEF First

LEMMA SearchSize ==
  ASSUME GraphInv, NEW q \in Sought, NothingStranded(q), NEW k \in Nat, NEW ef \in Nat \ {0}
  PROVE  Search(q, k, ef) \in SUBSET Node /\ Cardinality(Search(q, k, ef)) = MinOf(k, Len(vectors))
<1>1. CASE entry_point = NoNode
  <2>1. Len(vectors) = 0
    BY <1>1 DEF GraphInv, ListsInBounds, EntryOnTop
  <2>2. Search(q, k, ef) = {} /\ Cardinality({}) = 0
    BY <1>1, FS_EmptySet DEF Search, SearchFiltered
  <2>3. MinOf(k, 0) = 0
    BY DEF MinOf
  <2>4. Cardinality(Search(q, k, ef)) = MinOf(k, Len(vectors))
    BY <2>1, <2>2, <2>3, Zenon
  <2> QED BY <2>2, <2>4
<1>2. CASE entry_point # NoNode
  <2> DEFINE wide == MaxOf(ef, k)
             found == SearchLayer(q, Landing(q), 0, wide, Node, Len(vectors))
  <2>1. wide \in Nat \ {0} /\ wide >= k
    BY DEF MaxOf
  <2>2. Landing(q) \in Node /\ ReachableFrom(Landing(q)) = Node
    BY <1>2, LandsOnNode DEF NothingStranded
  <2>3. Search(q, k, ef) = NearestOf(q, k, found)
    BY <1>2 DEF Search, SearchFiltered
  <2> HIDE DEF wide
  <2>4. found \in SUBSET Node /\ Cardinality(found) = MinOf(wide, Len(vectors))
    BY <2>1, <2>2, BeamFills
  <2> HIDE DEF found
  <2>5. /\ NearestOf(q, k, found) \in SUBSET found
        /\ Cardinality(NearestOf(q, k, found)) = MinOf(k, Cardinality(found))
    BY <2>4, NearestOfSome
  <2>6. Len(vectors) \in Nat
    BY Nodes
  <2>7. MinOf(k, MinOf(wide, Len(vectors))) = MinOf(k, Len(vectors))
    BY <2>1, <2>6 DEF MinOf
  <2>8. Cardinality(NearestOf(q, k, found)) = MinOf(k, Len(vectors))
    BY <2>4, <2>5, <2>7, Zenon
  <2> QED BY <2>3, <2>4, <2>5, <2>8
<1> QED BY <1>1, <1>2

LEMMA ExactSearch ==
  ASSUME GraphInv, NEW q \in Sought, NothingStranded(q), NEW k \in Nat,
         NEW ef \in Nat, ef >= Len(vectors)
  PROVE  Search(q, k, ef) = NearestOf(q, k, Node)
<1>1. CASE entry_point = NoNode
  <2>1. Node = {}
    BY <1>1, Nodes DEF GraphInv, ListsInBounds, EntryOnTop
  <2> QED BY <1>1, <2>1, NearestOfSome DEF Search, SearchFiltered
<1>2. CASE entry_point # NoNode
  <2>1. ReachableFrom(Landing(q)) = Node
    BY <1>2 DEF NothingStranded
  <2>2. Search(q, k, ef) = NearestOf(q, k, Node \cap ReachableFrom(Landing(q)))
    BY <1>2, WideFiltered DEF Search
  <2> QED BY <2>1, <2>2
<1> QED BY <1>1, <1>2

(* Fetching a few more than k makes up for every tombstone: the narrowest  *)
(* beam yields k results or all live records, and a wide one the exact     *)
(* answer (src/vector_index.rs:289-345).                                   *)
THEOREM OverfetchSuffices == IndexSpec => []TombstonesDontStarve
<1>1. IndexInv => TombstonesDontStarve
  <2> SUFFICES ASSUME IndexInv, NEW q \in Sought, NEW k \in Queries, NothingStranded(q),
                      Cardinality(tombstoned) <= k * OverfetchPerK + OverfetchBase
               PROVE  /\ Cardinality(KnnSearch(q, k, 1)) = MinOf(k, Cardinality(Live))
                      /\ KnnSearch(q, k, Len(vectors)) = NearestOf(q, k, Live)
    BY DEF TombstonesDontStarve
  <2> DEFINE N == Len(vectors)
             t == Cardinality(tombstoned)
             o == Overfetch(k)
  <2>1. /\ k \in Nat /\ N \in Nat /\ GraphInv /\ tombstoned \in SUBSET Node
        /\ IsFiniteSet(Node) /\ Cardinality(Node) = N /\ Live \in SUBSET Node
    BY VectorIndexAssumption, Nodes DEF Live, IndexInv, IndexTypeOK
  <2>2. /\ IsFiniteSet(tombstoned) /\ t \in Nat /\ Cardinality(Live) \in Nat
        /\ Cardinality(Live) = N - t
    <3>1. IsFiniteSet(tombstoned) /\ t \in Nat /\ Cardinality(Live) \in Nat
      BY <2>1, SubsetsCount
    <3>2. Cardinality(Node \ tombstoned) = Cardinality(Node) - Cardinality(Node \cap tombstoned)
      BY <2>1, <3>1, FS_Difference
    <3>3. Node \cap tombstoned = tombstoned
      BY <2>1
    <3> QED BY <2>1, <3>1, <3>2, <3>3 DEF Live
  <2>3. CASE tombstoned = {}
    <3>1. Live = Node /\ Cardinality(Live) = N
      BY <2>1, <2>3 DEF Live
    <3>2. KnnSearch(q, k, 1) = Search(q, k, 1) /\ KnnSearch(q, k, N) = Search(q, k, N)
      BY <2>3 DEF KnnSearch
    <3>3. Cardinality(Search(q, k, 1)) = MinOf(k, N)
      BY <2>1, SearchSize
    <3>4. Search(q, k, N) = NearestOf(q, k, Node)
      BY <2>1, ExactSearch
    <3>5. Cardinality(KnnSearch(q, k, 1)) = MinOf(k, Cardinality(Live))
      BY <3>1, <3>2, <3>3, Zenon
    <3> QED BY <3>1, <3>2, <3>4, <3>5
  <2>4. CASE tombstoned # {}
    <3>1. o = k + t
      <4>1. k * OverfetchPerK + OverfetchBase \in Nat
        BY <2>1, VectorIndexAssumption
      <4>2. MinOf(t, k * OverfetchPerK + OverfetchBase) = t
        BY <2>2, <4>1 DEF MinOf
      <4> QED BY <4>2 DEF Overfetch
    <3>2. t # 0
      BY <2>2, <2>4, FS_EmptySet
    <3>3. /\ o \in Nat \ {0}
          /\ MaxOf(1, o) \in Nat \ {0}
          /\ MaxOf(N, o) \in Nat /\ MaxOf(N, o) >= N
      <4> HIDE DEF o, N, t
      <4> QED BY <2>1, <2>2, <3>1, <3>2 DEF MaxOf
    <3> DEFINE near == Search(q, o, MaxOf(1, o))
               far == Search(q, o, MaxOf(N, o))
    <3>4. /\ KnnSearch(q, k, 1) = NearestOf(q, k, Live \cap near)
          /\ KnnSearch(q, k, N) = NearestOf(q, k, Live \cap far)
      BY <2>4 DEF KnnSearch
    <3> HIDE DEF o
    <3>5. near \in SUBSET Node /\ Cardinality(near) = MinOf(o, N)
      BY <2>1, <3>3, SearchSize
    <3>6. far = NearestOf(q, o, Node)
      BY <2>1, <3>3, ExactSearch
    <3> HIDE DEF near, far
    <3>7. Cardinality(NearestOf(q, k, Live \cap near)) = MinOf(k, Cardinality(Live))
      <4> DEFINE left == Live \cap near
                 lost == tombstoned \cap near
      <4>1. left \in SUBSET Node /\ left \in SUBSET Live /\ lost \in SUBSET tombstoned
              /\ near = left \cup lost /\ left \cap lost = {}
        BY <2>1, <3>5 DEF Live
      <4> HIDE DEF left, lost
      <4>2. /\ Cardinality(left) \in Nat /\ Cardinality(left) <= Cardinality(Live)
            /\ IsFiniteSet(left)
            /\ Cardinality(lost) \in Nat /\ Cardinality(lost) <= t /\ IsFiniteSet(lost)
        <5>1. lost \in SUBSET Node
          BY <2>1, <4>1
        <5> QED BY <2>1, <4>1, <5>1, SubsetsCount
      <4>3. Cardinality(left \cup lost) = Cardinality(left) + Cardinality(lost)
        <5>1. Cardinality(left \cup lost)
                = Cardinality(left) + Cardinality(lost) - Cardinality(left \cap lost)
          BY <4>2, FS_Union
        <5>2. Cardinality(left \cap lost) = 0
          BY <4>1, FS_EmptySet, Zenon
        <5> QED BY <4>2, <5>1, <5>2
      <4>4. Cardinality(left) + Cardinality(lost) = MinOf(o, N)
        BY <3>5, <4>1, <4>3, Zenon
      <4>5. Cardinality(NearestOf(q, k, left)) = MinOf(k, Cardinality(left))
        BY <2>1, <4>1, NearestOfSome
      <4>6. MinOf(k, Cardinality(left)) = MinOf(k, Cardinality(Live))
        <5> HIDE DEF N, t
        <5> QED BY <2>1, <2>2, <3>1, <4>2, <4>4 DEF MinOf
      <4> QED BY <4>5, <4>6, Zenon DEF left
    <3>8. NearestOf(q, k, Live \cap far) = NearestOf(q, k, Live)
      <4> DEFINE R == Rank(q)
                 left == Live \cap far
      <4>1. StrictOrder(R, Node) /\ StrictOrder(R, Live) /\ IsFiniteSet(Live)
        BY <2>1, Ranked, SubOrder, FS_Subset
      <4>2. far = First(R, Node, o)
        BY <2>1, <3>6, NearestOfIs
      <4>3. Cardinality(Node \ Live) <= t
        <5>1. Node \ Live = tombstoned
          BY <2>1 DEF Live
        <5>2. Cardinality(Node \ Live) = t
          BY <5>1, Zenon
        <5> QED BY <2>2, <5>2
      <4> HIDE DEF R
      <4>4. First(R, Live, k) \subseteq far
        <5> HIDE DEF t
        <5> QED BY <2>1, <2>2, <3>1, <4>2, <4>3, FirstWithin
      <4>5. First(R, Live, k) \subseteq left /\ left \in SUBSET Live /\ left \in SUBSET Node
        BY <2>1, <4>4 DEF First
      <4>6. First(R, left, k) = First(R, Live, k)
        BY <2>1, <4>1, <4>5, FirstBetween
      <4> HIDE DEF left
      <4>7. NearestOf(q, k, left) = First(R, left, k) /\ NearestOf(q, k, Live) = First(R, Live, k)
        BY <2>1, <4>5, NearestOfIs DEF R
      <4> QED BY <4>6, <4>7 DEF left
    <3> QED BY <3>4, <3>7, <3>8, Zenon
  <2> QED BY <2>3, <2>4
<1> QED BY <1>1, IndexInvariant, PTL

(* The graph keeps its promises under the index too: nothing the index     *)
(* does to it but an insert changes it.                                    *)
THEOREM GraphStaysInBoundsUnderIndex == IndexSpec => [](ListsInBounds /\ WideBeamIsExact)
<1>1. IndexInv => ListsInBounds /\ WideBeamIsExact
  BY Nodes, WideFiltered DEF WideBeamIsExact, IndexInv, GraphInv
<1> QED BY <1>1, IndexInvariant, PTL

-----------------------------------------------------------------------------
(* The graph: what pruning may cost. *)

(* After as many hops as there are nodes there is nowhere else to go.      *)
LEMMA ReachIsClosed ==
  ASSUME GraphInv, NEW n \in Node
  PROVE  /\ n \in ReachableFrom(n) /\ ReachableFrom(n) \in SUBSET Node
         /\ \A m \in ReachableFrom(n) : neighbors[m][0] \subseteq ReachableFrom(n)
<1>1. PICK f : Hops(f, n) /\ ReachableFrom(n) = f[Len(vectors)]
  BY HopsReach
<1> DEFINE N == Len(vectors)
           S == {i \in 0..N : n \in f[i] /\ (Cardinality(f[i]) > i \/ Around(f[i]) = f[i])}
<1>2. N \in Nat
  BY Nodes
<1>3. \A i \in 0..N : f[i] \in SUBSET Node
  BY <1>1 DEF Hops
<1>4. 0 \in S
  <2>1. f[0] = {n} /\ Cardinality({n}) = 1
    BY <1>1, FS_Singleton DEF Hops
  <2>2. Cardinality(f[0]) > 0
    <3>1. Cardinality(f[0]) = 1
      BY <2>1, Zenon
    <3> QED BY <3>1
  <2> QED BY <1>2, <2>1, <2>2
<1>5. ASSUME NEW i \in 1..N, i - 1 \in S PROVE i \in S
  <2> DEFINE a == f[i - 1]
             b == f[i]
  <2>1. /\ i \in 0..N /\ i - 1 \in 0..N /\ b = Around(a) /\ n \in a
        /\ Cardinality(a) > i - 1 \/ Around(a) = a
    BY <1>1, <1>2, <1>5 DEF Hops
  <2>2. a \in SUBSET Node /\ b \in SUBSET Node
    BY <1>3, <2>1
  <2> HIDE DEF a, b
  <2>3. a \in SUBSET b
    BY <2>1 DEF Around
  <2>4. CASE b = a
    BY <2>1, <2>3, <2>4 DEF b
  <2>5. CASE b # a
    <3>1. /\ Cardinality(a) \in Nat /\ Cardinality(b) \in Nat
          /\ Cardinality(a) <= Cardinality(b) /\ Cardinality(a) # Cardinality(b)
      BY <2>2, <2>3, <2>5, SubsetsCount
    <3>2. Cardinality(a) > i - 1
      BY <2>1, <2>5
    <3>3. Cardinality(b) > i
      BY <2>1, <3>1, <3>2
    <3> QED BY <2>1, <2>3, <3>3 DEF b
  <2> QED BY <2>4, <2>5
<1>6. 0..N \subseteq S
  <2> HIDE DEF S, N
  <2> QED BY <1>2, <1>4, <1>5, InductionTo
<1>7. N \in S /\ f[N] \in SUBSET Node
  BY <1>2, <1>3, <1>6
<1>8. ~(Cardinality(f[N]) > N)
  BY <1>2, <1>7, SubsetsCount
<1>9. n \in f[N] /\ Around(f[N]) = f[N]
  BY <1>7, <1>8
<1> QED BY <1>1, <1>7, <1>9 DEF Around

(* No part of the graph is closed but all of it, or one that holds a node  *)
(* which dropped a neighbour.                                              *)
Whole ==
  \A T \in SUBSET Node :
     T # {} /\ (\A m \in T : neighbors[m][0] \subseteq T) =>
        T = Node \/ T \cap crowded # {}

LEMMA InsertKeepsWhole ==
  ASSUME GraphInv, Whole, NEW v \in Point, NEW level \in 0..TopLevel, Insert(v, level)
  PROVE  Whole'
<1>1. /\ Node' = Node \cup {New} /\ New \notin Node
      /\ neighbors'[New] =
            [lc \in 0..level |-> IF lc \in Linked(level) THEN Chosen(v, level, lc) ELSE {}]
      /\ \A n \in Node :
            neighbors'[n] =
               [lc \in Layers(n) |-> IF lc \in Linked(level) /\ n \in Chosen(v, level, lc)
                                     THEN ConnectAndPrune(n, lc, v)
                                     ELSE neighbors[n][lc]]
  BY InsertGrows DEF Grown
<1>2. CASE entry_point = NoNode
  <2>1. Node = {}
    BY <1>2, Nodes DEF GraphInv, ListsInBounds, EntryOnTop
  <2> QED BY <1>1, <2>1 DEF Whole
<1>3. CASE entry_point # NoNode
  <2>1. 0 \in Linked(level) /\ 0 \in 0..level
    BY <1>3, HnswAssumption DEF Linked, GraphInv, ListsInBounds, HnswTypeOK
  <2> DEFINE chosen == Chosen(v, level, 0)
  <2>2. chosen \in SUBSET Node /\ chosen # {}
    BY <2>1, ChosenAre
  <2>3. neighbors'[New][0] = chosen
    BY <1>1, <2>1
  <2>4. \A n \in Node : neighbors'[n][0] = IF n \in chosen THEN ConnectAndPrune(n, 0, v)
                                           ELSE neighbors[n][0]
    <3> SUFFICES ASSUME NEW n \in Node
                 PROVE  neighbors'[n][0] = IF n \in chosen THEN ConnectAndPrune(n, 0, v)
                                           ELSE neighbors[n][0]
      OBVIOUS
    <3>1. 0 \in Layers(n)
      BY BaseLayer
    <3>2. neighbors'[n] =
             [lc \in Layers(n) |-> IF lc \in Linked(level) /\ n \in Chosen(v, level, lc)
                                   THEN ConnectAndPrune(n, lc, v)
                                   ELSE neighbors[n][lc]]
      BY <1>1
    <3> QED BY <2>1, <3>1, <3>2
  <2>5. /\ crowded \subseteq crowded'
        /\ \A n \in chosen : n \notin crowded' => ~(Cardinality(neighbors[n][0]) >= MMax0)
    BY <2>1, <2>2, InsertCrowds DEF Crowd
  <2> HIDE DEF chosen
  <2> SUFFICES ASSUME NEW T \in SUBSET Node', T # {}, T \cap crowded' = {},
                      \A m \in T : neighbors'[m][0] \subseteq T
               PROVE  T = Node'
    BY DEF Whole
  <2> DEFINE old == T \cap Node
  <2>6. ASSUME NEW n \in old
        PROVE  /\ neighbors[n][0] \subseteq neighbors'[n][0]
               /\ n \in chosen => New \in neighbors'[n][0]
    <3>1. CASE n \notin chosen
      BY <2>4, <3>1
    <3>2. CASE n \in chosen
      <4> DEFINE all == neighbors[n][0] \cup {New}
                 kept == ConnectAndPrune(n, 0, v)
      <4>1. /\ IsFiniteSet(all) /\ Cardinality(all) \in Nat
            /\ Cardinality(all) <= MMax0 => kept = all
        BY BaseLayer, PruneIs DEF MLayer
      <4>2. neighbors'[n][0] = kept
        BY <2>4, <3>2
      <4>3. /\ neighbors[n][0] \in SUBSET all /\ New \in all
            /\ all = neighbors[n][0] \cup {New}
        OBVIOUS
      <4> HIDE DEF all, kept
      <4>4. /\ IsFiniteSet(neighbors[n][0])
            /\ Cardinality(neighbors[n][0]) \in Nat
            /\ Cardinality(all) \in {Cardinality(neighbors[n][0]), Cardinality(neighbors[n][0]) + 1}
        BY <4>1, <4>3, FS_Subset, FS_CardinalityType, FS_AddElement
      <4>5. ~(Cardinality(neighbors[n][0]) >= MMax0)
        BY <2>5, <3>2
      <4>6. Cardinality(all) <= MMax0
        BY <4>4, <4>5, HnswAssumption
      <4> QED BY <4>1, <4>2, <4>3, <4>6
    <3> QED BY <3>1, <3>2
  <2>7. old # {}
    <3>1. New \in T => old # {}
      BY <2>2, <2>3
    <3> QED BY <1>1, <3>1
  <2>8. \A m \in old : neighbors[m][0] \subseteq old
    <3> SUFFICES ASSUME NEW m \in old PROVE neighbors[m][0] \subseteq old
      OBVIOUS
    <3>1. neighbors[m][0] \subseteq Node
      BY BaseLayer
    <3> QED BY <2>6, <3>1
  <2>9. old = Node
    <3>1. old \in SUBSET Node /\ old \cap crowded = {}
      BY <2>5
    <3> QED BY <2>7, <2>8, <3>1 DEF Whole
  <2>10. New \in T
    BY <2>2, <2>6, <2>9
  <2> QED BY <1>1, <2>9, <2>10
<1> QED BY <1>2, <1>3

(* A search loses a node only where it comes by one whose full list        *)
(* dropped a neighbour: an insert links both ways, and a list with room    *)
(* keeps all it holds (src/hnsw.rs:300-366).                               *)
THEOREM LossTakesPruning == HnswSpec => []LostOnlyByPruning
<1>1. HnswInit => Whole
  BY DEF HnswInit, Whole, Node
<1>2. GraphInv /\ Whole /\ [HnswNext]_hnswVars => Whole'
  <2> SUFFICES ASSUME GraphInv, Whole, [HnswNext]_hnswVars PROVE Whole'
    OBVIOUS
  <2>1. CASE Grow
    BY <2>1, InsertKeepsWhole DEF Grow
  <2>2. CASE UNCHANGED hnswVars
    BY <2>2 DEF Whole, Node, hnswVars
  <2> QED BY <2>1, <2>2 DEF HnswNext, Query
<1>3. GraphInv /\ Whole => LostOnlyByPruning
  <2> SUFFICES ASSUME GraphInv, Whole, NEW n \in Node
               PROVE  ReachableFrom(n) = Node \/ ReachableFrom(n) \cap crowded # {}
    BY DEF LostOnlyByPruning
  <2> QED BY ReachIsClosed DEF Whole
<1> QED BY <1>1, <1>2, <1>3, InitGraph, NextKeepsGraph, PTL DEF HnswSpec

-----------------------------------------------------------------------------
(* The graph: what a pruned list gave up. *)

(* In the graph with the new node an old one's neighbours are ordered as   *)
(* before, and it keeps the first of them.                                 *)
LEMMA PruneIsFirst ==
  ASSUME GraphInv, NEW v \in Point, NEW level \in 0..TopLevel, Insert(v, level),
         NEW n \in Node, NEW lc \in Layers(n)
  PROVE  LET all == neighbors[n][lc] \cup {New}
             R == Rank(vectors[n])'
         IN  /\ StrictOrder(R, Node') /\ StrictOrder(R, all)
             /\ all \in SUBSET Node' /\ IsFiniteSet(all)
             /\ \A a, b \in Node' : <<a, b>> \in R <=> Closer(vectors[n], a, b)'
             /\ \A a, b \in Node : Closer(vectors[n], a, b)' <=> Closer(vectors[n], a, b)
             /\ ConnectAndPrune(n, lc, v) = First(R, all, MLayer(lc))
<1> DEFINE all == neighbors[n][lc] \cup {New}
           R == Rank(vectors[n])'
           far == [m \in Node' |-> apart[metric][vectors[n]][IF m \in Node THEN vectors[m] ELSE v]]
<1>1. /\ Node' = Node \cup {New} /\ New \notin Node
      /\ metric' = metric /\ apart' = apart /\ vectors' = Append(vectors, v)
  BY InsertGrows DEF Grown, Insert
<1>2. /\ \A m \in Node' : vectors'[m] = IF m \in Node THEN vectors[m] ELSE v
      /\ vectors'[n] = vectors[n]
  <2>1. vectors \in Seq(Point) /\ Node = 1..Len(vectors)
    BY Nodes DEF GraphInv, ListsInBounds, HnswTypeOK
  <2> QED BY <1>1, <2>1 DEF New
<1>3. /\ neighbors[n][lc] \in SUBSET Node /\ IsFiniteSet(neighbors[n][lc])
      /\ all \in SUBSET Node' /\ Node' \in SUBSET Nat
  <2>1. neighbors[n][lc] \in SUBSET Node
    BY DEF GraphInv, ListsInBounds, HnswTypeOK, Layers
  <2> QED BY <1>1, <2>1, Nodes, FS_Subset DEF New
<1>4. IsFiniteSet(all)
  BY <1>3, FS_AddElement
<1>5. far \in [Node' -> Int]
  <2>1. metric \in DistanceMetric /\ vectors[n] \in Sought
    BY Nodes, HnswAssumption DEF GraphInv, ListsInBounds, HnswTypeOK
  <2>2. \A m \in Node' : (IF m \in Node THEN vectors[m] ELSE v) \in Point
    BY Nodes
  <2> QED BY <2>1, <2>2, DistancesAreIntegers DEF GraphInv
<1>6. Far(vectors[n])' = far
  BY <1>1, <1>2 DEF Far
<1>7. R = By(far, Node')
  BY <1>6 DEF Rank
<1>8. StrictOrder(R, Node') /\ StrictOrder(R, all)
  <2> HIDE DEF R, far, all
  <2>1. StrictOrder(R, Node')
    BY <1>3, <1>5, <1>7, ByIsStrict
  <2> QED BY <1>3, <2>1, SubOrder
<1>9. ASSUME NEW a \in Node', NEW b \in Node'
      PROVE  /\ Closer(vectors[n], a, b)' <=> far[a] < far[b] \/ (far[a] = far[b] /\ a < b)
             /\ <<a, b>> \in R <=> far[a] < far[b] \/ (far[a] = far[b] /\ a < b)
  <2>1. Closer(vectors[n], a, b)' <=> far[a] < far[b] \/ (far[a] = far[b] /\ a < b)
    BY <1>1, <1>2 DEF Closer
  <2>2. <<a, b>> \in R <=> far[a] < far[b] \/ (far[a] = far[b] /\ a < b)
    <3> HIDE DEF R, far
    <3> QED BY <1>7 DEF By
  <2> QED BY <2>1, <2>2
<1>10. ASSUME NEW a \in Node, NEW b \in Node
       PROVE  Closer(vectors[n], a, b)' <=> Closer(vectors[n], a, b)
  BY <1>1, <1>2 DEF Closer
<1>11. ConnectAndPrune(n, lc, v) = First(R, all, MLayer(lc))
  <2>1. ASSUME NEW m \in all
        PROVE  Below(R, all, m) = {o \in all : far[o] < far[m] \/ (far[o] = far[m] /\ o < m)}
    <3> HIDE DEF R, far, all
    <3> QED BY <1>3, <1>9 DEF Below
  <2>2. \A m \in all : far[m] = Dist(vectors[n], IF m \in Node THEN vectors[m] ELSE v)
    BY <1>3 DEF Dist
  <2>3. ConnectAndPrune(n, lc, v) =
          {m \in all : Cardinality({o \in all : far[o] < far[m] \/ (far[o] = far[m] /\ o < m)})
                          < MLayer(lc)}
    <3>1. ConnectAndPrune(n, lc, v) =
            LET Away(m) == Dist(vectors[n], IF m \in Node THEN vectors[m] ELSE v)
            IN  {m \in all : Cardinality({o \in all : Away(o) < Away(m)
                                              \/ (Away(o) = Away(m) /\ o < m)}) < MLayer(lc)}
      BY DEF ConnectAndPrune, New
    <3>2. \A m \in all :
            {o \in all : far[o] < far[m] \/ (far[o] = far[m] /\ o < m)} =
              LET Away(x) == Dist(vectors[n], IF x \in Node THEN vectors[x] ELSE v)
              IN  {o \in all : Away(o) < Away(m) \/ (Away(o) = Away(m) /\ o < m)}
      <4> HIDE DEF all, far
      <4> QED BY <2>2
    <3> HIDE DEF all, far
    <3> QED BY <3>1, <3>2
  <2> HIDE DEF R, all, far
  <2> QED BY <2>1, <2>3 DEF First
<1> QED BY <1>3, <1>4, <1>8, <1>9, <1>10, <1>11

LEMMA InsertKeepsOneWay ==
  ASSUME GraphInv, OneWayMeansFull, NEW v \in Point, NEW level \in 0..TopLevel,
         Insert(v, level)
  PROVE  OneWayMeansFull'
<1>1. /\ Node' = Node \cup {New} /\ New \notin Node
      /\ neighbors'[New] =
            [lc \in 0..level |-> IF lc \in Linked(level) THEN Chosen(v, level, lc) ELSE {}]
      /\ \A n \in Node :
            neighbors'[n] =
               [lc \in Layers(n) |-> IF lc \in Linked(level) /\ n \in Chosen(v, level, lc)
                                     THEN ConnectAndPrune(n, lc, v)
                                     ELSE neighbors[n][lc]]
  BY InsertGrows DEF Grown
<1>2. \A n \in Node : \A lc \in Layers(n) :
         /\ neighbors[n][lc] \in SUBSET Node
         /\ \A m \in neighbors[n][lc] : lc \in Layers(m)
         /\ ConnectAndPrune(n, lc, v) \in SUBSET (neighbors[n][lc] \cup {New})
  <2> SUFFICES ASSUME NEW n \in Node, NEW lc \in Layers(n)
               PROVE  /\ neighbors[n][lc] \in SUBSET Node
                      /\ \A m \in neighbors[n][lc] : lc \in Layers(m)
                      /\ ConnectAndPrune(n, lc, v) \in SUBSET (neighbors[n][lc] \cup {New})
    OBVIOUS
  <2>1. neighbors[n][lc] \in SUBSET OnLayer(lc)
    BY LinksLead
  <2>2. ConnectAndPrune(n, lc, v) \in SUBSET (neighbors[n][lc] \cup {New})
    BY PruneIs
  <2> QED BY <2>1, <2>2 DEF OnLayer
<1>3. \A lc \in Linked(level) :
         Chosen(v, level, lc) \in SUBSET Node /\ Chosen(v, level, lc) \in SUBSET OnLayer(lc)
  BY ChosenAre
<1>4. \A lc : MLayer(lc) \in Nat /\ MLayer(lc)' = MLayer(lc)
  BY HnswAssumption DEF MLayer
<1>5. ASSUME NEW m \in Node', NEW lc \in DOMAIN neighbors'[m], NEW n \in neighbors'[m][lc],
             m \notin neighbors'[n][lc]
      PROVE  /\ Cardinality(neighbors'[n][lc]) = MLayer(lc)
             /\ \A o \in neighbors'[n][lc] : Closer(vectors[n], o, m)'
  <2>1. /\ m = New => /\ lc \in Linked(level) /\ n \in Chosen(v, level, lc)
                      /\ n \in Node /\ lc \in Layers(n)
        /\ m # New => m \in Node /\ lc \in Layers(m)
    <3>1. CASE m = New
      <4>1. neighbors'[New][lc] = IF lc \in Linked(level) THEN Chosen(v, level, lc) ELSE {}
        BY <1>1, <1>5, <3>1
      <4> QED BY <1>3, <1>5, <3>1, <4>1 DEF OnLayer
    <3>2. CASE m # New
      BY <1>1, <1>5, <3>2
    <3> QED BY <3>1, <3>2
  <2>2. m # New =>
           /\ neighbors'[m][lc] = IF lc \in Linked(level) /\ m \in Chosen(v, level, lc)
                                  THEN ConnectAndPrune(m, lc, v) ELSE neighbors[m][lc]
           /\ neighbors'[m][lc] \subseteq neighbors[m][lc] \cup {New}
    <3> HAVE m # New
    <3>1. m \in Node /\ lc \in Layers(m)
      BY <2>1
    <3>2. neighbors'[m][lc] = IF lc \in Linked(level) /\ m \in Chosen(v, level, lc)
                              THEN ConnectAndPrune(m, lc, v) ELSE neighbors[m][lc]
      <4>1. neighbors'[m] =
               [l \in Layers(m) |-> IF l \in Linked(level) /\ m \in Chosen(v, level, l)
                                    THEN ConnectAndPrune(m, l, v)
                                    ELSE neighbors[m][l]]
        BY <1>1, <3>1
      <4> QED BY <3>1, <4>1
    <3>3. ConnectAndPrune(m, lc, v) \in SUBSET (neighbors[m][lc] \cup {New})
      BY <1>2, <3>1
    <3> QED BY <3>2, <3>3
  <2>3. n # New
    <3> SUFFICES ASSUME n = New PROVE FALSE
      OBVIOUS
    <3>1. m # New
      BY <1>1, <2>1
    <3>2. lc \in Linked(level) /\ m \in Chosen(v, level, lc)
      BY <1>1, <1>2, <1>5, <2>1, <2>2, <3>1
    <3>3. lc \in 0..level
      BY <3>2 DEF Linked
    <3>4. neighbors'[New][lc] = Chosen(v, level, lc)
      BY <1>1, <3>2, <3>3
    <3> QED BY <1>5, <3>2, <3>4
  <2>4. n \in Node /\ lc \in Layers(n) /\ (m # New => n \in neighbors[m][lc])
    <3>1. m # New => n \in neighbors[m][lc]
      BY <1>5, <2>2, <2>3
    <3> QED BY <1>2, <2>1, <3>1
  <2>5. neighbors'[n][lc] = IF lc \in Linked(level) /\ n \in Chosen(v, level, lc)
                            THEN ConnectAndPrune(n, lc, v) ELSE neighbors[n][lc]
    BY <1>1, <2>4
  <2> DEFINE all == neighbors[n][lc] \cup {New}
             kept == ConnectAndPrune(n, lc, v)
             R == Rank(vectors[n])'
  <2>6. /\ StrictOrder(R, Node') /\ StrictOrder(R, all)
        /\ all \in SUBSET Node' /\ IsFiniteSet(all)
        /\ \A a, b \in Node' : <<a, b>> \in R <=> Closer(vectors[n], a, b)'
        /\ \A a, b \in Node : Closer(vectors[n], a, b)' <=> Closer(vectors[n], a, b)
        /\ kept = First(R, all, MLayer(lc))
    BY <2>4, PruneIsFirst
  <2>7. all = neighbors[n][lc] \cup {New} /\ neighbors[n][lc] \in SUBSET Node
    BY <1>2, <2>4
  <2>8. m # New /\ m \notin neighbors[n][lc] =>
           /\ Cardinality(neighbors[n][lc]) = MLayer(lc)
           /\ \A o \in neighbors[n][lc] : Closer(vectors[n], o, m)'
    <3> HAVE m # New /\ m \notin neighbors[n][lc]
    <3>1. m \in Node /\ lc \in Layers(m) /\ n \in neighbors[m][lc]
      BY <2>1, <2>4
    <3>2. /\ Cardinality(neighbors[n][lc]) = MLayer(lc)
          /\ \A o \in neighbors[n][lc] : Closer(vectors[n], o, m)
      BY <3>1 DEF OneWayMeansFull
    <3> QED BY <2>6, <2>7, <3>1, <3>2
  <2>9. \A f \in kept : \A x \in all \ kept : <<f, x>> \in R /\ Cardinality(kept) = MLayer(lc)
    <3> HIDE DEF R, all, kept
    <3> QED BY <1>4, <2>6, FirstAreBelow
  <2>10. kept \in SUBSET all /\ Cardinality(kept) = MinOf(MLayer(lc), Cardinality(all))
    BY <2>4, PruneIs
  <2> HIDE DEF all, kept, R
  <2>11. CASE ~(lc \in Linked(level) /\ n \in Chosen(v, level, lc))
    BY <1>5, <2>1, <2>5, <2>8, <2>11
  <2>12. CASE lc \in Linked(level) /\ n \in Chosen(v, level, lc) /\ m \in all
    <3>1. neighbors'[n][lc] = kept /\ m \in all \ kept
      BY <1>5, <2>5, <2>12 DEF kept
    <3>2. Cardinality(kept) = MLayer(lc)
      <4>1. CASE kept = {}
        <5>1. all # {} /\ Cardinality(all) \in Nat /\ Cardinality(all) # 0 /\ Cardinality(kept) = 0
          BY <2>6, <2>7, <4>1, FS_EmptySet, FS_CardinalityType
        <5> QED BY <1>4, <2>10, <5>1 DEF MinOf
      <4>2. CASE kept # {}
        BY <2>9, <3>1, <4>2
      <4> QED BY <4>1, <4>2
    <3> QED BY <1>5, <2>6, <2>9, <2>10, <3>1, <3>2
  <2>13. CASE lc \in Linked(level) /\ n \in Chosen(v, level, lc) /\ m \notin all
    <3>1. neighbors'[n][lc] = kept
      BY <2>5, <2>13 DEF kept
    <3>2. /\ m # New /\ m \notin neighbors[n][lc] /\ m \in Node
      BY <2>1, <2>7, <2>13
    <3>3. /\ IsFiniteSet(neighbors[n][lc]) /\ Cardinality(neighbors[n][lc]) = MLayer(lc)
          /\ Cardinality(all) = MLayer(lc) + 1
      BY <1>1, <2>6, <2>7, <2>8, <3>2, FS_Subset, FS_AddElement
    <3>4. Cardinality(kept) = MLayer(lc) /\ kept # all
      BY <1>4, <2>10, <3>3 DEF MinOf
    <3>5. ASSUME NEW o \in kept PROVE Closer(vectors[n], o, m)'
      <4>1. CASE o \in neighbors[n][lc]
        BY <2>8, <3>2, <4>1
      <4>2. CASE o = New
        <5>1. PICK p \in all \ kept : TRUE
          BY <2>10, <3>4
        <5>2. p \in neighbors[n][lc]
          BY <2>7, <4>2, <5>1
        <5>3. <<New, p>> \in R /\ <<p, m>> \in R
          BY <1>5, <2>6, <2>8, <2>9, <3>2, <4>2, <5>1, <5>2
        <5>4. <<New, m>> \in R
          BY <1>5, <2>6, <2>7, <5>1, <5>3 DEF StrictOrder
        <5> QED BY <1>5, <2>6, <2>7, <4>2, <5>4
      <4> QED BY <2>7, <2>10, <4>1, <4>2
    <3> QED BY <3>1, <3>4, <3>5
  <2> QED BY <2>11, <2>12, <2>13
<1> QED BY <1>4, <1>5 DEF OneWayMeansFull, Layers

(* Of each list it had to prune the graph kept the closest, over any       *)
(* number of inserts: a link that is missing one way is missing because    *)
(* the list is full of closer nodes (src/hnsw.rs:318-366).                 *)
THEOREM PruningKeepsTheCloser == HnswSpec => []OneWayMeansFull
<1>1. HnswInit => OneWayMeansFull
  BY DEF HnswInit, OneWayMeansFull, Node
<1>2. GraphInv /\ OneWayMeansFull /\ [HnswNext]_hnswVars => OneWayMeansFull'
  <2> SUFFICES ASSUME GraphInv, OneWayMeansFull, [HnswNext]_hnswVars PROVE OneWayMeansFull'
    OBVIOUS
  <2>1. CASE Grow
    BY <2>1, InsertKeepsOneWay DEF Grow
  <2>2. CASE UNCHANGED hnswVars
    BY <2>2 DEF OneWayMeansFull, Closer, Node, Layers, MLayer, hnswVars
  <2> QED BY <2>1, <2>2 DEF HnswNext, Query
<1> QED BY <1>1, <1>2, InitGraph, NextKeepsGraph, PTL DEF HnswSpec
=============================================================================
