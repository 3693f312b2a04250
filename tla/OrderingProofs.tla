---------------------------- MODULE OrderingProofs ----------------------------
(***************************************************************************)
(* What the other proofs need of numbers and of the orders of finite sets: *)
(* least and greatest numbers, which stand in for induction, that the      *)
(* enumeration of a set has each member once and in order, and what the    *)
(* selection from a sequence keeps.                                        *)
(***************************************************************************)
EXTENDS Ordering, Integers, FiniteSetsExt, WellFoundedInduction, FiniteSetTheorems,
        SequenceTheorems, TLAPS

(* Least and greatest numbers, without induction                           *)

\* A set of naturals has a least element.
LEMMA LeastOfNaturals ==
    ASSUME NEW S \in SUBSET Nat, S # {}
    PROVE  Min(S) \in S /\ \A n \in S : Min(S) <= n
<1> DEFINE Less == {ss \in Nat \X Nat : ss[1] < ss[2]}
<1>1. IsWellFoundedOn(Less, Nat)
    BY NatLessThanWellFounded DEF OpToRel
<1>2. PICK n \in S : \A k \in S : ~ (<<k, n>> \in Less)
    <2> HIDE DEF Less
    <2> QED
        BY <1>1, WFMin
<1>3. \A k \in S : n <= k
    <2> SUFFICES ASSUME NEW k \in S, ~(n <= k) PROVE FALSE
        OBVIOUS
    <2>1. k \in Nat /\ n \in Nat /\ k < n
        OBVIOUS
    <2>2. <<k, n>> \in Less
        BY <2>1
    <2>3. QED
        BY <2>2, <1>2
<1>4. QED
    BY <1>3 DEF Min

\* A finite set of naturals has a greatest element.
LEMMA GreatestOfNaturals ==
    ASSUME NEW S \in SUBSET Nat, S # {}, NEW m \in Nat, \A n \in S : n <= m
    PROVE  Max(S) \in S /\ \A n \in S : n <= Max(S)
<1> DEFINE Above == {k \in Nat : \A n \in S : n <= k}
<1>1. Min(Above) \in Above /\ \A k \in Above : Min(Above) <= k
    BY LeastOfNaturals
<1>2. Min(Above) \in S
    <2> SUFFICES ASSUME Min(Above) \notin S PROVE FALSE
        OBVIOUS
    <2> HIDE DEF Above
    <2>1. PICK k : k = Min(Above)
        OBVIOUS
    <2>2. k \in Nat /\ \A n \in S : n <= k /\ n # k
        BY <1>1, <2>1 DEF Above
    <2>3. k - 1 \in Nat /\ \A n \in S : n <= k - 1
        <3>1. PICK n \in S : TRUE
            OBVIOUS
        <3>2. k > 0
            BY <2>2, <3>1
        <3>3. QED
            BY <2>2, <3>2
    <2>4. k - 1 \in Above
        BY <2>3 DEF Above
    <2>5. QED
        BY <2>1, <2>2, <2>4, <1>1
<1>3. QED
    BY <1>1, <1>2 DEF Max
-----------------------------------------------------------------------------
(* Enumerations                                                            *)

\* A strict total order on S.
Orders(before, S) ==
    /\ \A x \in S : <<x, x>> \notin before
    /\ \A x, y \in S : x # y => <<x, y>> \in before \/ <<y, x>> \in before
    /\ \A x, y, z \in S : <<x, y>> \in before /\ <<y, z>> \in before => <<x, z>> \in before

Below(S, before, x) == {y \in S : <<y, x>> \in before}
RankOf(S, before, x) == Cardinality(Below(S, before, x))

LEMMA RanksAre ==
    ASSUME NEW S, IsFiniteSet(S), NEW before, Orders(before, S)
    PROVE  /\ Cardinality(S) \in Nat
           /\ \A x \in S : RankOf(S, before, x) \in 0..(Cardinality(S) - 1)
           /\ \A x, y \in S : <<x, y>> \in before <=> RankOf(S, before, x) < RankOf(S, before, y)
           /\ \A x, y \in S : RankOf(S, before, x) = RankOf(S, before, y) => x = y
<1>0. Cardinality(S) \in Nat
    BY FS_CardinalityType
<1>1. ASSUME NEW x \in S
      PROVE  /\ IsFiniteSet(Below(S, before, x))
             /\ RankOf(S, before, x) \in 0..(Cardinality(S) - 1)
    <2>1. Below(S, before, x) \in SUBSET S /\ x \notin Below(S, before, x)
        BY <1>1 DEF Below, Orders
    <2>2. /\ IsFiniteSet(Below(S, before, x))
          /\ Cardinality(Below(S, before, x)) <= Cardinality(S)
          /\ Cardinality(S) # Cardinality(Below(S, before, x))
        BY <2>1, <1>1, FS_Subset
    <2>3. Cardinality(Below(S, before, x)) \in Nat
        BY <2>2, FS_CardinalityType
    <2>4. QED
        BY <2>2, <2>3, <1>0 DEF RankOf
<1>2. ASSUME NEW x \in S, NEW y \in S, <<x, y>> \in before
      PROVE  RankOf(S, before, x) < RankOf(S, before, y)
    <2>1. Below(S, before, x) \in SUBSET Below(S, before, y)
        BY <1>2 DEF Below, Orders
    <2>2. x \in Below(S, before, y) /\ x \notin Below(S, before, x)
        BY <1>2 DEF Below, Orders
    <2>3. /\ RankOf(S, before, x) <= RankOf(S, before, y)
          /\ RankOf(S, before, x) # RankOf(S, before, y)
        BY <2>1, <2>2, <1>1, <1>2, FS_Subset DEF RankOf
    <2>4. RankOf(S, before, x) \in Nat /\ RankOf(S, before, y) \in Nat
        BY <1>1, <1>0
    <2>5. QED
        BY <2>3, <2>4
<1>3. ASSUME NEW x \in S, NEW y \in S, <<x, y>> \notin before
      PROVE  ~(RankOf(S, before, x) < RankOf(S, before, y))
    <2>1. CASE x = y
        BY <2>1, <1>1, <1>0
    <2>2. CASE x # y
        <3>1. <<y, x>> \in before
            BY <2>2, <1>3 DEF Orders
        <3>2. RankOf(S, before, y) < RankOf(S, before, x)
            BY <3>1, <1>2
        <3>3. QED
            BY <3>2, <1>1, <1>0
    <2>3. QED
        BY <2>1, <2>2
<1>4. ASSUME NEW x \in S, NEW y \in S, RankOf(S, before, x) = RankOf(S, before, y)
      PROVE  x = y
    <2>1. ~(RankOf(S, before, x) < RankOf(S, before, y)) /\ ~(RankOf(S, before, y) < RankOf(S, before, x))
        BY <1>4, <1>1, <1>0
    <2>2. <<x, y>> \notin before /\ <<y, x>> \notin before
        BY <2>1, <1>2
    <2>3. QED
        BY <2>2 DEF Orders
<1>5. QED
    BY <1>0, <1>1, <1>2, <1>3, <1>4

\* Every rank is some member's.
LEMMA RanksAreFull ==
    ASSUME NEW S, IsFiniteSet(S), NEW before, Orders(before, S), NEW k \in 1..Cardinality(S)
    PROVE  \E x \in S : RankOf(S, before, x) = k - 1
<1> DEFINE f == [x \in S |-> RankOf(S, before, x) + 1]
<1>1. f \in Injection(S, 1..Cardinality(S))
    <2>1. f \in [S -> 1..Cardinality(S)]
        BY RanksAre
    <2>2. \A x, y \in S : f[x] = f[y] => x = y
        <3>1. \A x \in S : RankOf(S, before, x) \in Nat
            BY RanksAre
        <3>2. QED
            BY <3>1, RanksAre
    <2> HIDE DEF f
    <2>3. QED
        BY <2>1, <2>2 DEF Injection, IsInjective
<1>2. Cardinality(S) \in Nat
    BY RanksAre
<1>3. IsFiniteSet(1..Cardinality(S)) /\ Cardinality(1..Cardinality(S)) = Cardinality(S)
    BY <1>2, FS_Interval
<1>4. f \in Surjection(S, 1..Cardinality(S))
    <2> HIDE DEF f
    <2> QED
        BY <1>1, <1>3, FS_Injection
<1>5. PICK x \in S : f[x] = k
    <2> HIDE DEF f
    <2> QED
        BY <1>4 DEF Surjection
<1>6. RankOf(S, before, x) \in Nat
    BY RanksAre
<1>7. RankOf(S, before, x) = k - 1
    BY <1>5, <1>6, <1>2
<1>8. QED
    BY <1>7

\* The enumeration has every member once, in the order given.
LEMMA InOrderIs ==
    ASSUME NEW S, IsFiniteSet(S), NEW before, Orders(before, S)
    PROVE  /\ Cardinality(S) \in Nat
           /\ InOrder(S, before) \in [1..Cardinality(S) -> S]
           /\ \A x \in S : \E k \in 1..Cardinality(S) : InOrder(S, before)[k] = x
           /\ \A i, j \in 1..Cardinality(S) :
                  <<InOrder(S, before)[i], InOrder(S, before)[j]>> \in before <=> i < j
<1> DEFINE o == InOrder(S, before)
<1>0. Cardinality(S) \in Nat
    BY RanksAre
<1>1. o = [k \in 1..Cardinality(S) |-> CHOOSE x \in S : RankOf(S, before, x) = k - 1]
    BY DEF InOrder, RankOf, Below
<1>2. ASSUME NEW k \in 1..Cardinality(S)
      PROVE  o[k] \in S /\ RankOf(S, before, o[k]) = k - 1
    <2> HIDE DEF o
    <2> QED
        BY <1>1, <1>2, RanksAreFull
<1>3. o \in [1..Cardinality(S) -> S]
    <2> HIDE DEF o
    <2> QED
        BY <1>1, <1>2
<1>4. ASSUME NEW x \in S PROVE \E k \in 1..Cardinality(S) : o[k] = x
    <2>1. RankOf(S, before, x) \in 0..(Cardinality(S) - 1)
        BY <1>4, RanksAre
    <2>2. PICK k \in 1..Cardinality(S) : k = RankOf(S, before, x) + 1
        BY <2>1, <1>0
    <2>3. k - 1 = RankOf(S, before, x)
        BY <2>1, <2>2, <1>0
    <2>4. o[k] \in S /\ RankOf(S, before, o[k]) = RankOf(S, before, x)
        <3> HIDE DEF o
        <3> QED
            BY <1>2, <2>3
    <2>5. o[k] = x
        <3> HIDE DEF o
        <3> QED
            BY <2>4, <1>4, RanksAre
    <2>6. QED
        BY <2>5
<1>5. ASSUME NEW i \in 1..Cardinality(S), NEW j \in 1..Cardinality(S)
      PROVE  <<o[i], o[j]>> \in before <=> i < j
    <2>1. /\ o[i] \in S /\ RankOf(S, before, o[i]) = i - 1
          /\ o[j] \in S /\ RankOf(S, before, o[j]) = j - 1
        <3> HIDE DEF o
        <3> QED
            BY <1>2, <1>5
    <2>2. <<o[i], o[j]>> \in before <=> RankOf(S, before, o[i]) < RankOf(S, before, o[j])
        <3> HIDE DEF o
        <3> QED
            BY <2>1, RanksAre
    <2>3. i - 1 < j - 1 <=> i < j
        BY <1>0
    <2> HIDE DEF o
    <2>4. QED
        BY <2>1, <2>2, <2>3
<1>6. QED
    BY <1>0, <1>3, <1>4, <1>5

LEMMA NumbersOrder ==
    ASSUME NEW S \in SUBSET Int
    PROVE  Orders({p \in S \X S : p[1] < p[2]}, S)
BY DEF Orders

\* The same for a finite set of numbers.
LEMMA AscendingIs ==
    ASSUME NEW S \in SUBSET Int, IsFiniteSet(S)
    PROVE  /\ Cardinality(S) \in Nat
           /\ Ascending(S) \in [1..Cardinality(S) -> S]
           /\ \A x \in S : \E k \in 1..Cardinality(S) : Ascending(S)[k] = x
           /\ \A i, j \in 1..Cardinality(S) : Ascending(S)[i] < Ascending(S)[j] <=> i < j
<1> DEFINE before == {p \in S \X S : p[1] < p[2]}
<1>1. Orders(before, S)
    BY NumbersOrder
<1>2. Ascending(S) = InOrder(S, before)
    BY DEF Ascending
<1> HIDE DEF before
<1>3. /\ Cardinality(S) \in Nat
      /\ InOrder(S, before) \in [1..Cardinality(S) -> S]
      /\ \A x \in S : \E k \in 1..Cardinality(S) : InOrder(S, before)[k] = x
      /\ \A i, j \in 1..Cardinality(S) :
             <<InOrder(S, before)[i], InOrder(S, before)[j]>> \in before <=> i < j
    BY <1>1, InOrderIs
<1>4. \A i, j \in 1..Cardinality(S) :
             <<InOrder(S, before)[i], InOrder(S, before)[j]>> \in before
             <=> InOrder(S, before)[i] < InOrder(S, before)[j]
    BY <1>3 DEF before
<1>5. QED
    BY <1>2, <1>3, <1>4
-----------------------------------------------------------------------------
(* Selections from a sequence                                              *)

Increases(f, n) == \A i, j \in 1..n : i < j => f[i] < f[j]

\* The items at some places are those places' items, in order.
LEMMA ItemsAre ==
    ASSUME NEW T, NEW s \in Seq(T), NEW P \in SUBSET DOMAIN s
    PROVE  /\ IsFiniteSet(P) /\ Cardinality(P) \in Nat
           /\ Ascending(P) \in [1..Cardinality(P) -> P]
           /\ \A x \in P : \E k \in 1..Cardinality(P) : Ascending(P)[k] = x
           /\ Increases(Ascending(P), Cardinality(P))
           /\ ItemsAt(s, P) \in Seq(T)
           /\ Len(ItemsAt(s, P)) = Cardinality(P)
           /\ DOMAIN ItemsAt(s, P) = 1..Cardinality(P)
           /\ \A k \in 1..Cardinality(P) : ItemsAt(s, P)[k] = s[Ascending(P)[k]]
<1>1. DOMAIN s = 1..Len(s) /\ Len(s) \in Nat
    BY LenProperties
<1>2. P \in SUBSET Int
    BY <1>1
<1>3. IsFiniteSet(P)
    <2>1. IsFiniteSet(1..Len(s))
        BY <1>1, FS_Interval
    <2>2. QED
        BY <1>1, <2>1, FS_Subset
<1>4. PICK o : o = Ascending(P)
    OBVIOUS
<1>5. /\ Cardinality(P) \in Nat
      /\ o \in [1..Cardinality(P) -> P]
      /\ \A x \in P : \E k \in 1..Cardinality(P) : o[k] = x
      /\ \A i, j \in 1..Cardinality(P) : o[i] < o[j] <=> i < j
    BY <1>2, <1>3, <1>4, AscendingIs
<1>6. PICK r : r = ItemsAt(s, P)
    OBVIOUS
<1>7. r = [k \in 1..Cardinality(P) |-> s[o[k]]]
    BY <1>4, <1>6 DEF ItemsAt
<1>8. \A k \in 1..Cardinality(P) : s[o[k]] \in T
    BY <1>1, <1>5, ElementOfSeq
<1>9. r \in [1..Cardinality(P) -> T] /\ DOMAIN r = 1..Cardinality(P)
    BY <1>7, <1>8
<1>10. r \in Seq(T)
    BY <1>5, <1>9
<1>11. Len(r) = Cardinality(P)
    BY <1>5, <1>9, <1>10, LenProperties
<1>12. Increases(o, Cardinality(P))
    BY <1>5 DEF Increases
<1>13. QED
    BY <1>3, <1>4, <1>5, <1>6, <1>7, <1>9, <1>10, <1>11, <1>12

LEMMA IncreasesStrictly ==
    ASSUME NEW n \in Nat, NEW f, \A k \in 1..n : f[k] \in Int, Increases(f, n),
           NEW i \in 1..n, NEW j \in 1..n, i < j
    PROVE  f[i] # f[j] /\ ~(f[j] < f[i])
<1>1. PICK a \in Int, b \in Int : a = f[i] /\ b = f[j]
    OBVIOUS
<1>2. a < b
    BY <1>1 DEF Increases
<1>3. a # b /\ ~(b < a)
    BY <1>2
<1>4. QED
    BY <1>1, <1>3

\* There is one way to count a set of numbers upwards.
LEMMA AscendingIsThe ==
    ASSUME NEW R \in SUBSET Int, IsFiniteSet(R), NEW n \in Nat, NEW f \in [1..n -> R],
           Increases(f, n), \A x \in R : \E k \in 1..n : f[k] = x
    PROVE  n = Cardinality(R) /\ f = Ascending(R)
<1>a. PICK g, m : g = Ascending(R) /\ m = Cardinality(R)
    OBVIOUS
<1>b. /\ m \in Nat /\ g \in [1..m -> R] /\ Increases(g, m)
      /\ \A x \in R : \E k \in 1..m : g[k] = x
    BY <1>a, AscendingIs DEF Increases
<1>c. m \in Nat /\ Increases(g, m) /\ \A j \in 1..m : g[j] \in Int
    BY <1>b
<1>d. \A i \in 1..n : f[i] \in Int
    OBVIOUS
<1>e. /\ \A i \in 1..n : \E j \in 1..m : g[j] = f[i]
      /\ \A j \in 1..m : \E i \in 1..n : f[i] = g[j]
    BY <1>b
<1>0. /\ \A i, j \in 1..n : i < j => f[i] # f[j]
      /\ \A i, j \in 1..m : i < j => g[i] # g[j]
    <2>1. ASSUME NEW i \in 1..n, NEW j \in 1..n, i < j PROVE f[i] # f[j]
        BY <1>d, <2>1, IncreasesStrictly
    <2>2. ASSUME NEW i \in 1..m, NEW j \in 1..m, i < j PROVE g[i] # g[j]
        BY <1>c, <2>2, IncreasesStrictly
    <2>3. QED
        BY <2>1, <2>2
<1> DEFINE Apart == {k \in Nat : k \in 1..n /\ k \in 1..m /\ f[k] # g[k]}
<1>1. Apart = {}
    <2> SUFFICES ASSUME Apart # {} PROVE FALSE
        OBVIOUS
    <2>1. PICK k : k = Min(Apart)
        OBVIOUS
    <2>2. Apart \in SUBSET Nat
        OBVIOUS
    <2>3. k \in Apart /\ \A h \in Apart : k <= h
        <3> HIDE DEF Apart
        <3> QED
            BY <2>1, <2>2, LeastOfNaturals
    <2>4. k \in 1..n /\ k \in 1..m /\ f[k] # g[k]
        BY <2>3
    <2>5. \A h \in 1..(k - 1) : f[h] = g[h]
        BY <1>c, <2>3, <2>4
    <2>6. PICK j \in 1..m : g[j] = f[k]
        BY <1>e, <2>4
    <2>7. PICK i \in 1..n : f[i] = g[k]
        BY <1>e, <2>4
    <2>8. j > k
        <3> SUFFICES ASSUME ~(j > k) PROVE FALSE
            OBVIOUS
        <3>1. j # k
            BY <2>4, <2>6
        <3>2. j \in 1..(k - 1) /\ j \in 1..n /\ j < k
            BY <2>4, <2>6, <3>1
        <3>3. f[j] = f[k] /\ f[j] # f[k]
            BY <1>0, <2>4, <2>5, <2>6, <3>2
        <3>4. QED
            BY <3>3
    <2>9. i > k
        <3> SUFFICES ASSUME ~(i > k) PROVE FALSE
            OBVIOUS
        <3>1. i # k
            BY <2>4, <2>7
        <3>2. i \in 1..(k - 1) /\ i \in 1..m /\ i < k
            BY <1>c, <2>4, <2>7, <3>1
        <3>3. g[i] = g[k] /\ g[i] # g[k]
            BY <1>0, <2>4, <2>5, <2>7, <3>2
        <3>4. QED
            BY <3>3
    <2>10. g[k] < f[k] /\ f[k] < g[k]
        BY <1>c, <2>4, <2>6, <2>7, <2>8, <2>9 DEF Increases
    <2>11. PICK a \in Int, b \in Int : a = f[k] /\ b = g[k]
        BY <1>c, <1>d, <2>4
    <2>12. a < b /\ b < a
        BY <2>10, <2>11
    <2>13. QED
        BY <2>12
<1>2. ASSUME NEW k \in 1..n, k \in 1..m PROVE f[k] = g[k]
    <2>1. k \in Nat
        OBVIOUS
    <2>2. k \notin Apart
        <3> HIDE DEF Apart
        <3> QED
            BY <1>1
    <2>3. QED
        BY <2>1, <2>2, <1>2
<1> HIDE DEF Apart
<1>3. n <= m
    <2> SUFFICES ASSUME n > m PROVE FALSE
        BY <1>c
    <2>1. n \in 1..n /\ \A j \in 1..m : j \in 1..n /\ j < n
        BY <1>c
    <2>2. PICK j \in 1..m : g[j] = f[n]
        BY <1>e, <2>1
    <2>3. f[j] = f[n] /\ f[j] # f[n]
        BY <1>0, <1>2, <2>1, <2>2
    <2>4. QED
        BY <2>3
<1>4. m <= n
    <2> SUFFICES ASSUME m > n PROVE FALSE
        BY <1>c
    <2>1. m \in 1..m /\ \A i \in 1..n : i \in 1..m /\ i < m
        BY <1>c
    <2>2. PICK i \in 1..n : f[i] = g[m]
        BY <1>e, <2>1
    <2>3. g[i] = g[m] /\ g[i] # g[m]
        BY <1>0, <1>2, <2>1, <2>2
    <2>4. QED
        BY <2>3
<1>5. n = m
    BY <1>c, <1>3, <1>4
<1>6. f = g
    <2>1. g \in [1..n -> R] /\ \A k \in 1..n : f[k] = g[k]
        BY <1>b, <1>2, <1>5
    <2>2. QED
        BY <2>1
<1>7. QED
    BY <1>a, <1>5, <1>6
===============================================================================
