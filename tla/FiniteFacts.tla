----------------------------- MODULE FiniteFacts -----------------------------
(***************************************************************************)
(* Induction on numbers and on finite sets, stated of sets: the induction  *)
(* theorems of the library take an operator, which the provers cannot      *)
(* instantiate.  And what follows by it: finite sets of numbers have a      *)
(* largest and a smallest element, and can be put in order.                 *)
(***************************************************************************)
EXTENDS Integers, Sequences, FiniteSets, FiniteSetTheorems, NaturalsInduction, WellFoundedInduction, TLAPS

\* A set of numbers that has zero and every successor has all.
LEMMA NaturalsBySuccessor ==
  ASSUME NEW N \in SUBSET Nat, 0 \in N, \A n \in N : n + 1 \in N
  PROVE  N = Nat
<1> DEFINE less == {ss \in Nat \X Nat : ss[1] < ss[2]}
<1>1. IsWellFoundedOn(less, Nat)
  BY NatLessThanWellFounded DEF OpToRel
<1> SUFFICES ASSUME Nat \ N # {} PROVE FALSE
  OBVIOUS
<1>2. PICK m \in Nat \ N : \A n \in Nat \ N : ~(<<n, m>> \in less)
  <2> DEFINE M == Nat \ N
  <2> HIDE DEF less
  <2>1. M \subseteq Nat /\ M # {}
    OBVIOUS
  <2> HIDE DEF M
  <2>2. \E m \in M : \A n \in M : ~(<<n, m>> \in less)
    BY <1>1, <2>1, WFMin
  <2> QED BY <2>2 DEF M
<1>3. m # 0 /\ m - 1 \in Nat /\ <<m - 1, m>> \in less
  OBVIOUS
<1> QED BY <1>2, <1>3

\* A family of subsets of a finite set that has the empty one, and each with
\* one element more, has the set itself.
LEMMA FiniteByElement ==
  ASSUME NEW S, IsFiniteSet(S), NEW F \in SUBSET SUBSET S, {} \in F,
         \A T \in F : \A x \in S \ T : T \cup {x} \in F
  PROVE  S \in F
<1> DEFINE N == {n \in Nat : \A T \in SUBSET S : Cardinality(T) = n => T \in F}
<1>1. 0 \in N
  <2>1. \A T \in SUBSET S : Cardinality(T) = 0 => T = {}
    BY FS_EmptySet, FS_Subset
  <2> QED BY <2>1
<1>2. ASSUME NEW n \in N PROVE n + 1 \in N
  <2>1. n \in Nat /\ \A T \in SUBSET S : Cardinality(T) = n => T \in F
    BY <1>2
  <2> SUFFICES ASSUME NEW T \in SUBSET S, Cardinality(T) = n + 1 PROVE T \in F
    BY <2>1
  <2>2. IsFiniteSet(T)
    BY FS_Subset
  <2>8. n \in Nat
    BY <2>1
  <2>7. T # {}
    <3>1. T = {} => Cardinality(T) = 0
      BY FS_EmptySet
    <3> QED BY <2>8, <3>1
  <2>3. PICK x \in T : TRUE
    BY <2>7
  <2>4. Cardinality(T \ {x}) = n
    <3>1. Cardinality(T \ {x}) = Cardinality(T) - 1
      BY <2>2, FS_RemoveElement
    <3> QED BY <2>8, <3>1
  <2>5. T \ {x} \in F
    BY <2>1, <2>4
  <2>6. x \in S \ (T \ {x}) /\ (T \ {x}) \cup {x} = T
    OBVIOUS
  <2> QED BY <2>5, <2>6
<1> HIDE DEF N
<1>3. N = Nat
  <2>1. N \in SUBSET Nat
    BY DEF N
  <2> QED BY <1>1, <1>2, <2>1, NaturalsBySuccessor
<1>4. Cardinality(S) \in N
  BY <1>3, FS_CardinalityType
<1> QED BY <1>4 DEF N

\* Every finite set of numbers has a largest one.
LEMMA HasLargest ==
  ASSUME NEW S \in SUBSET Int, IsFiniteSet(S), S # {}
  PROVE  \E m \in S : \A x \in S : x <= m
<1> DEFINE F == {T \in SUBSET S : T # {} => \E m \in T : \A x \in T : x <= m}
<1>1. {} \in F
  OBVIOUS
<1>2. ASSUME NEW T \in F, NEW y \in S \ T PROVE T \cup {y} \in F
  <2>1. CASE T = {}
    <3>1. y \in T \cup {y} /\ \A x \in T \cup {y} : x <= y
      BY <2>1
    <3> QED BY <3>1
  <2>2. CASE T # {}
    <3>1. PICK m \in T : \A x \in T : x <= m
      BY <2>2
    <3>2. CASE y <= m
      <4>1. m \in T \cup {y} /\ \A x \in T \cup {y} : x <= m
        BY <3>1, <3>2
      <4> QED BY <4>1
    <3>3. CASE ~(y <= m)
      <4>1. y \in T \cup {y} /\ \A x \in T \cup {y} : x <= y
        BY <3>1, <3>3
      <4> QED BY <4>1
    <3> QED BY <3>2, <3>3
  <2> QED BY <2>1, <2>2
<1> HIDE DEF F
<1>3. F \in SUBSET SUBSET S
  BY DEF F
<1>4. S \in F
  BY <1>1, <1>2, <1>3, FiniteByElement
<1> QED BY <1>4 DEF F

------------------------------------------------------------------------------
(* Order.  The elements of a finite set, each at the place that the number of *)
(* the elements before it gives it.                                           *)

\* A relation that puts any two elements of S in order.
Orders(R, S) ==
  /\ R \subseteq S \X S
  /\ \A x \in S : <<x, x>> \notin R
  /\ \A x, y \in S : x = y \/ <<x, y>> \in R \/ <<y, x>> \in R
  /\ \A x, y, z \in S : <<x, y>> \in R /\ <<y, z>> \in R => <<x, z>> \in R

\* A finite set in order has a last element.
LEMMA HasLast ==
  ASSUME NEW S, IsFiniteSet(S), S # {}, NEW R, Orders(R, S)
  PROVE  \E m \in S : \A x \in S \ {m} : <<x, m>> \in R
<1> DEFINE F == {T \in SUBSET S : T # {} => \E m \in T : \A x \in T \ {m} : <<x, m>> \in R}
<1>1. {} \in F
  OBVIOUS
<1>2. ASSUME NEW T \in F, NEW y \in S \ T PROVE T \cup {y} \in F
  <2>1. CASE T = {}
    <3>1. y \in T \cup {y} /\ \A x \in (T \cup {y}) \ {y} : <<x, y>> \in R
      BY <2>1
    <3> QED BY <3>1
  <2>2. CASE T # {}
    <3>1. PICK m \in T : \A x \in T \ {m} : <<x, m>> \in R
      BY <2>2
    <3>2. CASE <<y, m>> \in R
      <4>1. m \in T \cup {y} /\ \A x \in (T \cup {y}) \ {m} : <<x, m>> \in R
        BY <3>1, <3>2
      <4> QED BY <4>1
    <3>3. CASE <<y, m>> \notin R
      <4>1. <<m, y>> \in R
        BY <3>3, <3>1 DEF Orders
      <4>2. \A x \in T : <<x, y>> \in R
        BY <3>1, <4>1 DEF Orders
      <4>3. y \in T \cup {y} /\ \A x \in (T \cup {y}) \ {y} : <<x, y>> \in R
        BY <4>2
      <4> QED BY <4>3
    <3> QED BY <3>2, <3>3
  <2> QED BY <2>1, <2>2
<1> HIDE DEF F
<1>3. F \in SUBSET SUBSET S
  BY DEF F
<1>4. S \in F
  BY <1>1, <1>2, <1>3, FiniteByElement
<1> QED BY <1>4 DEF F

\* And one for every rank.
LEMMA EveryPlaceIsHeld ==
  ASSUME NEW S, IsFiniteSet(S), NEW R, Orders(R, S), NEW i \in 0 .. Cardinality(S) - 1
  PROVE  \E x \in S : Cardinality({y \in S : <<y, x>> \in R}) = i
<1> DEFINE Ranks(T, k) == \E x \in T : Cardinality({y \in T : <<y, x>> \in R}) = k
           N == {n \in Nat : \A T \in SUBSET S : Cardinality(T) = n => \A k \in 0 .. n - 1 : Ranks(T, k)}
<1>1. 0 \in N
  OBVIOUS
<1>2. ASSUME NEW n \in N PROVE n + 1 \in N
  <2>1. n \in Nat /\ \A T \in SUBSET S : Cardinality(T) = n => \A k \in 0 .. n - 1 : Ranks(T, k)
    BY <1>2
  <2> SUFFICES ASSUME NEW T \in SUBSET S, Cardinality(T) = n + 1, NEW k \in 0 .. n
               PROVE  Ranks(T, k)
    BY <2>1
  <2>2. IsFiniteSet(T)
    BY FS_Subset
  <2>3. T # {}
    BY <2>1, <2>2, FS_EmptySet
  <2>4. Orders(R \cap (T \X T), T)
    BY DEF Orders
  <2>5. PICK m \in T : \A x \in T \ {m} : <<x, m>> \in R
    BY <2>2, <2>3, <2>4, HasLast
  <2> DEFINE U == T \ {m}
  <2>6. U \in SUBSET S /\ Cardinality(U) = n
    <3>1. Cardinality(U) = Cardinality(T) - 1
      BY <2>2, FS_RemoveElement
    <3> QED BY <2>1, <3>1
  <2>7. CASE k = n
    <3>1. {y \in T : <<y, m>> \in R} = U
      BY <2>5 DEF Orders
    <3> QED BY <2>6, <2>7, <3>1
  <2>8. CASE k # n
    <3>1. k \in 0 .. n - 1
      BY <2>1, <2>8
    <3>2. PICK x \in U : Cardinality({y \in U : <<y, x>> \in R}) = k
      BY <2>1, <2>6, <3>1
    <3>3. <<m, x>> \notin R
      BY <2>5, <3>2 DEF Orders
    <3>4. {y \in T : <<y, x>> \in R} = {y \in U : <<y, x>> \in R}
      BY <3>3
    <3> QED BY <3>2, <3>4
  <2> QED BY <2>7, <2>8
<1> HIDE DEF N
<1>3. N = Nat
  <2>1. N \in SUBSET Nat
    BY DEF N
  <2> QED BY <1>1, <1>2, <2>1, NaturalsBySuccessor
<1>4. Cardinality(S) \in N
  BY <1>3, FS_CardinalityType
<1> QED BY <1>4 DEF N

\* What stands at each place of a ranking.
Placed(s, R, S) ==
  /\ s = [i \in 1 .. Cardinality(S) |-> s[i]]
  /\ \A i \in 1 .. Cardinality(S) : s[i] \in S /\ Cardinality({y \in S : <<y, s[i]>> \in R}) = i - 1

\* Of two elements the earlier one has fewer before it.
LEMMA EarlierHasFewer ==
  ASSUME NEW S, IsFiniteSet(S), NEW R, Orders(R, S), NEW x \in S, NEW y \in S, <<x, y>> \in R
  PROVE  /\ Cardinality({z \in S : <<z, x>> \in R}) \in Nat
         /\ Cardinality({z \in S : <<z, y>> \in R}) \in Nat
         /\ Cardinality({z \in S : <<z, x>> \in R}) < Cardinality({z \in S : <<z, y>> \in R})
         /\ Cardinality({z \in S : <<z, y>> \in R}) < Cardinality(S)
<1> DEFINE X == {z \in S : <<z, x>> \in R}
           Y == {z \in S : <<z, y>> \in R}
<1>1. X \subseteq Y /\ x \in Y /\ x \notin X /\ Y \subseteq S /\ y \notin Y /\ y \in S
  BY DEF Orders
<1> HIDE DEF X, Y
<1>2. IsFiniteSet(X) /\ IsFiniteSet(Y)
  BY <1>1, FS_Subset
<1>3. Cardinality(X) \in Nat /\ Cardinality(Y) \in Nat /\ Cardinality(S) \in Nat
  BY <1>2, FS_CardinalityType
<1>4. Cardinality(X) < Cardinality(Y)
  <2>1. X # Y
    BY <1>1
  <2>2. Cardinality(X) <= Cardinality(Y) /\ (Cardinality(X) = Cardinality(Y) => X = Y)
    BY <1>1, <1>2, FS_Subset
  <2> QED BY <1>3, <2>1, <2>2
<1>5. Cardinality(Y) < Cardinality(S)
  <2>1. Y # S
    BY <1>1
  <2>2. Cardinality(Y) <= Cardinality(S) /\ (Cardinality(Y) = Cardinality(S) => Y = S)
    BY <1>1, FS_Subset
  <2> QED BY <1>3, <2>1, <2>2
<1> QED BY <1>3, <1>4, <1>5 DEF X, Y

\* Such a ranking is a sequence of all elements, in order.
LEMMA PlacedInOrder ==
  ASSUME NEW S, IsFiniteSet(S), NEW R, Orders(R, S), NEW s, Placed(s, R, S)
  PROVE  /\ s \in Seq(S) /\ Len(s) = Cardinality(S)
         /\ \A i, j \in 1 .. Len(s) : i < j => <<s[i], s[j]>> \in R
         /\ \A x \in S : \E i \in 1 .. Len(s) : s[i] = x
<1> DEFINE Rank(x) == Cardinality({y \in S : <<y, x>> \in R})
<1>1. Cardinality(S) \in Nat
  BY FS_CardinalityType
<1>2. s \in [1 .. Cardinality(S) -> S]
  BY DEF Placed
<1>3. s \in Seq(S) /\ Len(s) = Cardinality(S)
  BY <1>1, <1>2
<1>4. \A i \in 1 .. Len(s) : s[i] \in S /\ Rank(s[i]) = i - 1
  BY <1>3 DEF Placed
<1>5. \A x, y \in S : <<x, y>> \in R => Rank(x) \in Nat /\ Rank(y) \in Nat /\ Rank(x) < Rank(y)
  BY EarlierHasFewer
<1>6. \A x \in S : Rank(x) \in 0 .. Cardinality(S) - 1
  <2> TAKE x \in S
  <2> DEFINE X == {y \in S : <<y, x>> \in R}
  <2>1. X \subseteq S /\ x \notin X
    BY DEF Orders
  <2> HIDE DEF X
  <2>2. Cardinality(X) <= Cardinality(S) /\ (Cardinality(X) = Cardinality(S) => X = S) /\ IsFiniteSet(X)
    BY <2>1, FS_Subset
  <2>3. Cardinality(X) \in Nat /\ X # S
    BY <2>1, <2>2, FS_CardinalityType
  <2>4. Cardinality(X) \in 0 .. Cardinality(S) - 1
    BY <1>1, <2>2, <2>3
  <2> QED BY <2>4 DEF X
<1> HIDE DEF Rank
<1>7. ASSUME NEW i \in 1 .. Len(s), NEW j \in 1 .. Len(s), i < j PROVE <<s[i], s[j]>> \in R
  <2>1. s[i] \in S /\ s[j] \in S /\ Rank(s[i]) = i - 1 /\ Rank(s[j]) = j - 1
    BY <1>4
  <2>2. s[i] = s[j] \/ <<s[i], s[j]>> \in R \/ <<s[j], s[i]>> \in R
    BY <2>1 DEF Orders
  <2>3. s[i] # s[j] /\ ~(Rank(s[j]) < Rank(s[i]))
    BY <1>3, <1>1, <1>7, <2>1
  <2> QED BY <1>5, <2>1, <2>2, <2>3
<1>8. ASSUME NEW x \in S PROVE \E i \in 1 .. Len(s) : s[i] = x
  <2>1. Rank(x) + 1 \in 1 .. Len(s)
    BY <1>1, <1>3, <1>6
  <2> DEFINE i == Rank(x) + 1
  <2>2. i \in 1 .. Len(s) /\ i - 1 = Rank(x) /\ Rank(x) \in Nat
    BY <1>1, <1>6, <2>1
  <2> HIDE DEF i
  <2>3. s[i] \in S /\ Rank(s[i]) = Rank(x)
    BY <1>4, <2>2
  <2>4. s[i] = x \/ <<s[i], x>> \in R \/ <<x, s[i]>> \in R
    BY <2>3 DEF Orders
  <2>5. ~(Rank(x) < Rank(x))
    BY <2>2
  <2>6. s[i] = x
    BY <1>5, <2>3, <2>4, <2>5
  <2> QED BY <2>2, <2>6
<1> QED BY <1>3, <1>7, <1>8

------------------------------------------------------------------------------
(* Sums.  The sum of a function is a recursive function on the subsets of its *)
(* domain; that it does what its equation says, and that the order in which   *)
(* CHOOSE takes the elements does not matter, follows by induction on the     *)
(* size.                                                                      *)

Pick(s) == CHOOSE x \in s : TRUE
Recursion(f, D, g) ==
  g = [s \in D |-> IF s = {} THEN 0 ELSE f[Pick(s)] + g[s \ {Pick(s)}]]
Added(f) == (CHOOSE g : Recursion(f, SUBSET DOMAIN f, g))[DOMAIN f]

\* A set of subsets of a finite set D that holds s whenever it holds s without
\* any one element holds all of them.
LEMMA SubsetsByElement ==
  ASSUME NEW D, IsFiniteSet(D), NEW P \in SUBSET SUBSET D,
         \A s \in SUBSET D : (\A x \in s : s \ {x} \in P) => s \in P
  PROVE  P = SUBSET D
<1> DEFINE Q == {n \in Nat : \A s \in SUBSET D : Cardinality(s) = n => s \in P}
<1>1. \A s \in SUBSET D : IsFiniteSet(s) /\ Cardinality(s) \in Nat
  BY FS_Subset, FS_CardinalityType
<1>2. 0 \in Q
  <2> SUFFICES ASSUME NEW s \in SUBSET D, Cardinality(s) = 0 PROVE s \in P
    OBVIOUS
  <2>1. s = {}
    BY <1>1, FS_EmptySet
  <2> QED BY <2>1
<1>3. ASSUME NEW n \in Q PROVE n + 1 \in Q
  <2> SUFFICES ASSUME NEW s \in SUBSET D, Cardinality(s) = n + 1 PROVE s \in P
    OBVIOUS
  <2>1. ASSUME NEW x \in s PROVE s \ {x} \in P
    <3>1. Cardinality(s \ {x}) = n /\ s \ {x} \in SUBSET D
      BY <1>1, FS_RemoveElement
    <3> QED BY <3>1
  <2> QED BY <2>1
<1> HIDE DEF Q
<1>4. Q = Nat
  <2>1. Q \in SUBSET Nat
    BY DEF Q
  <2> QED BY <1>2, <1>3, <2>1, NaturalsBySuccessor
<1>5. ASSUME NEW s \in SUBSET D PROVE s \in P
  <2>1. Cardinality(s) \in Q
    BY <1>1, <1>4
  <2> QED BY <2>1 DEF Q
<1> QED BY <1>5

\* The recursive function exists.
LEMMA RecursionExists ==
  ASSUME NEW f, IsFiniteSet(DOMAIN f)
  PROVE  \E g : Recursion(f, SUBSET DOMAIN f, g)
<1> DEFINE Small(n) == {s \in SUBSET DOMAIN f : Cardinality(s) <= n}
           Q == {n \in Nat : \E g : Recursion(f, Small(n), g)}
<1>1. \A s \in SUBSET DOMAIN f : IsFiniteSet(s) /\ Cardinality(s) \in Nat
  BY FS_Subset, FS_CardinalityType
<1>2. 0 \in Q
  <2> DEFINE g == [s \in Small(0) |-> 0]
  <2>1. \A s \in Small(0) : s = {}
    BY <1>1, FS_EmptySet
  <2>2. Recursion(f, Small(0), g)
    BY <2>1 DEF Recursion
  <2> QED BY <2>2
<1>3. ASSUME NEW n \in Q PROVE n + 1 \in Q
  <2>1. PICK g : Recursion(f, Small(n), g)
    OBVIOUS
  <2> DEFINE h == [s \in Small(n + 1) |->
                     IF s = {} THEN 0 ELSE f[Pick(s)] + g[s \ {Pick(s)}]]
  <2>2. ASSUME NEW s \in Small(n + 1), s # {} PROVE s \ {Pick(s)} \in Small(n)
    <3>1. Pick(s) \in s
      BY <2>2 DEF Pick
    <3>2. Cardinality(s \ {Pick(s)}) = Cardinality(s) - 1
      BY <1>1, <3>1, FS_RemoveElement
    <3> QED BY <1>1, <3>2
  <2>3. Small(n) \subseteq Small(n + 1)
    BY <1>1
  <2>4. ASSUME NEW s \in Small(n) PROVE h[s] = g[s]
    <3> HIDE DEF Small
    <3> QED BY <2>1, <2>3 DEF Recursion
  <2>5. Recursion(f, Small(n + 1), h)
    <3> HIDE DEF Small
    <3> QED BY <2>2, <2>4 DEF Recursion
  <2> QED BY <2>5
<1>4. Q = Nat
  <2>1. Q \in SUBSET Nat
    OBVIOUS
  <2> HIDE DEF Q
  <2> QED BY <1>2, <1>3, <2>1, NaturalsBySuccessor
<1>5. Cardinality(DOMAIN f) \in Nat
  BY <1>1
<1>6. SUBSET DOMAIN f = Small(Cardinality(DOMAIN f))
  BY FS_Subset
<1>7. \E g : Recursion(f, Small(Cardinality(DOMAIN f)), g)
  BY <1>4, <1>5
<1> QED BY <1>6, <1>7

\* g adds up the values of f, whichever element is taken first.
AddsUp(f, D, g) ==
  /\ g[{}] = 0
  /\ \A s \in SUBSET D : g[s] \in Nat /\ \A x \in s : g[s] = f[x] + g[s \ {x}]

LEMMA AnyFirst ==
  ASSUME NEW D, NEW f, NEW g, IsFiniteSet(D), \A x \in D : f[x] \in Nat,
         Recursion(f, SUBSET D, g)
  PROVE  AddsUp(f, D, g)
<1> DEFINE P == {s \in SUBSET D : /\ g[s] \in Nat
                                  /\ \A x \in s : /\ g[s \ {x}] \in Nat
                                                  /\ g[s] = f[x] + g[s \ {x}]}
<1>1. g[{}] = 0
  BY DEF Recursion
<1>2. \A s \in SUBSET D : s # {} => Pick(s) \in s /\ g[s] = f[Pick(s)] + g[s \ {Pick(s)}]
  BY DEF Recursion, Pick
<1>3. ASSUME NEW s \in SUBSET D, \A x \in s : s \ {x} \in P
      PROVE  s \in P
  <2>1. CASE s = {}
    BY <1>1, <2>1
  <2>2. CASE s # {}
    <3> DEFINE y == Pick(s)
    <3>1. y \in s /\ g[s] = f[y] + g[s \ {y}]
      BY <1>2, <2>2
    <3> HIDE DEF y
    <3>2. s \ {y} \in P /\ f[y] \in Nat
      BY <1>3, <3>1
    <3>3. g[s] \in Nat
      BY <3>1, <3>2
    <3>4. ASSUME NEW x \in s PROVE g[s] = f[x] + g[s \ {x}]
      <4>1. CASE x = y
        BY <3>1, <4>1
      <4>2. CASE x # y
        <5>1. g[s \ {y}] = f[x] + g[(s \ {y}) \ {x}]
          BY <3>2, <4>2
        <5>2. s \ {x} \in P /\ y \in s \ {x}
          BY <1>3, <3>1, <4>2
        <5>3. g[s \ {x}] = f[y] + g[(s \ {x}) \ {y}]
          BY <5>2
        <5>4. (s \ {x}) \ {y} = (s \ {y}) \ {x}
          OBVIOUS
        <5>5. g[(s \ {y}) \ {x}] \in Nat /\ f[x] \in Nat
          BY <3>2, <4>2
        <5>6. f[x] + (f[y] + g[(s \ {y}) \ {x}]) = f[y] + (f[x] + g[(s \ {y}) \ {x}])
          BY <3>2, <5>5
        <5> QED BY <3>1, <5>1, <5>3, <5>4, <5>6
      <4> QED BY <4>1, <4>2
    <3> QED BY <1>3, <3>3, <3>4
  <2> QED BY <2>1, <2>2
<1>4. P = SUBSET D
  <2>1. P \in SUBSET SUBSET D
    OBVIOUS
  <2> HIDE DEF P
  <2> QED BY <1>3, <2>1, SubsetsByElement
<1> QED BY <1>1, <1>4 DEF AddsUp

\* Two sums over parts of the same domain, of functions that agree there.
LEMMA SameSums ==
  ASSUME NEW f, NEW h, IsFiniteSet(DOMAIN h),
         DOMAIN f \subseteq DOMAIN h, \A x \in DOMAIN f : h[x] = f[x],
         f \in [DOMAIN f -> Nat], h \in [DOMAIN h -> Nat],
         NEW g, Recursion(f, SUBSET DOMAIN f, g),
         NEW k, Recursion(h, SUBSET DOMAIN h, k)
  PROVE  g[DOMAIN f] = k[DOMAIN f]
<1> DEFINE P == {s \in SUBSET DOMAIN f : g[s] = k[s]}
<1>0. IsFiniteSet(DOMAIN f)
  BY FS_Subset
<1>1. /\ g[{}] = 0
      /\ \A s \in SUBSET DOMAIN f : \A x \in s : g[s] = f[x] + g[s \ {x}]
  <2> DEFINE D == DOMAIN f
  <2>1. IsFiniteSet(D) /\ (\A x \in D : f[x] \in Nat) /\ Recursion(f, SUBSET D, g)
    BY <1>0
  <2> HIDE DEF D
  <2>2. AddsUp(f, D, g)
    BY <2>1, AnyFirst
  <2> QED BY <2>2 DEF D, AddsUp
<1>2. /\ k[{}] = 0
      /\ \A s \in SUBSET DOMAIN h : \A x \in s : k[s] = h[x] + k[s \ {x}]
  <2> DEFINE D == DOMAIN h
  <2>1. IsFiniteSet(D) /\ (\A y \in D : h[y] \in Nat) /\ Recursion(h, SUBSET D, k)
    OBVIOUS
  <2> HIDE DEF D
  <2>2. AddsUp(h, D, k)
    BY <2>1, AnyFirst
  <2> QED BY <2>2 DEF D, AddsUp
<1>3. ASSUME NEW s \in SUBSET DOMAIN f, \A x \in s : s \ {x} \in P
      PROVE  s \in P
  <2>1. CASE s = {}
    BY <1>1, <1>2, <2>1
  <2>2. CASE s # {}
    <3>1. PICK x \in s : TRUE
      BY <2>2
    <3>2. g[s] = f[x] + g[s \ {x}] /\ k[s] = h[x] + k[s \ {x}]
      BY <1>1, <1>2, <3>1
    <3> QED BY <1>3, <3>1, <3>2
  <2> QED BY <2>1, <2>2
<1>4. P = SUBSET DOMAIN f
  <2>1. P \in SUBSET SUBSET DOMAIN f
    OBVIOUS
  <2> HIDE DEF P
  <2> QED BY <1>0, <1>3, <2>1, SubsetsByElement
<1> QED BY <1>4

\* There is nothing to add in an empty domain.
LEMMA AddedNothing ==
  ASSUME NEW f, DOMAIN f = {}
  PROVE  Added(f) = 0
<1>1. IsFiniteSet(DOMAIN f)
  BY FS_EmptySet
<1>2. PICK g : Recursion(f, SUBSET DOMAIN f, g) /\ Added(f) = g[DOMAIN f]
  BY <1>1, RecursionExists DEF Added
<1> QED BY <1>2 DEF Recursion

\* One term more adds its value to the sum, whatever the order.
LEMMA AddedOneMore ==
  ASSUME NEW f, NEW h, NEW x, IsFiniteSet(DOMAIN f), x \notin DOMAIN f,
         DOMAIN h = DOMAIN f \cup {x}, \A y \in DOMAIN f : h[y] = f[y],
         f \in [DOMAIN f -> Nat], h \in [DOMAIN h -> Nat]
  PROVE  Added(f) \in Nat /\ Added(h) = Added(f) + h[x]
<1>1. IsFiniteSet(DOMAIN h)
  BY FS_AddElement
<1>2. PICK g : Recursion(f, SUBSET DOMAIN f, g) /\ Added(f) = g[DOMAIN f]
  BY RecursionExists DEF Added
<1>3. PICK k : Recursion(h, SUBSET DOMAIN h, k) /\ Added(h) = k[DOMAIN h]
  BY <1>1, RecursionExists DEF Added
<1>4. g[DOMAIN f] = k[DOMAIN f]
  BY <1>1, <1>2, <1>3, SameSums
<1>5. /\ k[DOMAIN f] \in Nat
      /\ k[DOMAIN h] = h[x] + k[DOMAIN h \ {x}]
  <2> DEFINE D == DOMAIN h
  <2>1. IsFiniteSet(D) /\ (\A y \in D : h[y] \in Nat) /\ Recursion(h, SUBSET D, k)
    BY <1>1, <1>3
  <2>2. DOMAIN f \in SUBSET D /\ D \in SUBSET D /\ x \in D
    OBVIOUS
  <2>3. D \ {x} = DOMAIN f
    OBVIOUS
  <2> HIDE DEF D
  <2>4. AddsUp(h, D, k)
    BY <2>1, AnyFirst
  <2>5. k[DOMAIN f] \in Nat /\ k[D] = h[x] + k[D \ {x}]
    BY <2>2, <2>4 DEF AddsUp
  <2> QED BY <2>5 DEF D
<1>6. DOMAIN h \ {x} = DOMAIN f /\ h[x] \in Nat
  OBVIOUS
<1> QED BY <1>2, <1>3, <1>4, <1>5, <1>6

\* The sum over a part of a domain.
Part(v, U) == [x \in U |-> v[x]]

LEMMA AddedPart ==
  ASSUME NEW S, IsFiniteSet(S), NEW v \in [S -> Nat], NEW U \in SUBSET S, NEW x \in S \ U
  PROVE  Added(Part(v, U)) \in Nat /\ Added(Part(v, U \cup {x})) = Added(Part(v, U)) + v[x]
<1> DEFINE f == Part(v, U)
           h == Part(v, U \cup {x})
<1>1. IsFiniteSet(U)
  BY FS_Subset
<1>2. /\ DOMAIN f = U /\ DOMAIN h = U \cup {x} /\ h[x] = v[x]
      /\ \A y \in U : h[y] = f[y]
      /\ f \in [U -> Nat] /\ h \in [U \cup {x} -> Nat]
  BY DEF Part
<1> HIDE DEF f, h
<1>3. Added(f) \in Nat /\ Added(h) = Added(f) + h[x]
  BY <1>1, <1>2, AddedOneMore
<1> QED BY <1>2, <1>3 DEF f, h

\* A sum of numbers is a number, no smaller than any of them.
LEMMA AddedNat ==
  ASSUME NEW S, IsFiniteSet(S), NEW v \in [S -> Nat]
  PROVE  Added(v) \in Nat /\ \A x \in S : v[x] <= Added(v)
<1>1. ASSUME NEW x \in S PROVE Added(v) \in Nat /\ v[x] <= Added(v)
  <2> DEFINE U == S \ {x}
  <2>1. U \cup {x} = S /\ x \in S \ U /\ U \in SUBSET S /\ Part(v, S) = v
    BY DEF Part
  <2> HIDE DEF U
  <2>2. Added(Part(v, U)) \in Nat /\ Added(v) = Added(Part(v, U)) + v[x]
    BY <2>1, AddedPart
  <2>3. v[x] \in Nat
    OBVIOUS
  <2> QED BY <2>2, <2>3
<1>2. S = {} => Added(v) = 0
  BY AddedNothing
<1> QED BY <1>1, <1>2

\* A value that grows at one place makes the sum grow as much.
LEMMA AddedAtOne ==
  ASSUME NEW T, IsFiniteSet(T), NEW f \in [T -> Nat], NEW h \in [T -> Nat], NEW t \in T,
         \A u \in T \ {t} : h[u] = f[u], NEW c \in Nat, h[t] = f[t] + c
  PROVE  Added(h) = Added(f) + c
<1> DEFINE U == T \ {t}
<1>1. U \cup {t} = T /\ t \in T \ U /\ U \in SUBSET T /\ Part(f, T) = f /\ Part(h, T) = h
  BY DEF Part
<1>2. Part(h, U) = Part(f, U)
  BY DEF Part
<1> HIDE DEF U
<1>3. Added(Part(f, U)) \in Nat /\ Added(f) = Added(Part(f, U)) + f[t]
  BY <1>1, AddedPart
<1>4. Added(h) = Added(Part(h, U)) + h[t]
  BY <1>1, AddedPart
<1>5. f[t] \in Nat
  OBVIOUS
<1> QED BY <1>2, <1>3, <1>4, <1>5

\* A sum of equal numbers.
LEMMA AddedEqual ==
  ASSUME NEW S, IsFiniteSet(S), NEW c \in Nat
  PROVE  Added([x \in S |-> c]) = Cardinality(S) * c
<1> DEFINE v == [x \in S |-> c]
           F == {U \in SUBSET S : Added(Part(v, U)) = Cardinality(U) * c}
<1>1. {} \in F
  <2>1. Added(Part(v, {})) = 0
    BY AddedNothing DEF Part
  <2>2. Cardinality({}) * c = 0
    BY FS_EmptySet
  <2> QED BY <2>1, <2>2
<1>2. ASSUME NEW U \in F, NEW x \in S \ U PROVE U \cup {x} \in F
  <2>1. v \in [S -> Nat] /\ v[x] = c /\ U \in SUBSET S /\ Added(Part(v, U)) = Cardinality(U) * c
    OBVIOUS
  <2> HIDE DEF v
  <2>2. Added(Part(v, U \cup {x})) = Cardinality(U) * c + c
    BY <2>1, AddedPart
  <2>3. Cardinality(U) \in Nat /\ Cardinality(U \cup {x}) = Cardinality(U) + 1
    <3>1. IsFiniteSet(U)
      BY FS_Subset
    <3>2. x \notin U
      OBVIOUS
    <3> HIDE DEF F
    <3> QED BY <3>1, <3>2, FS_AddElement, FS_CardinalityType
  <2>4. \A n \in Nat : n * c + c = (n + 1) * c
    OBVIOUS
  <2>5. Added(Part(v, U \cup {x})) = Cardinality(U \cup {x}) * c
    BY <2>2, <2>3, <2>4
  <2> QED BY <2>5
<1>3. F \in SUBSET SUBSET S
  OBVIOUS
<1> HIDE DEF F
<1>4. S \in F
  BY <1>1, <1>2, <1>3, FiniteByElement
<1>5. Part(v, S) = v
  BY DEF Part
<1> QED BY <1>4, <1>5 DEF F

\* What is added up group by group is the sum of all.
Group(S, g, t)     == {x \in S : g[x] = t}
ByGroup(v, S, g, T) == [t \in T |-> Added(Part(v, Group(S, g, t)))]

LEMMA AddedByGroup ==
  ASSUME NEW S, IsFiniteSet(S), NEW T, IsFiniteSet(T), NEW v \in [S -> Nat], NEW g \in [S -> T]
  PROVE  Added(ByGroup(v, S, g, T)) = Added(v)
<1> DEFINE F == {U \in SUBSET S : Added(ByGroup(v, U, g, T)) = Added(Part(v, U))}
<1>n. ASSUME NEW U \in SUBSET S PROVE ByGroup(v, U, g, T) \in [T -> Nat]
  <2>1. ASSUME NEW t \in T PROVE Added(Part(v, Group(U, g, t))) \in Nat
    <3>1. IsFiniteSet(Group(U, g, t)) /\ Part(v, Group(U, g, t)) \in [Group(U, g, t) -> Nat]
      <4>1. Group(U, g, t) \in SUBSET S
        BY DEF Group
      <4> QED BY <4>1, FS_Subset DEF Part
    <3> QED BY <3>1, AddedNat
  <2> QED BY <2>1 DEF ByGroup
<1>1. {} \in F
  <2>1. \A t : Group({}, g, t) = {}
    BY DEF Group
  <2>2. Added(Part(v, {})) = 0
    BY AddedNothing DEF Part
  <2>3. ByGroup(v, {}, g, T) = [t \in T |-> 0]
    BY <2>1, <2>2 DEF ByGroup
  <2>4. Added([t \in T |-> 0]) = Cardinality(T) * 0
    BY AddedEqual
  <2>5. Cardinality(T) * 0 = 0
    BY FS_CardinalityType
  <2> QED BY <2>2, <2>3, <2>4, <2>5
<1>2. ASSUME NEW U \in F, NEW x \in S \ U PROVE U \cup {x} \in F
  <2>1. U \in SUBSET S /\ U \cup {x} \in SUBSET S /\ Added(ByGroup(v, U, g, T)) = Added(Part(v, U))
    OBVIOUS
  <2> DEFINE W == U \cup {x}
             t == g[x]
             old == ByGroup(v, U, g, T)
             new == ByGroup(v, W, g, T)
  <2>2. t \in T /\ v[x] \in Nat
    OBVIOUS
  <2>3. old \in [T -> Nat] /\ new \in [T -> Nat]
    BY <1>n, <2>1
  <2>4. ASSUME NEW u \in T \ {t} PROVE new[u] = old[u]
    <3>1. Group(W, g, u) = Group(U, g, u)
      BY <2>4 DEF Group
    <3> QED BY <3>1 DEF ByGroup
  <2>5. new[t] = old[t] + v[x]
    <3>1. Group(W, g, t) = Group(U, g, t) \cup {x}
      BY DEF Group
    <3>2. Group(U, g, t) \in SUBSET S /\ x \in S \ Group(U, g, t)
      BY <2>1 DEF Group
    <3>3. Added(Part(v, Group(U, g, t) \cup {x})) = Added(Part(v, Group(U, g, t))) + v[x]
      BY <3>2, AddedPart
    <3> QED BY <2>2, <3>1, <3>3 DEF ByGroup
  <2>6. Added(Part(v, W)) = Added(Part(v, U)) + v[x]
    BY <2>1, AddedPart
  <2> HIDE DEF old, new, t, W, F
  <2>7. Added(new) = Added(old) + v[x]
    BY <2>2, <2>3, <2>4, <2>5, AddedAtOne
  <2>8. Added(new) = Added(Part(v, W))
    BY <2>1, <2>6, <2>7 DEF old
  <2> QED BY <2>1, <2>8 DEF F, W, new
<1>3. F \in SUBSET SUBSET S
  OBVIOUS
<1> HIDE DEF F
<1>4. S \in F
  BY <1>1, <1>2, <1>3, FiniteByElement
<1>5. Part(v, S) = v
  BY DEF Part
<1> QED BY <1>4, <1>5 DEF F

\* And the sizes of the groups add up to the size of the set.
LEMMA CountedByGroup ==
  ASSUME NEW S, IsFiniteSet(S), NEW T, IsFiniteSet(T), NEW g \in [S -> T]
  PROVE  Added([t \in T |-> Cardinality(Group(S, g, t))]) = Cardinality(S)
<1> DEFINE v == [x \in S |-> 1]
<1>1. ASSUME NEW U \in SUBSET S PROVE Added(Part(v, U)) = Cardinality(U)
  <2>1. IsFiniteSet(U) /\ Part(v, U) = [x \in U |-> 1]
    BY FS_Subset DEF Part
  <2>2. Added([x \in U |-> 1]) = Cardinality(U) * 1
    BY <2>1, AddedEqual
  <2>3. Cardinality(U) \in Nat
    BY <2>1, FS_CardinalityType
  <2> QED BY <2>1, <2>2, <2>3
<1>2. \A t \in T : Group(S, g, t) \in SUBSET S
  BY DEF Group
<1>3. v \in [S -> Nat] /\ Part(v, S) = v
  BY DEF Part
<1> HIDE DEF v
<1>4. ByGroup(v, S, g, T) = [t \in T |-> Cardinality(Group(S, g, t))]
  BY <1>1, <1>2 DEF ByGroup
<1>5. Added(ByGroup(v, S, g, T)) = Added(v)
  BY <1>3, AddedByGroup
<1> QED BY <1>1, <1>3, <1>4, <1>5
=============================================================================
