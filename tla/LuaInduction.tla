---------------------------- MODULE LuaInduction ----------------------------
(***************************************************************************)
(* Induction and recursion over an interval of numbers, and powers of two. *)
(***************************************************************************)
EXTENDS Integers, FiniteSets, FunctionTheorems, FiniteSetTheorems, WellFoundedInduction, NaturalsInduction, TLAPS

\* Every non-empty set of naturals has a least element.
LEMMA Least ==
  ASSUME NEW T \in SUBSET Nat, T # {}
  PROVE  \E n \in T : \A m \in T : n <= m
<1>1. PICK n \in T : \A m \in T : ~(<<m, n>> \in OpToRel(<, Nat))
  BY NatLessThanWellFounded, WFMin
<1>2. \A m \in T : ~(m < n)
  BY <1>1 DEF OpToRel
<1>3. n \in Nat
  OBVIOUS
<1>4. ASSUME NEW m \in T
      PROVE  n <= m
  <2>1. m \in Nat /\ ~(m < n)
    BY <1>2
  <2> QED BY <1>3, <2>1
<1> QED BY <1>4

\* Of what is ranked by naturals there is a least.
LEMMA LeastRanked ==
  ASSUME NEW A, A # {}, NEW r, \A x \in A : r[x] \in Nat
  PROVE  \E x \in A : \A y \in A : r[x] <= r[y]
<1> DEFINE T == {r[x] : x \in A}
<1>1. T \in SUBSET Nat /\ T # {}
  OBVIOUS
<1>2. PICK n \in T : \A m \in T : n <= m
  <2> HIDE DEF T
  <2> QED BY <1>1, Least
<1>3. PICK x \in A : n = r[x]
  OBVIOUS
<1>4. \A y \in A : r[y] \in T
  OBVIOUS
<1> QED BY <1>2, <1>3, <1>4

\* What each step of a sequence of steps leaves true is true of them all.
LEMMA Inductively ==
  ASSUME NEW n \in Nat, NEW f, NEW T, f[0] \in T[0],
         \A k \in 1 .. n : f[k - 1] \in T[k - 1] => f[k] \in T[k]
  PROVE  \A k \in 0 .. n : f[k] \in T[k]
<1> DEFINE Bad == {k \in 0 .. n : f[k] \notin T[k]}
<1>1. SUFFICES ASSUME Bad # {}
               PROVE  FALSE
  OBVIOUS
<1>2. PICK k \in Bad : \A m \in Bad : k <= m
  <2>1. Bad \in SUBSET Nat
    OBVIOUS
  <2> HIDE DEF Bad
  <2> QED BY <1>1, <2>1, Least
<1>3. k \in 0 .. n /\ f[k] \notin T[k]
  OBVIOUS
<1>4. k # 0
  BY <1>3
<1>5. k \in 1 .. n /\ k - 1 \in 0 .. n
  BY <1>3, <1>4
<1>6. k - 1 \notin Bad
  <2> HIDE DEF Bad
  <2> QED BY <1>2, <1>5
<1> QED BY <1>3, <1>5, <1>6

\* There is a function that begins with a base and makes a step for each number.
Iterable(n, base, step) ==
  \E f : f = [k \in 0 .. n |-> IF k = 0 THEN base ELSE step[k][f[k - 1]]]
LEMMA Iterated ==
  ASSUME NEW n \in Nat, NEW base, NEW step
  PROVE  Iterable(n, base, step)
<1> DEFINE Goes(m) == \E f : f = [k \in 0 .. m |-> IF k = 0 THEN base ELSE step[k][f[k - 1]]]
           Yes == [m \in Nat |-> IF Goes(m) THEN 1 ELSE 0]
           One == [m \in Nat |-> {1}]
<1>1. Goes(0)
  <2> DEFINE f == [k \in 0 .. 0 |-> base]
  <2>1. f = [k \in 0 .. 0 |-> IF k = 0 THEN base ELSE step[k][f[k - 1]]]
    OBVIOUS
  <2> HIDE DEF f
  <2> QED BY <2>1
<1>2. ASSUME NEW m \in 1 .. n, Goes(m - 1)
      PROVE  Goes(m)
  <2>1. PICK f : f = [k \in 0 .. m - 1 |-> IF k = 0 THEN base ELSE step[k][f[k - 1]]]
    BY <1>2
  <2> DEFINE g == [k \in 0 .. m |-> IF k = m THEN step[m][f[m - 1]] ELSE f[k]]
             h1 == [k \in 0 .. m |-> IF k = 0 THEN base ELSE step[k][g[k - 1]]]
  <2>2. ASSUME NEW k \in 0 .. m
        PROVE  g[k] = h1[k]
    <3>1. CASE k = m
      <4>1. k # 0 /\ k - 1 \in 0 .. m /\ k - 1 # m
        BY <3>1
      <4> QED BY <3>1, <4>1
    <3>2. CASE k # m /\ k # 0
      <4>1. k \in 0 .. m - 1 /\ k - 1 \in 0 .. m /\ k - 1 # m
        BY <3>2
      <4>2. f[k] = step[k][f[k - 1]]
        BY <2>1, <3>2, <4>1
      <4> QED BY <3>2, <4>1, <4>2
    <3>3. CASE k # m /\ k = 0
      <4>1. f[0] = base
        BY <2>1, <3>3
      <4> QED BY <3>3, <4>1
    <3> QED BY <3>1, <3>2, <3>3
  <2>3. g = h1
    BY <2>2
  <2>4. g = [k \in 0 .. m |-> IF k = 0 THEN base ELSE step[k][g[k - 1]]]
    BY <2>3
  <2> HIDE DEF g
  <2> QED BY <2>4
<1> HIDE DEF Goes
<1>3. \A k \in 0 .. n : Yes[k] \in One[k]
  <2>1. Yes[0] \in One[0]
    BY <1>1
  <2>2. ASSUME NEW k \in 1 .. n, Yes[k - 1] \in One[k - 1]
        PROVE  Yes[k] \in One[k]
    <3>1. k \in Nat /\ k - 1 \in Nat
      OBVIOUS
    <3>2. Goes(k - 1)
      BY <2>2, <3>1
    <3> QED BY <1>2, <3>1, <3>2
  <2> HIDE DEF Yes, One
  <2> QED BY <2>1, <2>2, Inductively
<1>4. Goes(n)
  BY <1>3
<1> QED BY <1>4 DEF Goes, Iterable

\* Steps that keep to T are taken one after the other.
Stepwise(n, base, step, T) ==
  \E f : /\ f = [k \in 0 .. n |-> IF k = 0 THEN base ELSE step[k][f[k - 1]]]
         /\ \A k \in 0 .. n : f[k] \in T[k]
LEMMA Stepped ==
  ASSUME NEW n \in Nat, NEW base, NEW step, NEW T, base \in T[0],
         \A k \in 1 .. n : \A s \in T[k - 1] : step[k][s] \in T[k]
  PROVE  Stepwise(n, base, step, T)
<1>1. PICK f : f = [k \in 0 .. n |-> IF k = 0 THEN base ELSE step[k][f[k - 1]]]
  <2>1. Iterable(n, base, step)
    BY Iterated
  <2> QED BY <2>1 DEF Iterable
<1>2. f[0] \in T[0]
  BY <1>1
<1>3. ASSUME NEW k \in 1 .. n, f[k - 1] \in T[k - 1]
      PROVE  f[k] \in T[k]
  <2>1. f[k] = step[k][f[k - 1]]
    BY <1>1
  <2> QED BY <1>3, <2>1
<1>4. \A k \in 0 .. n : f[k] \in T[k]
  BY <1>2, <1>3, Inductively
<1> QED BY <1>1, <1>4 DEF Stepwise

\* A set with one element more has twice as many subsets.
LEMMA PowerOfTwo ==
  ASSUME NEW n \in Nat
  PROVE  2^n \in Nat /\ 2^(n + 1) = 2^n + 2^n
<1> DEFINE A == SUBSET (1 .. n)
           f == [X \in A |-> X \cup {n + 1}]
           B == {f[X] : X \in A}
<1>1. /\ IsFiniteSet(1 .. n) /\ Cardinality(1 .. n) = n
      /\ IsFiniteSet(1 .. n + 1) /\ Cardinality(1 .. n + 1) = n + 1
  BY FS_Interval
<1>2. /\ IsFiniteSet(A) /\ Cardinality(A) = 2^n
      /\ Cardinality(SUBSET (1 .. n + 1)) = 2^(n + 1)
  BY <1>1, FS_SUBSET
<1>3. \A X, Y \in A : f[X] = f[Y] => X = Y
  <2> SUFFICES ASSUME NEW X \in A, NEW Y \in A, f[X] = f[Y]
               PROVE  X = Y
    OBVIOUS
  <2>1. X \cup {n + 1} = Y \cup {n + 1}
    OBVIOUS
  <2>2. n + 1 \notin 1 .. n
    OBVIOUS
  <2>3. \A x \in X : x \in Y
    BY <2>1, <2>2
  <2>4. \A x \in Y : x \in X
    BY <2>1, <2>2
  <2> QED BY <2>3, <2>4
<1>4. f \in Bijection(A, B)
  <2>1. f \in [A -> B]
    OBVIOUS
  <2> QED BY <2>1, <1>3 DEF Bijection, Injection, Surjection, IsInjective
<1>5. IsFiniteSet(B) /\ Cardinality(B) = Cardinality(A)
  <2>1. ExistsBijection(A, B)
    BY <1>4, Zenon DEF ExistsBijection
  <2> QED BY <2>1, <1>2, FS_Bijection, Zenon
<1>6. SUBSET (1 .. n + 1) = A \cup B /\ A \cap B = {}
  <2>0. \A x \in 1 .. n + 1 : x # n + 1 => x \in 1 .. n
    OBVIOUS
  <2>1. ASSUME NEW Y \in SUBSET (1 .. n + 1)
        PROVE  Y \in A \cup B
    <3>1. CASE n + 1 \notin Y
      BY <2>0, <3>1
    <3>2. CASE n + 1 \in Y
      <4>1. Y \ {n + 1} \in A
        BY <2>0
      <4>2. f[Y \ {n + 1}] = Y
        BY <4>1, <3>2
      <4> QED BY <4>1, <4>2
    <3> QED BY <3>1, <3>2
  <2>2. ASSUME NEW Y \in A \cup B
        PROVE  Y \in SUBSET (1 .. n + 1)
    <3>1. 1 .. n \subseteq 1 .. n + 1 /\ n + 1 \in 1 .. n + 1
      OBVIOUS
    <3>2. CASE Y \in A
      BY <3>1, <3>2
    <3>3. CASE Y \in B
      <4>1. PICK X \in A : Y = X \cup {n + 1}
        BY <3>3
      <4> QED BY <3>1, <4>1
    <3> QED BY <3>2, <3>3
  <2>3. A \cap B = {}
    <3>1. \A Y \in B : n + 1 \in Y
      OBVIOUS
    <3>2. \A Y \in A : n + 1 \notin Y
      OBVIOUS
    <3> QED BY <3>1, <3>2
  <2> QED BY <2>1, <2>2, <2>3, Zenon
<1>7. Cardinality(A \cap B) = 0
  BY <1>6, FS_EmptySet
<1>8. Cardinality(A \cup B) = Cardinality(A) + Cardinality(B) - Cardinality(A \cap B)
  BY <1>2, <1>5, FS_Union, Zenon
<1>9. Cardinality(A) \in Nat
  BY <1>2, FS_CardinalityType
<1>10. 2^(n + 1) = Cardinality(A \cup B)
  BY <1>2, <1>6
<1> QED BY <1>2, <1>5, <1>7, <1>8, <1>9, <1>10

=============================================================================
