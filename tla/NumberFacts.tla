---------------------------- MODULE NumberFacts ----------------------------
(***************************************************************************)
(* Facts about natural numbers that the proofs of several modules need and *)
(* the provers do not know: a least element replaces induction, and powers *)
(* of two are counted as sets of subsets.                                  *)
(***************************************************************************)
EXTENDS Integers, FiniteSetTheorems, TLAPS

-----------------------------------------------------------------------------
\* A set of natural numbers that is not empty has a least element.
LEMMA LeastElement ==
  ASSUME NEW T \in SUBSET Nat, T # {}
  PROVE  \E x \in T : \A y \in T : x <= y
  <1>1. PICK x \in T : \A y \in T : ~ (<<y, x>> \in OpToRel(<, Nat))
    BY WFMin, NatLessThanWellFounded
  <1>2. \A y \in T : ~ (y < x)
    BY <1>1 DEF OpToRel
  <1> QED
    BY <1>2

\* A set has twice as many subsets with another element as without.
LEMMA PowerOfTwo ==
  ASSUME NEW n \in Nat
  PROVE  /\ 2 ^ 0 = 1
         /\ 2 ^ n \in Nat \ {0}
         /\ 2 ^ (n + 1) = 2 * 2 ^ n
  <1> DEFINE S == 1 .. n
             With == {A \cup {n + 1} : A \in SUBSET S}
  <1>1. IsFiniteSet(S) /\ Cardinality(S) = n
    BY FS_Interval
  <1>2. /\ IsFiniteSet(SUBSET S)
        /\ Cardinality(SUBSET S) = 2 ^ n
    BY <1>1, FS_SUBSET
  <1>3. /\ IsFiniteSet(With)
        /\ Cardinality(With) = Cardinality(SUBSET S)
    <2> DEFINE f == [A \in SUBSET S |-> A \cup {n + 1}]
    <2>1. f \in Bijection(SUBSET S, With)
      <3>1. f \in [SUBSET S -> With]
        OBVIOUS
      <3>2. \A A, B \in SUBSET S : f[A] = f[B] => A = B
        OBVIOUS
      <3>3. \A B \in With : \E A \in SUBSET S : f[A] = B
        OBVIOUS
      <3> QED
        BY <3>1, <3>2, <3>3 DEF Bijection, Injection, Surjection, IsInjective
    <2> QED
      BY <2>1, <1>2, FS_Bijection DEF ExistsBijection
  <1>4. /\ (SUBSET (1 .. n + 1)) = (SUBSET S) \cup With
        /\ (SUBSET S) \cap With = {}
    <2>1. 1 .. n + 1 = S \cup {n + 1} /\ n + 1 \notin S
      OBVIOUS
    <2>2. ASSUME NEW A \in SUBSET (S \cup {n + 1}), n + 1 \in A PROVE A \in With
      <3>1. A \ {n + 1} \in SUBSET S /\ A = (A \ {n + 1}) \cup {n + 1}
        BY <2>2
      <3> QED
        BY <3>1
    <2> QED
      BY <2>1, <2>2
  <1>5. Cardinality(SUBSET (1 .. n + 1)) = 2 ^ (n + 1)
    <2>1. IsFiniteSet(1 .. n + 1) /\ Cardinality(1 .. n + 1) = n + 1
      BY FS_Interval
    <2> QED
      BY <2>1, FS_SUBSET
  <1>6. Cardinality(SUBSET S) \in Nat
    BY <1>2, FS_CardinalityType
  <1>7. Cardinality(SUBSET S) # 0
    BY <1>2, FS_EmptySet
  <1>8. 2 ^ (n + 1) = Cardinality(SUBSET S) + Cardinality(With) - Cardinality({})
    <2> DEFINE Without == SUBSET S
    <2>1. IsFiniteSet(Without) /\ IsFiniteSet(With) /\ Without \cap With = {}
      BY <1>2, <1>3, <1>4
    <2>2. Cardinality(Without \cup With) = 2 ^ (n + 1)
      BY <1>4, <1>5
    <2> HIDE DEF Without, With
    <2>3. Cardinality(Without) + Cardinality(With) - Cardinality({}) = 2 ^ (n + 1)
      BY <2>1, <2>2, FS_Union
    <2> QED
      BY <2>3 DEF Without
  <1>9. 2 ^ 0 = 1
    OBVIOUS
  <1> QED
    BY <1>2, <1>3, <1>6, <1>7, <1>8, <1>9, FS_EmptySet

\* Integers given to the first n numbers have an upper bound.
LEMMA Bounded ==
  ASSUME NEW n \in Nat, NEW f \in [1 .. n -> Int]
  PROVE  \E b \in Nat : \A i \in 1 .. n : f[i] <= b
  <1> DEFINE BoundedTo(k) == \E b \in Nat : \A i \in 1 .. k : f[i] <= b
             Bad == {k \in 0 .. n : ~ BoundedTo(k)}
  <1>1. Bad = {}
    <2> SUFFICES ASSUME Bad # {} PROVE FALSE
      OBVIOUS
    <2>1. Bad \in SUBSET Nat
      OBVIOUS
    <2>2. PICK k \in Bad : \A j \in Bad : k <= j
      <3>1. \E x \in Bad : \A y \in Bad : x <= y
        <4> HIDE DEF Bad
        <4> QED
          BY <2>1, LeastElement
      <3> QED
        BY <3>1
    <2>3. k \in 0 .. n /\ k # 0
      BY <2>2
    <2>4. k - 1 \in 0 .. n /\ k - 1 \notin Bad
      <3>1. k - 1 \in 0 .. n /\ ~ (k <= k - 1)
        BY <2>3
      <3> QED
        <4> HIDE DEF Bad
        <4> QED
          BY <2>2, <3>1
    <2>5. PICK b \in Nat : \A i \in 1 .. k - 1 : f[i] <= b
      BY <2>4
    <2>6. k \in 1 .. n /\ f[k] \in Int
      BY <2>3
    <2>7. PICK c \in Nat : b <= c /\ f[k] <= c
      <3>1. CASE f[k] <= b
        <4>1. b \in Nat /\ b <= b /\ f[k] <= b
          BY <3>1, <2>5
        <4> QED
          BY <4>1
      <3>2. CASE ~ (f[k] <= b)
        <4>1. ASSUME NEW x \in Int, ~ (x <= b) PROVE x \in Nat /\ b <= x /\ x <= x
          BY <4>1, <2>5
        <4>2. f[k] \in Nat /\ b <= f[k] /\ f[k] <= f[k]
          BY <4>1, <3>2, <2>6
        <4> QED
          BY <4>2
      <3> QED
        BY <3>1, <3>2
    <2>8. \A i \in 1 .. k : f[i] <= c
      <3> SUFFICES ASSUME NEW i \in 1 .. k PROVE f[i] <= c
        OBVIOUS
      <3>1. CASE i = k
        BY <3>1, <2>7
      <3>2. CASE i # k
        <4>1. i \in 1 .. k - 1 /\ i \in 1 .. n /\ f[i] \in Int
          BY <3>2, <2>6
        <4> QED
          BY <4>1, <2>5, <2>7
      <3> QED
        BY <3>1, <3>2
    <2> QED
      BY <2>2, <2>8
  <1>2. n \in 0 .. n /\ n \notin Bad
    <2>1. n \in 0 .. n
      OBVIOUS
    <2> HIDE DEF Bad
    <2> QED
      BY <1>1, <2>1
  <1> QED
    BY <1>2

=============================================================================
