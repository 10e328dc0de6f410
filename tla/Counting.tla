------------------------------- MODULE Counting -------------------------------
(***************************************************************************)
(* Facts about natural numbers that the proofs about the components need:  *)
(* least elements, induction over a set, and the n-th of a set of numbers, *)
(* found by counting those that are not above it.                          *)
(***************************************************************************)
EXTENDS Integers, FiniteSets, Functions, FiniteSetTheorems, WellFoundedInduction, TLAPS

(* A set of natural numbers that has any has a least one.                  *)
LEMMA Least ==
  ASSUME NEW T \in SUBSET Nat, T # {}
  PROVE  \E n \in T : \A m \in T : n <= m
<1> DEFINE R == OpToRel(<, Nat)
<1>1. IsWellFoundedOn(R, Nat)
  BY NatLessThanWellFounded
<1> HIDE DEF R
<1>2. PICK n \in T : \A m \in T : ~(<<m, n>> \in R)
  BY <1>1, WFMin
<1>3. \A m \in T : m < n => <<m, n>> \in R
  BY DEF R, OpToRel
<1>4. \A m \in T : ~(m < n)
  BY <1>2, <1>3
<1>5. n \in Nat /\ \A m \in T : m \in Nat
  OBVIOUS
<1>6. \A m \in T : n <= m
  BY <1>4, <1>5
<1> QED BY <1>6

(* A set that has 0 and with a number the next one has all of them.        *)
LEMMA SetInduction ==
  ASSUME NEW S \in SUBSET Nat, 0 \in S, \A n \in S : n + 1 \in S
  PROVE  S = Nat
<1>1. SUFFICES ASSUME Nat \ S # {} PROVE FALSE
  OBVIOUS
<1>2. PICK n \in Nat \ S : \A m \in Nat \ S : n <= m
  BY <1>1, Least
<1>3. n - 1 \in S
  BY <1>2
<1>4. (n - 1) + 1 = n
  BY <1>2
<1> QED BY <1>2, <1>3, <1>4

Below(S, x) == {y \in S : y <= x}

(* Every set of numbers with n of them at least has an n-th.               *)
LEMMA NthExists ==
  ASSUME NEW S \in SUBSET Nat, NEW n \in Nat \ {0},
         IsFiniteSet(S) => n <= Cardinality(S)
  PROVE  \E x \in S : /\ IsFiniteSet(Below(S, x))
                      /\ Cardinality(Below(S, x)) = n
<1> DEFINE Has(m) == \E x \in S : /\ IsFiniteSet(Below(S, x))
                                  /\ Cardinality(Below(S, x)) = m
           Enough(m) == IsFiniteSet(S) => m <= Cardinality(S)
           G == {m \in Nat : m # 0 /\ Enough(m) => Has(m)}
<1>1. 0 \in G
  OBVIOUS
<1>2. ASSUME NEW m \in G PROVE m + 1 \in G
  <2>1. SUFFICES ASSUME Enough(m + 1) PROVE Has(m + 1)
    OBVIOUS
  <2>2. m \in Nat
    OBVIOUS
  <2>3. CASE m = 0
    <3>1. S # {}
      BY <2>1, <2>3, FS_EmptySet
    <3>2. PICK x \in S : \A y \in S : x <= y
      BY <3>1, Least
    <3>3. x \in Nat /\ \A y \in S : y \in Nat
      OBVIOUS
    <3>4. \A y \in S : y <= x => y = x
      BY <3>2, <3>3
    <3>5. Below(S, x) = {x}
      <4>1. x <= x
        BY <3>3
      <4>2. \A y : y \in Below(S, x) <=> y = x
        BY <3>4, <4>1 DEF Below
      <4> QED BY <4>2
    <3>6. IsFiniteSet({x}) /\ Cardinality({x}) = 1
      BY FS_Singleton
    <3> QED BY <2>3, <3>5, <3>6
  <2>4. CASE m # 0
    <3>1. Enough(m)
      <4>1. SUFFICES ASSUME IsFiniteSet(S) PROVE m <= Cardinality(S)
        OBVIOUS
      <4>2. Cardinality(S) \in Nat
        BY <4>1, FS_CardinalityType
      <4> QED BY <2>1, <2>2, <4>1, <4>2
    <3>2. PICK x \in S : IsFiniteSet(Below(S, x)) /\ Cardinality(Below(S, x)) = m
      BY <2>4, <3>1
    <3> DEFINE T == {y \in S : y > x}
    <3>3. T # {}
      <4>1. SUFFICES ASSUME T = {} PROVE FALSE
        OBVIOUS
      <4>2. x \in Nat /\ \A y \in S : y \in Nat
        OBVIOUS
      <4>3. \A y \in S : y <= x
        BY <4>1, <4>2
      <4>4. Below(S, x) = S
        BY <4>3 DEF Below
      <4> QED BY <2>1, <2>2, <3>2, <4>4
    <3>4. PICK z \in T : \A y \in T : z <= y
      BY <3>3, Least
    <3>5. z \in S /\ z > x /\ z \in Nat /\ x \in Nat /\ \A y \in S : y \in Nat
      OBVIOUS
    <3>6. \A y \in S : y <= z <=> y <= x \/ y = z
      BY <3>4, <3>5
    <3>7. Below(S, z) = Below(S, x) \cup {z}
      BY <3>5, <3>6 DEF Below
    <3>8. z \notin Below(S, x)
      BY <3>5 DEF Below
    <3>9. IsFiniteSet(Below(S, z)) /\ Cardinality(Below(S, z)) = m + 1
      BY <3>2, <3>7, <3>8, FS_AddElement
    <3> QED BY <3>5, <3>9
  <2> QED BY <2>3, <2>4
<1> HIDE DEF G
<1>3. G = Nat
  <2>1. G \in SUBSET Nat
    BY DEF G
  <2> QED BY <1>1, <1>2, <2>1, SetInduction
<1> QED BY <1>3 DEF G

(* A larger number of the set has more of it below.                        *)
LEMMA BelowGrows ==
  ASSUME NEW S \in SUBSET Nat, NEW x \in S, NEW z \in S, x < z
  PROVE  /\ IsFiniteSet(Below(S, x)) /\ IsFiniteSet(Below(S, z))
         /\ Cardinality(Below(S, x)) \in Nat /\ Cardinality(Below(S, z)) \in Nat
         /\ Cardinality(Below(S, x)) < Cardinality(Below(S, z))
<1>1. x \in Nat /\ z \in Nat /\ \A y \in S : y \in Nat
  OBVIOUS
<1>2. IsFiniteSet(Below(S, z))
  <2>1. Below(S, z) \in SUBSET Nat /\ \A y \in Below(S, z) : y <= z
    BY DEF Below
  <2> QED BY <1>1, <2>1, FS_BoundedSetOfNaturals
<1>3. Below(S, x) \in SUBSET Below(S, z)
  <2>1. \A y \in S : y <= x => y <= z
    BY <1>1
  <2>2. \A y \in Below(S, x) : y \in Below(S, z)
    BY <2>1 DEF Below
  <2> QED BY <2>2
<1>4. z \in Below(S, z) /\ z \notin Below(S, x)
  BY <1>1 DEF Below
<1>5. /\ IsFiniteSet(Below(S, x))
      /\ Cardinality(Below(S, x)) <= Cardinality(Below(S, z))
      /\ Cardinality(Below(S, x)) # Cardinality(Below(S, z))
  BY <1>2, <1>3, <1>4, FS_Subset
<1>6. Cardinality(Below(S, x)) \in Nat /\ Cardinality(Below(S, z)) \in Nat
  BY <1>2, <1>5, FS_CardinalityType
<1> QED BY <1>2, <1>5, <1>6

(* Two numbers of the set with as many below are the same.                 *)
LEMMA BelowTells ==
  ASSUME NEW S \in SUBSET Nat, NEW x \in S, NEW z \in S,
         Cardinality(Below(S, x)) = Cardinality(Below(S, z))
  PROVE  x = z
<1>1. x \in Nat /\ z \in Nat
  OBVIOUS
<1>2. ~(x < z)
  BY BelowGrows
<1>3. ~(z < x)
  BY BelowGrows
<1> QED BY <1>1, <1>2, <1>3

(* How many are not above a number of the set: one at least, and at most   *)
(* as many as it has.                                                      *)
LEMMA BelowBounds ==
  ASSUME NEW S \in SUBSET Nat, IsFiniteSet(S), NEW x \in S
  PROVE  /\ Cardinality(S) \in Nat
         /\ Cardinality(Below(S, x)) \in 1..Cardinality(S)
<1>1. Below(S, x) \in SUBSET S /\ x \in Below(S, x)
  BY DEF Below
<1>2. IsFiniteSet(Below(S, x)) /\ Cardinality(Below(S, x)) <= Cardinality(S)
  BY <1>1, FS_Subset
<1>3. Cardinality(S) \in Nat /\ Cardinality(Below(S, x)) \in Nat
  BY <1>2, FS_CardinalityType
<1>4. Cardinality(Below(S, x)) # 0
  BY <1>1, <1>2, FS_EmptySet
<1> QED BY <1>2, <1>3, <1>4

(* As many numbers of two sets, if one can be had from the other one by    *)
(* one.                                                                    *)
LEMMA AsMany ==
  ASSUME NEW S, NEW R, IsFiniteSet(S), NEW f \in [S -> R],
         \A x, y \in S : f[x] = f[y] => x = y,
         \A r \in R : \E x \in S : f[x] = r
  PROVE  IsFiniteSet(R) /\ Cardinality(R) = Cardinality(S)
<1>1. f \in Bijection(S, R)
  BY DEF Bijection, Injection, Surjection, IsInjective
<1>2. ExistsBijection(S, R)
  BY <1>1 DEF ExistsBijection
<1> QED BY <1>2, FS_Bijection

LEMMA Disjoint ==
  ASSUME NEW S, NEW R, IsFiniteSet(S), IsFiniteSet(R), S \cap R = {}
  PROVE  /\ IsFiniteSet(S \cup R)
         /\ Cardinality(S \cup R) = Cardinality(S) + Cardinality(R)
<1>1. Cardinality({}) = 0
  BY FS_EmptySet
<1>2. Cardinality(S) \in Nat /\ Cardinality(R) \in Nat
  BY FS_CardinalityType
<1>3. /\ IsFiniteSet(S \cup R)
      /\ Cardinality(S \cup R) = Cardinality(S) + Cardinality(R) - Cardinality(S \cap R)
  BY FS_Union
<1>4. Cardinality(S \cap R) = 0
  BY <1>1
<1>5. Cardinality(S \cup R) = Cardinality(S) + Cardinality(R) - 0
  BY <1>3, <1>4
<1> QED BY <1>2, <1>3, <1>5
=============================================================================
