------------------------------ MODULE NatLemmas ------------------------------
(***************************************************************************)
(* Facts about natural numbers that the proofs of the components share:    *)
(* least and greatest elements, induction over a set of numbers, division. *)
(***************************************************************************)
EXTENDS FiniteSetTheorems, FiniteSetsExt, TLAPS

(***************************************************************************)
(* A nonempty set of numbers has a least one.  The order of the numbers is *)
(* that of the intervals below them, and finite sets are well-founded.     *)
(***************************************************************************)
Below(S) == {0 .. n - 1 : n \in S}

LEMMA Least ==
  ASSUME NEW S \in SUBSET Nat, S # {}
  PROVE  \E x \in S : \A y \in S : x <= y
<1>1. \A n \in S : 0 .. n - 1 \in FiniteSubsetsOf(Nat)
  <2> SUFFICES ASSUME NEW n \in S PROVE 0 .. n - 1 \in FiniteSubsetsOf(Nat)
    OBVIOUS
  <2>1. IsFiniteSet(0 .. n - 1)
    BY FS_Interval
  <2> QED
    BY <2>1 DEF FiniteSubsetsOf
<1>2. Below(S) \subseteq FiniteSubsetsOf(Nat) /\ Below(S) # {}
  BY <1>1 DEF Below
<1>3. PICK a \in Below(S) : \A b \in Below(S) : ~ (<<b, a>> \in StrictSubsetOrdering(Nat))
  <2>1. IsWellFoundedOn(StrictSubsetOrdering(Nat), FiniteSubsetsOf(Nat))
    BY FS_StrictSubsetOrderingWellFounded
  <2> QED
    BY <1>2, <2>1, WFMin
<1>4. PICK x \in S : a = 0 .. x - 1
  BY DEF Below
<1>5. ASSUME NEW y \in S, y < x
      PROVE  FALSE
  <2>1. 0 .. y - 1 \in Below(S) /\ 0 .. y - 1 \subseteq 0 .. x - 1
    BY <1>5 DEF Below
  <2>2. y \in 0 .. x - 1 /\ y \notin 0 .. y - 1
    BY <1>5
  <2>3. <<0 .. y - 1, 0 .. x - 1>> \in StrictSubsetOrdering(Nat)
    BY <2>1, <2>2 DEF StrictSubsetOrdering
  <2> QED
    BY <1>3, <1>4, <2>1, <2>3
<1> QED
  BY <1>5

LEMMA MinProperty ==
  ASSUME NEW S \in SUBSET Nat, S # {}
  PROVE  Min(S) \in S /\ \A y \in S : Min(S) <= y
BY Least DEF Min

LEMMA MaxProperty ==
  ASSUME NEW b \in Nat, NEW S \in SUBSET (0 .. b), S # {}
  PROVE  Max(S) \in S /\ \A y \in S : Max(S) >= y
<1> DEFINE T == {b - y : y \in S}
<1>1. T \in SUBSET Nat /\ T # {}
  OBVIOUS
<1>2. PICK m \in T : \A z \in T : m <= z
  BY <1>1, Least
<1>3. PICK x \in S : m = b - x
  OBVIOUS
<1>4. \A y \in S : x >= y
  BY <1>2, <1>3
<1> QED
  BY <1>4 DEF Max

LEMMA MinOfTwo ==
  ASSUME NEW a \in Nat, NEW b \in Nat
  PROVE  Min({a, b}) \in {a, b} /\ Min({a, b}) <= a /\ Min({a, b}) <= b
<1> DEFINE S == {a, b}
<1>1. S \subseteq Nat /\ S # {} /\ a \in S /\ b \in S
  OBVIOUS
<1> HIDE DEF S
<1>2. Min(S) \in S /\ \A y \in S : Min(S) <= y
  BY <1>1, MinProperty
<1> QED
  BY <1>1, <1>2 DEF S

LEMMA MaxOfTwo ==
  ASSUME NEW a \in Nat, NEW b \in Nat
  PROVE  Max({a, b}) \in Nat /\ Max({a, b}) \in {a, b} /\ Max({a, b}) >= a /\ Max({a, b}) >= b
<1> DEFINE S == {a, b}
<1>1. a + b \in Nat /\ S # {} /\ a \in S /\ b \in S
  OBVIOUS
<1>2. S \subseteq 0 .. a + b
  OBVIOUS
<1>3. S \subseteq Nat
  OBVIOUS
<1> HIDE DEF S
<1>4. Max(S) \in S /\ \A y \in S : Max(S) >= y
  BY <1>1, <1>2, MaxProperty
<1>5. Max(S) \in Nat /\ Max(S) >= a /\ Max(S) >= b
  BY <1>1, <1>3, <1>4
<1> QED
  BY <1>4, <1>5 DEF S

(* Induction, for the numbers that have a property as a set. *)
LEMMA SetInduction ==
  ASSUME NEW S, 0 \in S, \A n \in Nat : n \in S => n + 1 \in S
  PROVE  \A n \in Nat : n \in S
<1> SUFFICES ASSUME NEW k \in Nat \ S PROVE FALSE
  OBVIOUS
<1>1. PICK m \in Nat \ S : \A y \in Nat \ S : m <= y
  BY Least
<1>2. m # 0 /\ m - 1 \in Nat
  OBVIOUS
<1>3. m - 1 \in S
  BY <1>1, <1>2
<1> QED
  BY <1>2, <1>3

-----------------------------------------------------------------------------
(***************************************************************************)
(* Division.                                                               *)
(***************************************************************************)
LEMMA Division ==
  ASSUME NEW a \in Nat \ {0}, NEW d \in Nat
  PROVE  d \div a \in Nat /\ d % a \in 0 .. a - 1 /\ d = (d \div a) * a + (d % a)
OBVIOUS

LEMMA Remainder ==
  ASSUME NEW a \in Nat \ {0}, NEW q \in Nat, NEW r \in 0 .. a - 1
  PROVE  (q * a + r) % a = r
OBVIOUS

LEMMA MultipleMod ==
  ASSUME NEW a \in Nat \ {0}, NEW q \in Nat
  PROVE  (q * a) % a = 0
OBVIOUS

LEMMA NextMod ==
  ASSUME NEW a \in Nat \ {0}, NEW d \in Nat
  PROVE  (d + 1) % a = IF d % a = a - 1 THEN 0 ELSE (d % a) + 1
<1> DEFINE q == d \div a
           r == d % a
<1>1. d = q * a + r /\ r \in 0 .. a - 1 /\ q \in Nat
  BY Division
<1> HIDE DEF q, r
<1>2. CASE r = a - 1
  <2>1. d + 1 = (q + 1) * a + 0
    BY <1>1, <1>2
  <2>2. (d + 1) % a = 0
    BY <1>1, <2>1, Remainder
  <2> QED
    BY <1>2, <2>2 DEF r
<1>3. CASE r # a - 1
  <2>1. d + 1 = q * a + (r + 1) /\ r + 1 \in 0 .. a - 1
    BY <1>1, <1>3
  <2>2. (d + 1) % a = r + 1
    BY <1>1, <2>1, Remainder
  <2> QED
    BY <1>3, <2>2 DEF r
<1> QED
  BY <1>2, <1>3

-----------------------------------------------------------------------------
(***************************************************************************)
(* The set of the first n entries of a list.                               *)
(***************************************************************************)
LEMMA Enumerated ==
  ASSUME NEW n \in Nat, NEW f
  PROVE  /\ IsFiniteSet({f[k] : k \in 1 .. n})
         /\ Cardinality({f[k] : k \in 1 .. n}) \in 0 .. n
<1> DEFINE T == {f[k] : k \in 1 .. n}
           g == [k \in 1 .. n |-> f[k]]
<1>1. IsFiniteSet(1 .. n) /\ Cardinality(1 .. n) = n
  <2>1. IsFiniteSet(1 .. n)
    BY FS_Interval
  <2>2. Cardinality(1 .. n) = n
    BY FS_Interval
  <2> QED
    BY <2>1, <2>2
<1>2. g \in Surjection(1 .. n, T)
  BY DEF Surjection
<1> HIDE DEF T, g
<1>4. IsFiniteSet(T) /\ Cardinality(T) <= n
  BY <1>1, <1>2, FS_Surjection
<1>5. Cardinality(T) \in Nat
  BY <1>4, FS_CardinalityType
<1>6. Cardinality(T) \in 0 .. n
  BY <1>4, <1>5
<1> QED
  BY <1>4, <1>6 DEF T

LEMMA EnumeratedOnce ==
  ASSUME NEW n \in Nat, NEW f, NEW S, S = {f[k] : k \in 1 .. n},
         \A j, k \in 1 .. n : f[j] = f[k] => j = k
  PROVE  Cardinality(S) = n
<1> DEFINE g == [k \in 1 .. n |-> f[k]]
<1>1. IsFiniteSet(1 .. n) /\ Cardinality(1 .. n) = n
  <2>1. IsFiniteSet(1 .. n)
    BY FS_Interval
  <2>2. Cardinality(1 .. n) = n
    BY FS_Interval
  <2> QED
    BY <2>1, <2>2
<1>2. g \in Surjection(1 .. n, S)
  BY DEF Surjection
<1>3. g \in Injection(1 .. n, S)
  <2>1. g \in [1 .. n -> S] /\ DOMAIN g = 1 .. n /\ \A k \in 1 .. n : g[k] = f[k]
    OBVIOUS
  <2> QED
    BY <2>1 DEF Injection, IsInjective
<1> HIDE DEF g
<1> QED
  BY <1>1, <1>2, <1>3, FS_Surjection
=============================================================================
