---------------------------- MODULE TotalsProofs ----------------------------
(***************************************************************************)
(* What a sum is for the empty set, for one member more or less, for a     *)
(* smaller set, and for functions that agree; and the smaller and the      *)
(* larger of two numbers.                                                  *)
(***************************************************************************)
EXTENDS Totals, Integers, FiniteSetsExt, FiniteSetTheorems, TLAPS

\* The sum is a natural number: the units are finitely many.
LEMMA TotalType ==
  ASSUME NEW S, IsFiniteSet(S), NEW f, \A x \in S : f[x] \in Nat
  PROVE  IsFiniteSet(Units(S, f)) /\ Total(S, f) \in Nat
<1> DEFINE F == [x \in S |-> {x} \X (1 .. f[x])]
           C == {{x} \X (1 .. f[x]) : x \in S}
<1>1. F \in Surjection(S, C)
  BY DEF Surjection
<1>2. IsFiniteSet(C)
  BY <1>1, FS_Surjection
<1>3. ASSUME NEW T \in C  PROVE IsFiniteSet(T)
  <2>1. PICK x \in S : T = {x} \X (1 .. f[x])
    OBVIOUS
  <2>2. IsFiniteSet({x})
    BY FS_Singleton
  <2>3. f[x] \in Int
    OBVIOUS
  <2>4. IsFiniteSet(1 .. f[x])
    BY <2>3, FS_Interval
  <2> QED
    BY <2>1, <2>2, <2>4, FS_Product
<1>4. IsFiniteSet(Units(S, f))
  BY <1>2, <1>3, FS_UNION DEF Units
<1> QED
  BY <1>4, FS_CardinalityType DEF Total

\* Nothing adds up to nothing.
LEMMA TotalOfNone == ASSUME NEW f PROVE Total({}, f) = 0
<1>1. Units({}, f) = {}
  BY DEF Units
<1> QED
  BY <1>1, FS_EmptySet DEF Total

\* Only the values on the set count.
LEMMA TotalAgrees ==
  ASSUME NEW S, NEW f, NEW g, \A x \in S : f[x] = g[x]
  PROVE  Total(S, f) = Total(S, g)
<1>1. Units(S, f) = Units(S, g)
  BY DEF Units
<1> QED
  BY <1>1 DEF Total

\* A part adds up to no more than the whole.
LEMMA TotalOfPart ==
  ASSUME NEW S, IsFiniteSet(S), NEW f, \A x \in S : f[x] \in Nat, NEW T \in SUBSET S
  PROVE  Total(T, f) \in Nat /\ Total(T, f) <= Total(S, f)
<1>1. Units(T, f) \subseteq Units(S, f)
  BY DEF Units
<1>2. IsFiniteSet(T)
  BY FS_Subset
<1> QED
  BY <1>1, <1>2, TotalType, FS_Subset DEF Total

\* One member more adds its value.
LEMMA TotalWith ==
  ASSUME NEW S, IsFiniteSet(S), NEW f, NEW y, y \notin S, \A x \in S \cup {y} : f[x] \in Nat
  PROVE  Total(S \cup {y}, f) = Total(S, f) + f[y]
<1> DEFINE B == {y} \X (1 .. f[y])
<1>1. Units(S \cup {y}, f) = Units(S, f) \cup B
  BY DEF Units
<1>2. Units(S, f) \cap B = {}
  BY DEF Units
<1>3. IsFiniteSet(B) /\ Cardinality(B) = f[y]
  <2>1. f[y] \in Nat
    OBVIOUS
  <2>2. IsFiniteSet({y}) /\ Cardinality({y}) = 1
    BY FS_Singleton
  <2>3. IsFiniteSet(1 .. f[y]) /\ Cardinality(1 .. f[y]) = f[y]
    <3>1. 1 \in Int /\ f[y] \in Int
      BY <2>1
    <3>2. IsFiniteSet(1 .. f[y]) /\ Cardinality(1 .. f[y]) = IF 1 > f[y] THEN 0 ELSE f[y] - 1 + 1
      BY <3>1, FS_Interval
    <3> QED
      BY <2>1, <3>2
  <2> HIDE DEF B
  <2>4. IsFiniteSet(B) /\ Cardinality(B) = 1 * f[y]
    BY <2>2, <2>3, FS_Product DEF B
  <2> QED
    BY <2>1, <2>4
<1>4. IsFiniteSet(Units(S, f)) /\ Total(S, f) \in Nat
  BY TotalType
<1> HIDE DEF B
<1>5. Cardinality(Units(S, f) \cup B) = Cardinality(Units(S, f)) + Cardinality(B) - 0
  BY <1>2, <1>3, <1>4, FS_Union, FS_EmptySet
<1>6. f[y] \in Nat /\ Total(S \cup {y}, f) = Cardinality(Units(S, f) \cup B)
  BY <1>1 DEF Total
<1>7. Cardinality(Units(S, f)) \in Nat /\ Cardinality(Units(S, f)) = Total(S, f)
  BY <1>4 DEF Total
<1> QED
  BY <1>3, <1>5, <1>6, <1>7

\* One member less takes its value away.
LEMMA TotalWithout ==
  ASSUME NEW S, IsFiniteSet(S), NEW f, NEW y \in S, \A x \in S : f[x] \in Nat
  PROVE  /\ Total(S \ {y}, f) \in Nat /\ f[y] \in Nat
         /\ Total(S, f) = Total(S \ {y}, f) + f[y]
<1>1. IsFiniteSet(S \ {y})
  BY FS_Subset
<1>2. (S \ {y}) \cup {y} = S
  OBVIOUS
<1>3. Total((S \ {y}) \cup {y}, f) = Total(S \ {y}, f) + f[y]
  BY <1>1, TotalWith
<1> QED
  BY <1>1, <1>2, <1>3, TotalType

\* A change of one value changes the sum by the difference.
LEMMA TotalChange ==
  ASSUME NEW S, IsFiniteSet(S), NEW f, NEW g, NEW y \in S,
         \A x \in S : f[x] \in Nat /\ g[x] \in Nat,
         \A x \in S \ {y} : f[x] = g[x]
  PROVE  /\ Total(S, f) \in Nat /\ Total(S, g) \in Nat
         /\ Total(S, g) + f[y] = Total(S, f) + g[y]
<1>1. Total(S, f) = Total(S \ {y}, f) + f[y] /\ Total(S \ {y}, f) \in Nat
  BY TotalWithout
<1>2. Total(S, g) = Total(S \ {y}, g) + g[y] /\ Total(S \ {y}, g) \in Nat
  BY TotalWithout
<1>3. Total(S \ {y}, f) = Total(S \ {y}, g)
  BY TotalAgrees
<1>4. f[y] \in Nat /\ g[y] \in Nat
  OBVIOUS
<1> QED
  BY <1>1, <1>2, <1>3, <1>4

(***************************************************************************)
(* The smaller and the larger of two numbers.                              *)
(***************************************************************************)

\* Min of two numbers (the end of a tick's range, a debit to the floor).
LEMMA MinOfTwo ==
  ASSUME NEW a \in Int, NEW b \in Int
  PROVE  Min({a, b}) \in {a, b} /\ Min({a, b}) <= a /\ Min({a, b}) <= b
<1>1. \E x \in {a, b} : \A y \in {a, b} : x <= y
  <2>1. CASE a <= b  BY <2>1
  <2>2. CASE ~(a <= b)  BY <2>2
  <2> QED  BY <2>1, <2>2
<1>2. Min({a, b}) \in {a, b} /\ \A y \in {a, b} : Min({a, b}) <= y
  BY <1>1, Zenon DEF Min
<1> QED  BY <1>2

\* Max of two numbers (where a first scan starts).
LEMMA MaxOfTwo ==
  ASSUME NEW a \in Int, NEW b \in Int
  PROVE  Max({a, b}) \in {a, b} /\ a <= Max({a, b}) /\ b <= Max({a, b})
<1>1. \E x \in {a, b} : \A y \in {a, b} : x >= y
  <2>1. CASE a <= b  BY <2>1
  <2>2. CASE ~(a <= b)  BY <2>2
  <2> QED  BY <2>1, <2>2
<1>2. Max({a, b}) \in {a, b} /\ \A y \in {a, b} : Max({a, b}) >= y
  BY <1>1, Zenon DEF Max
<1> QED  BY <1>2

\* Every set of natural numbers that is not empty has a least member, and Min is it.
LEMMA MinOfNaturals ==
  ASSUME NEW S \in SUBSET Nat, S # {}
  PROVE  Min(S) \in S /\ \A y \in S : Min(S) <= y
<1> DEFINE R == {ss \in Nat \X Nat : ss[1] < ss[2]}
<1>1. IsWellFoundedOn(OpToRel(<, Nat), Nat)
  BY NatLessThanWellFounded
<1>2. OpToRel(<, Nat) = R
  BY DEF OpToRel
<1>3. IsWellFoundedOn(R, Nat)
  BY <1>1, <1>2
<1> HIDE DEF R
<1>4. PICK x \in S : \A y \in S : ~(<<y, x>> \in R)
  BY <1>3, WFMin
<1>5. ASSUME NEW y \in S PROVE x <= y
  <2>1. x \in Nat /\ y \in Nat
    OBVIOUS
  <2>2. ~(y < x)
    BY <1>4, <2>1 DEF R
  <2> QED
    BY <2>1, <2>2
<1> QED
  BY <1>5 DEF Min

\* A set of natural numbers with a bound that is not empty has a largest member, and Max is it.
LEMMA MaxOfNaturals ==
  ASSUME NEW S \in SUBSET Nat, S # {}, NEW b \in Nat, \A x \in S : x <= b
  PROVE  Max(S) \in S /\ \A y \in S : y <= Max(S)
<1> DEFINE D == {n \in Nat : b - n \in S}
<1>1. D # {}
  <2>1. PICK x \in S : TRUE
    OBVIOUS
  <2>2. x \in Nat /\ b - x \in Nat /\ b - (b - x) = x
    BY <2>1
  <2> QED
    BY <2>1, <2>2
<1> DEFINE n == Min(D)
<1>2. n \in D /\ \A y \in D : n <= y
  BY <1>1, MinOfNaturals
<1>3. n \in Nat /\ b - n \in S
  BY <1>2
<1>4. ASSUME NEW y \in S PROVE y <= b - n
  <2>1. y \in Nat /\ b - y \in Nat /\ b - (b - y) = y
    OBVIOUS
  <2>2. n <= b - y
    BY <1>2, <2>1
  <2> HIDE DEF n
  <2> QED
    BY <1>3, <2>1, <2>2
<1> HIDE DEF n
<1>5. \E x \in S : \A y \in S : x >= y
  BY <1>3, <1>4
<1>6. Max(S) \in S /\ \A y \in S : Max(S) >= y
  BY <1>5, Zenon DEF Max
<1> QED
  BY <1>6
=============================================================================
