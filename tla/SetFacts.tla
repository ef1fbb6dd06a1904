-------------------------------- MODULE SetFacts --------------------------------
(* What the proofs need to know of finite sets: that a collection of subsets has *)
(* a minimal one, by which a fact is carried from the smaller sets to the larger, *)
(* that numbers have a least and a greatest among them, and that they add up.    *)
EXTENDS Integers, FiniteSets, FiniteSetsExt, Functions, FiniteSetTheorems, NaturalsInduction, TLAPS

\* What is false of some subset of a finite set is false of a minimal one.
Minimal(T, Bad) == T \in Bad /\ \A U \in Bad : U \subseteq T => U = T

LEMMA SubsetsAreWellFounded ==
    ASSUME NEW S, IsFiniteSet(S)
    PROVE  IsWellFoundedOn(StrictSubsetOrdering(S), SUBSET S)
BY FS_StrictSubsetOrderingWellFounded, FS_FiniteSubsetsOfFinite

LEMMA MinimalSet ==
    ASSUME NEW S, IsWellFoundedOn(StrictSubsetOrdering(S), SUBSET S),
           NEW Bad, Bad \subseteq SUBSET S, Bad # {}
    PROVE  \E T \in Bad : Minimal(T, Bad)
<1>2. PICK T \in Bad : \A U \in Bad : <<U, T>> \notin StrictSubsetOrdering(S)
  BY WFMin
<1>3. \A U \in Bad : U \subseteq T => U = T
  BY <1>2 DEF StrictSubsetOrdering
<1>. QED
  BY <1>3 DEF Minimal

LEMMA LeastNatural ==
    ASSUME NEW S \in SUBSET Nat, S # {}
    PROVE  \E x \in S : \A y \in S : x <= y
<1>1. PICK x \in S : \A y \in S : <<y, x>> \notin OpToRel(<, Nat)
  BY NatLessThanWellFounded, WFMin
<1>2. \A y \in S : ~(y < x)
  BY <1>1 DEF OpToRel
<1>. QED
  BY <1>2

LEMMA GreatestNumber ==
    ASSUME NEW S \in SUBSET Int, IsFiniteSet(S), S # {}
    PROVE  \E x \in S : \A y \in S : x >= y
<1>. DEFINE Bad == {T \in SUBSET S : T # {} /\ ~ \E x \in T : \A y \in T : x >= y}
<1>0. Bad \subseteq SUBSET S
  OBVIOUS
<1>1. CASE Bad # {}
  <2>0. IsWellFoundedOn(StrictSubsetOrdering(S), SUBSET S)
    BY SubsetsAreWellFounded
  <2>1. PICK T \in Bad : Minimal(T, Bad)
    <3>. HIDE DEF Bad
    <3>. QED
      BY <1>0, <1>1, <2>0, MinimalSet
  <2>2. PICK z \in T : TRUE
    BY <2>1
  <2>3. T \ {z} \notin Bad
    BY <2>1, <2>2 DEF Minimal
  <2>4. CASE T \ {z} = {}
    BY <2>1, <2>2, <2>4
  <2>5. CASE T \ {z} # {}
    <3>1. PICK x \in T \ {z} : \A y \in T \ {z} : x >= y
      BY <2>1, <2>3, <2>5
    <3>2. x \in Int /\ z \in Int /\ T \subseteq Int
      BY <2>1, <2>2, <3>1
    <3>3. CASE x >= z
      BY <2>1, <3>1, <3>2, <3>3
    <3>4. CASE z >= x
      <4>1. \A y \in T : z >= y
        BY <3>1, <3>2, <3>4
      <4>. QED
        BY <2>1, <2>2, <4>1
    <3>. QED
      BY <3>2, <3>3, <3>4
  <2>. QED
    BY <2>4, <2>5
<1>2. CASE Bad = {}
  BY <1>2
<1>. QED
  BY <1>1, <1>2

LEMMA MaxFacts ==
    ASSUME NEW S \in SUBSET Int, IsFiniteSet(S), S # {}
    PROVE  Max(S) \in S /\ \A y \in S : Max(S) >= y
BY GreatestNumber DEF Max

LEMMA MinFacts ==
    ASSUME NEW S \in SUBSET Nat, S # {}
    PROVE  Min(S) \in S /\ \A y \in S : Min(S) <= y
BY LeastNatural DEF Min

LEMMA MaxOfTwo ==
    ASSUME NEW m \in Int, NEW n \in Int
    PROVE  Max({m, n}) = IF m >= n THEN m ELSE n
<1>. DEFINE x == IF m >= n THEN m ELSE n
<1>1. x \in {m, n} /\ \A y \in {m, n} : x >= y
  OBVIOUS
<1>2. \A z \in {m, n} : (\A y \in {m, n} : z >= y) => z = x
  OBVIOUS
<1>. QED
  BY <1>1, <1>2 DEF Max

\* The values of a function on a finite set are finitely many.
LEMMA FiniteImage ==
    ASSUME NEW S, IsFiniteSet(S), NEW f
    PROVE  IsFiniteSet({f[x] : x \in S}) /\ Cardinality({f[x] : x \in S}) <= Cardinality(S)
<1>. DEFINE T == {f[x] : x \in S}
            g == [x \in S |-> f[x]]
<1>1. g \in Surjection(S, T)
  BY DEF Surjection
<1>. HIDE DEF g
<1>. QED
  BY <1>1, FS_Surjection

-----------------------------------------------------------------------------
(* Sums.                                                                         *)

\* One step of the fold behind SumFunctionOnSet: an element is chosen and added to
\* the sum of the rest.
SumStep(S, f, g) ==
    [s \in SUBSET S |->
        IF s = {} THEN 0
        ELSE f[CHOOSE x \in s : TRUE] + g[s \ {CHOOSE x \in s : TRUE}]]

IsSum(S, f, g) == g = SumStep(S, f, g)

LEMMA SumIsFold ==
    ASSUME NEW S, NEW f
    PROVE  SumFunctionOnSet(f, S) = (CHOOSE g : IsSum(S, f, g))[S]
BY DEF SumFunctionOnSet, FoldFunctionOnSet, MapThenFoldSet, IsSum, SumStep

\* The units of a sum, one pair for each: counting them is a fold of that kind.
Units(S, f, bound, s) == {p \in s \X (1..bound) : p[2] <= f[p[1]]}

LEMMA UnitsAddUp ==
    ASSUME NEW S, IsFiniteSet(S), NEW f, NEW bound \in Nat,
           \A x \in S : f[x] \in 0..bound
    PROVE  \A s \in SUBSET S : \A x \in s :
               Cardinality(Units(S, f, bound, s))
                   = f[x] + Cardinality(Units(S, f, bound, s \ {x}))
<1>. SUFFICES ASSUME NEW s \in SUBSET S, NEW x \in s
              PROVE  Cardinality(Units(S, f, bound, s))
                         = f[x] + Cardinality(Units(S, f, bound, s \ {x}))
  OBVIOUS
<1>. DEFINE own == {x} \X (1..f[x])
            rest == Units(S, f, bound, s \ {x})
<1>1. f[x] \in Nat /\ f[x] <= bound
  OBVIOUS
<1>2. Units(S, f, bound, s) = own \cup rest /\ own \cap rest = {}
  BY <1>1 DEF Units
<1>3. IsFiniteSet(own) /\ Cardinality(own) = f[x]
  <2>1. IsFiniteSet({x}) /\ Cardinality({x}) = 1
    BY FS_Singleton
  <2>2. PICK k \in Nat : k = f[x]
    BY <1>1
  <2>3. IsFiniteSet(1..k) /\ Cardinality(1..k) = IF 1 > k THEN 0 ELSE k - 1 + 1
    BY FS_Interval
  <2>4. Cardinality(1..k) = k
    BY <2>3
  <2>5. /\ IsFiniteSet({x} \X (1..k))
        /\ Cardinality({x} \X (1..k)) = Cardinality({x}) * Cardinality(1..k)
    BY <2>1, <2>3, FS_Product
  <2>6. Cardinality({x} \X (1..k)) = k
    BY <2>1, <2>4, <2>5
  <2>. QED
    BY <2>2, <2>5, <2>6
<1>4. IsFiniteSet(rest)
  <2>1. IsFiniteSet(s \ {x}) /\ IsFiniteSet(1..bound)
    BY FS_Subset, FS_Interval
  <2>2. IsFiniteSet((s \ {x}) \X (1..bound))
    BY <2>1, FS_Product
  <2>3. rest \subseteq (s \ {x}) \X (1..bound)
    BY DEF Units
  <2>. QED
    BY <2>2, <2>3, FS_Subset
<1>. HIDE DEF own, rest
<1>5. Cardinality(own \cap rest) = 0
  BY <1>2, FS_EmptySet
<1>6. Cardinality(own \cup rest) = Cardinality(own) + Cardinality(rest) - Cardinality(own \cap rest)
  BY <1>3, <1>4, FS_Union
<1>7. Cardinality(rest) \in Nat
  BY <1>4, FS_CardinalityType
<1>. QED
  BY <1>1, <1>2, <1>3, <1>5, <1>6, <1>7 DEF rest

LEMMA SumExists ==
    ASSUME NEW S, IsFiniteSet(S), NEW f, \A x \in S : f[x] \in Nat
    PROVE  \E g : IsSum(S, f, g)
<1>1. PICK bound \in Nat : \A x \in S : f[x] \in 0..bound
  <2>. DEFINE T == {f[x] : x \in S} \cup {0}
  <2>1. IsFiniteSet(T) /\ T \in SUBSET Int /\ T # {} /\ T \subseteq Nat
    <3>1. IsFiniteSet({f[x] : x \in S})
      BY FiniteImage
    <3>. QED
      BY <3>1, FS_AddElement
  <2>2. PICK b \in T : \A y \in T : b >= y
    <3>. HIDE DEF T
    <3>. QED
      BY <2>1, GreatestNumber
  <2>. QED
    BY <2>1, <2>2
<1>. DEFINE g == [s \in SUBSET S |-> Cardinality(Units(S, f, bound, s))]
<1>2. ASSUME NEW s \in SUBSET S
      PROVE  g[s] = IF s = {} THEN 0
                    ELSE f[CHOOSE x \in s : TRUE] + g[s \ {CHOOSE x \in s : TRUE}]
  <2>1. CASE s = {}
    <3>1. Units(S, f, bound, s) = {}
      BY <2>1 DEF Units
    <3>. QED
      BY <2>1, <3>1, FS_EmptySet
  <2>2. CASE s # {}
    <3>. DEFINE x == CHOOSE x \in s : TRUE
    <3>1. x \in s
      BY <2>2
    <3>. HIDE DEF x
    <3>2. g[s] = f[x] + g[s \ {x}]
      BY <1>1, <3>1, UnitsAddUp
    <3>. QED
      BY <2>2, <3>2 DEF x
  <2>. QED
    BY <2>1, <2>2
<1>3. g = SumStep(S, f, g)
  <2>. DEFINE h == SumStep(S, f, g)
  <2>1. h = [s \in SUBSET S |-> h[s]] /\ g = [s \in SUBSET S |-> g[s]]
    BY DEF SumStep
  <2>2. \A s \in SUBSET S : h[s] = g[s]
    <3>. HIDE DEF g
    <3>. QED
      BY <1>2 DEF SumStep
  <2>. HIDE DEF g, h
  <2>3. g = h
    BY <2>1, <2>2
  <2>. QED
    BY <2>3 DEF h
<1>. HIDE DEF g
<1>. QED
  BY <1>3 DEF IsSum

(* A sum of naturals is a natural; of nothing, 0.                                  *)
LEMMA SumFacts ==
    ASSUME NEW S, IsFiniteSet(S), NEW f, \A x \in S : f[x] \in Nat
    PROVE  /\ SumFunctionOnSet(f, S) \in Nat
           /\ S = {} => SumFunctionOnSet(f, S) = 0
<1>1. PICK g : IsSum(S, f, g) /\ SumFunctionOnSet(f, S) = g[S]
  BY SumExists, SumIsFold
<1>2. ASSUME NEW s \in SUBSET S
      PROVE  g[s] = IF s = {} THEN 0
                    ELSE f[CHOOSE x \in s : TRUE] + g[s \ {CHOOSE x \in s : TRUE}]
  <2>1. g = SumStep(S, f, g)
    BY <1>1 DEF IsSum
  <2>2. SumStep(S, f, g)[s] = IF s = {} THEN 0
                    ELSE f[CHOOSE x \in s : TRUE] + g[s \ {CHOOSE x \in s : TRUE}]
    BY DEF SumStep
  <2>. QED
    BY <2>1, <2>2
<1>. DEFINE Bad == {s \in SUBSET S : g[s] \notin Nat}
<1>3. Bad = {}
  <2>. SUFFICES ASSUME Bad # {}
                PROVE  FALSE
    OBVIOUS
  <2>1. PICK s \in Bad : Minimal(s, Bad)
    <3>1. Bad \subseteq SUBSET S /\ IsWellFoundedOn(StrictSubsetOrdering(S), SUBSET S)
      BY SubsetsAreWellFounded
    <3>. HIDE DEF Bad
    <3>. QED
      BY <3>1, MinimalSet
  <2>2. s \in SUBSET S /\ g[s] \notin Nat
    BY <2>1
  <2>3. s # {}
    BY <1>2, <2>2
  <2>. DEFINE x == CHOOSE x \in s : TRUE
  <2>4. x \in s
    BY <2>3
  <2>5. g[s] = f[x] + g[s \ {x}]
    BY <1>2, <2>2, <2>3
  <2>. HIDE DEF x
  <2>6. g[s \ {x}] \in Nat
    BY <2>1, <2>2, <2>4 DEF Minimal
  <2>. QED
    BY <2>2, <2>4, <2>5, <2>6
<1>. QED
  BY <1>1, <1>2, <1>3
=============================================================================
