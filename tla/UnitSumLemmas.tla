--------------------------- MODULE UnitSumLemmas ---------------------------
(***************************************************************************)
(* What Total returns, and how it moves when one member of the family      *)
(* moves: the facts every conservation proof of this project cites.        *)
(***************************************************************************)
EXTENDS UnitSum, FiniteSetTheorems, TLAPS

\* The units of one member are as many as its value: UnitsOf counts.
LEMMA UnitsOfCount ==
  ASSUME NEW x, NEW n \in Nat
  PROVE  /\ IsFiniteSet(UnitsOf(x, n))
         /\ Cardinality(UnitsOf(x, n)) = n
<1>1. IsFiniteSet({x}) /\ Cardinality({x}) = 1
  BY FS_Singleton
<1>2. IsFiniteSet(1..n) /\ Cardinality(1..n) = n
  BY FS_Interval
<1>3. /\ IsFiniteSet({x} \X (1..n))
      /\ Cardinality({x} \X (1..n)) = Cardinality({x}) * Cardinality(1..n)
  BY <1>1, <1>2, FS_Product, Zenon
<1>4. Cardinality({x} \X (1..n)) = n
  BY <1>1, <1>2, <1>3
<1>5. QED
  BY <1>3, <1>4 DEF UnitsOf

\* A finite family of naturals has finitely many units.
LEMMA UnitsFinite ==
  ASSUME NEW S, IsFiniteSet(S), NEW f \in [S -> Nat]
  PROVE  IsFiniteSet(Units(f))
<1> DEFINE Parts == {UnitsOf(x, f[x]) : x \in S}
<1> DEFINE g == [x \in S |-> UnitsOf(x, f[x])]
<1>1. g \in Surjection(S, Parts)
  BY DEF Surjection
<1>2. IsFiniteSet(Parts)
  BY <1>1, FS_Surjection
<1>3. \A T \in Parts : IsFiniteSet(T)
  BY UnitsOfCount
<1>4. IsFiniteSet(UNION Parts)
  BY <1>2, <1>3, FS_UNION
<1>5. QED
  BY <1>4 DEF Units

\* The sum of a finite family of naturals is a natural.
LEMMA TotalType ==
  ASSUME NEW S, IsFiniteSet(S), NEW f \in [S -> Nat]
  PROVE  Total(f) \in Nat
BY UnitsFinite, FS_CardinalityType DEF Total

\* No member exceeds the sum.
LEMMA TotalAbove ==
  ASSUME NEW S, IsFiniteSet(S), NEW f \in [S -> Nat], NEW x \in S
  PROVE  f[x] <= Total(f)
<1>1. UnitsOf(x, f[x]) \subseteq Units(f)
  BY DEF Units
<1>2. Cardinality(UnitsOf(x, f[x])) <= Cardinality(Units(f))
  BY <1>1, UnitsFinite, FS_Subset
<1>3. QED
  BY <1>2, UnitsOfCount DEF Total

\* A family of zeros sums to zero.
LEMMA TotalZero ==
  ASSUME NEW S, NEW f \in [S -> Nat], \A x \in S : f[x] = 0
  PROVE  Total(f) = 0
<1>1. Units(f) = {}
  BY DEF Units, UnitsOf
<1>2. QED
  BY <1>1, FS_EmptySet DEF Total

\* Replacing one member moves the sum by exactly that member's move.
LEMMA TotalUpdate ==
  ASSUME NEW S, IsFiniteSet(S), NEW f \in [S -> Nat], NEW x \in S, NEW n \in Nat
  PROVE  Total([f EXCEPT ![x] = n]) = Total(f) - f[x] + n
<1> DEFINE g    == [f EXCEPT ![x] = n]
           Old  == UnitsOf(x, f[x])
           New  == UnitsOf(x, n)
           Rest == Units(f) \ Old
<1>1. g \in [S -> Nat] /\ g[x] = n /\ \A y \in S \ {x} : g[y] = f[y]
  OBVIOUS
<1>2. Old \subseteq Units(f)
  BY DEF Units
<1>3. \A u \in Rest : u[1] # x
  BY DEF Units, UnitsOf
<1>4. Units(g) = Rest \cup New
  <2>1. ASSUME NEW u \in Units(g) PROVE u \in Rest \cup New
    <3>1. PICK y \in S : u \in UnitsOf(y, g[y])
      BY <1>1 DEF Units
    <3>2. CASE y = x
      BY <3>1, <3>2, <1>1
    <3>3. CASE y # x
      <4>1. u \in Units(f)
        BY <3>1, <3>3, <1>1 DEF Units
      <4>2. u \notin Old
        BY <3>1, <3>3 DEF UnitsOf
      <4>3. QED
        BY <4>1, <4>2
    <3>4. QED
      BY <3>2, <3>3
  <2>2. ASSUME NEW u \in Rest PROVE u \in Units(g)
    <3>1. PICK y \in S : u \in UnitsOf(y, f[y])
      BY DEF Units
    <3>2. y # x
      BY <3>1
    <3>3. QED
      BY <3>1, <3>2, <1>1 DEF Units
  <2>3. New \subseteq Units(g)
    BY <1>1 DEF Units
  <2>4. QED
    BY <2>1, <2>2, <2>3
<1>5. IsFiniteSet(Units(f)) /\ Cardinality(Units(f)) \in Nat
  BY UnitsFinite, FS_CardinalityType
<1>6. IsFiniteSet(Old) /\ Cardinality(Old) = f[x]
  BY UnitsOfCount
<1>7. IsFiniteSet(New) /\ Cardinality(New) = n
  BY UnitsOfCount
<1>8. IsFiniteSet(Rest) /\ Cardinality(Rest) = Cardinality(Units(f)) - f[x]
  <2>1. Units(f) \cap Old = Old
    BY <1>2
  <2>2. /\ IsFiniteSet(Units(f) \ Old)
        /\ Cardinality(Units(f) \ Old)
             = Cardinality(Units(f)) - Cardinality(Units(f) \cap Old)
    BY <1>5, FS_Difference, Zenon
  <2>3. QED
    BY <2>1, <2>2, <1>6, Zenon
<1>9. Rest \cap New = {}
  BY <1>3 DEF UnitsOf
<1>10. Cardinality(Units(g)) = Cardinality(Rest) + Cardinality(New)
  <2>1. Cardinality(Rest \cap New) = 0
    BY <1>9, FS_EmptySet
  <2>2. Cardinality(Rest \cup New)
          = Cardinality(Rest) + Cardinality(New) - Cardinality(Rest \cap New)
    BY <1>7, <1>8, FS_Union, Zenon
  <2>3. Cardinality(Rest) \in Nat /\ Cardinality(New) \in Nat
    BY <1>7, <1>8, FS_CardinalityType, Zenon
  <2>4. Cardinality(Rest) + Cardinality(New) - 0 = Cardinality(Rest) + Cardinality(New)
    BY <2>3
  <2>5. QED
    BY <1>4, <2>1, <2>2, <2>4, Zenon
<1>11. QED
  BY <1>5, <1>7, <1>8, <1>10 DEF Total
=============================================================================
