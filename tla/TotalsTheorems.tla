--------------------------- MODULE TotalsTheorems ---------------------------
(***************************************************************************)
(* Facts about sums of quantities, each a fact about the cardinality of a  *)
(* finite set of units.                                                    *)
(***************************************************************************)
EXTENDS Totals, FiniteSetTheorems, TLAPS

\* The units of a row, and of all rows, in terms of membership.
LEMMA UnitsMembership ==
    ASSUME NEW S, NEW f \in [S -> Nat], NEW u
    PROVE  u \in Units(f) <=>
              \E x \in S : \E n \in 1 .. f[x] : u = <<x, n>>
  BY DEF Units

\* Finitely many rows hold finitely many units.
LEMMA UnitsFinite ==
    ASSUME NEW S, IsFiniteSet(S), NEW f \in [S -> Nat]
    PROVE  IsFiniteSet(Units(f)) /\ Total(f) \in Nat
<1> DEFINE row == [x \in S |-> {x} \X (1 .. f[x])]
           R == {{x} \X (1 .. f[x]) : x \in S}
<1>1. row \in Surjection(S, R)
  BY DEF Surjection
<1>2. IsFiniteSet(R)
  <2> HIDE DEF row, R
  <2> QED BY <1>1, FS_Surjection
<1>3. ASSUME NEW T \in R PROVE IsFiniteSet(T)
  <2>1. PICK x \in S : T = {x} \X (1 .. f[x])
    OBVIOUS
  <2>2. IsFiniteSet({x})
    BY FS_Singleton
  <2>3. f[x] \in Int /\ 1 \in Int
    OBVIOUS
  <2>4. IsFiniteSet(1 .. f[x])
    BY <2>3, FS_Interval
  <2> QED BY <2>1, <2>2, <2>4, FS_Product
<1>4. Units(f) = UNION R
  BY DEF Units
<1>5. IsFiniteSet(Units(f))
  <2> HIDE DEF R
  <2> QED BY <1>2, <1>3, <1>4, FS_UNION
<1> QED BY <1>5, FS_CardinalityType DEF Total

\* Nothing in any row: nothing in all.
LEMMA TotalOfNothing ==
    ASSUME NEW S, NEW f \in [S -> Nat], \A x \in S : f[x] = 0
    PROVE  Total(f) = 0
<1>1. Units(f) = {}
  BY UnitsMembership
<1> QED BY <1>1, FS_EmptySet DEF Total

\* Everything in one row: that row is the sum.
LEMMA TotalOfOne ==
    ASSUME NEW S, NEW a \in S, NEW f \in [S -> Nat],
           \A x \in S \ {a} : f[x] = 0
    PROVE  Total(f) = f[a]
<1>1. Units(f) = {a} \X (1 .. f[a])
  <2>1. ASSUME NEW u PROVE u \in Units(f) <=> u \in {a} \X (1 .. f[a])
    BY UnitsMembership
  <2> QED BY <2>1
<1>2. IsFiniteSet({a}) /\ Cardinality({a}) = 1
  BY FS_Singleton
<1>3. IsFiniteSet(1 .. f[a]) /\ Cardinality(1 .. f[a]) = f[a]
  BY FS_Interval
<1>4. Cardinality({a} \X (1 .. f[a])) = Cardinality({a}) * Cardinality(1 .. f[a])
  BY <1>2, <1>3, FS_Product
<1>5. 1 * f[a] = f[a]
  OBVIOUS
<1> QED BY <1>1, <1>2, <1>3, <1>4, <1>5 DEF Total

\* The sum of two quantities row by row is the sum of their sums: the units
\* of the second are appended, row by row, to those of the first.
LEMMA TotalPlus ==
    ASSUME NEW S, IsFiniteSet(S), NEW f \in [S -> Nat], NEW g \in [S -> Nat]
    PROVE  Total(Plus(f, g)) = Total(f) + Total(g)
<1> DEFINE h == Plus(f, g)
           moved == [u \in Units(g) |-> <<u[1], f[u[1]] + u[2]>>]
           added == Units(h) \ Units(f)
<1>1. h \in [S -> Nat] /\ \A x \in S : h[x] = f[x] + g[x]
  BY DEF Plus
<1>2. IsFiniteSet(Units(f)) /\ IsFiniteSet(Units(g)) /\ IsFiniteSet(Units(h))
  <2> HIDE DEF h
  <2> QED BY <1>1, UnitsFinite
<1>3. Units(f) \subseteq Units(h)
  <2> HIDE DEF h
  <2>1. ASSUME NEW u \in Units(f) PROVE u \in Units(h)
    <3>1. PICK x \in S : \E n \in 1 .. f[x] : u = <<x, n>>
      BY UnitsMembership
    <3>2. PICK n \in 1 .. f[x] : u = <<x, n>>
      BY <3>1
    <3>3. n \in 1 .. h[x]
      BY <1>1
    <3> QED BY <1>1, <3>2, <3>3, UnitsMembership
  <2> QED BY <2>1
<1>4. ASSUME NEW u
      PROVE  u \in added <=> \E x \in S : \E n \in 1 .. g[x] : u = <<x, f[x] + n>>
  <2> HIDE DEF h
  <2>1. ASSUME u \in added
        PROVE  \E x \in S : \E n \in 1 .. g[x] : u = <<x, f[x] + n>>
    <3>1. PICK x \in S : \E m \in 1 .. h[x] : u = <<x, m>>
      BY <1>1, <2>1, UnitsMembership
    <3>2. PICK m \in 1 .. h[x] : u = <<x, m>>
      BY <3>1
    <3>3. ~(m \in 1 .. f[x])
      BY <2>1, <3>2, UnitsMembership
    <3>4. m - f[x] \in 1 .. g[x] /\ m = f[x] + (m - f[x])
      BY <1>1, <3>3
    <3> QED BY <3>2, <3>4
  <2>2. ASSUME NEW x \in S, NEW n \in 1 .. g[x], u = <<x, f[x] + n>>
        PROVE  u \in added
    <3>1. f[x] + n \in 1 .. h[x] /\ ~(f[x] + n \in 1 .. f[x])
      BY <1>1
    <3>2. u \in Units(h)
      BY <1>1, <2>2, <3>1, UnitsMembership
    <3>3. u \notin Units(f)
      BY <2>2, <3>1, UnitsMembership
    <3> QED BY <3>2, <3>3
  <2> QED BY <2>1, <2>2
<1>5. moved \in Bijection(Units(g), added)
  <2> HIDE DEF added
  <2>1. ASSUME NEW u \in Units(g)
        PROVE  moved[u] \in added /\ u[1] \in S /\ u[2] \in 1 .. g[u[1]] /\ u = <<u[1], u[2]>>
    <3>1. PICK x \in S : \E n \in 1 .. g[x] : u = <<x, n>>
      BY UnitsMembership
    <3>2. PICK n \in 1 .. g[x] : u = <<x, n>>
      BY <3>1
    <3> QED BY <1>4, <3>2
  <2>2. ASSUME NEW u \in Units(g), NEW v \in Units(g), moved[u] = moved[v]
        PROVE  u = v
    <3>1. u[1] = v[1] /\ f[u[1]] + u[2] = f[v[1]] + v[2]
      BY <2>2
    <3>2. /\ u[1] \in S /\ u[2] \in 1 .. g[u[1]]
          /\ v[1] \in S /\ v[2] \in 1 .. g[v[1]]
      BY <2>1
    <3>3. u[2] \in Int /\ v[2] \in Int /\ f[u[1]] \in Int /\ f[v[1]] = f[u[1]]
      BY <3>1, <3>2
    <3>4. u[2] = v[2]
      BY <3>1, <3>3
    <3> QED BY <2>1, <3>1, <3>4
  <2>3. ASSUME NEW w \in added PROVE \E u \in Units(g) : moved[u] = w
    <3>1. PICK x \in S : \E n \in 1 .. g[x] : w = <<x, f[x] + n>>
      BY <1>4
    <3>2. PICK n \in 1 .. g[x] : w = <<x, f[x] + n>>
      BY <3>1
    <3>3. <<x, n>> \in Units(g)
      BY <3>2, UnitsMembership
    <3> QED BY <3>2, <3>3
  <2>4. moved \in [Units(g) -> added]
    BY <2>1
  <2> HIDE DEF moved
  <2> QED BY <2>2, <2>3, <2>4 DEF Bijection, Injection, Surjection, IsInjective
<1>6. Cardinality(added) = Cardinality(Units(g))
  <2> HIDE DEF added, moved
  <2> QED BY <1>2, <1>5, FS_Bijection DEF ExistsBijection
<1>7. Cardinality(added) = Cardinality(Units(h)) - Cardinality(Units(f))
  <2> HIDE DEF h
  <2>1. Units(h) \cap Units(f) = Units(f)
    BY <1>3
  <2>2. Cardinality(added) = Cardinality(Units(h)) - Cardinality(Units(h) \cap Units(f))
    BY <1>2, FS_Difference
  <2> QED BY <2>1, <2>2
<1>8. /\ Cardinality(Units(f)) \in Nat
      /\ Cardinality(Units(g)) \in Nat
      /\ Cardinality(Units(h)) \in Nat
  <2> HIDE DEF h
  <2> QED BY <1>2, FS_CardinalityType
<1>9. Cardinality(Units(h)) = Cardinality(Units(f)) + Cardinality(Units(g))
  <2> HIDE DEF h, added
  <2> QED BY <1>6, <1>7, <1>8
<1> QED BY <1>9 DEF Total

\* TotalPlus for a third function that is the row by row sum.
LEMMA TotalAdd ==
    ASSUME NEW S, IsFiniteSet(S),
           NEW f \in [S -> Nat], NEW g \in [S -> Nat], NEW h \in [S -> Nat],
           \A x \in S : h[x] = f[x] + g[x]
    PROVE  Total(h) = Total(f) + Total(g)
<1>1. h = Plus(f, g)
  BY DEF Plus
<1> QED BY <1>1, TotalPlus

\* No row exceeds the sum, and emptying a row takes it off the sum.
LEMMA TotalWithout ==
    ASSUME NEW S, IsFiniteSet(S), NEW a \in S,
           NEW f \in [S -> Nat], NEW h \in [S -> Nat],
           h[a] = 0, \A x \in S \ {a} : h[x] = f[x]
    PROVE  /\ f[a] <= Total(f)
           /\ Total(h) = Total(f) - f[a]
<1> DEFINE g == [x \in S |-> IF x = a THEN f[a] ELSE 0]
<1>1. g \in [S -> Nat] /\ g[a] = f[a] /\ \A x \in S \ {a} : g[x] = 0
  OBVIOUS
<1>2. \A x \in S : f[x] = h[x] + g[x]
  OBVIOUS
<1> HIDE DEF g
<1>3. Total(g) = f[a]
  BY <1>1, TotalOfOne
<1>4. Total(f) = Total(h) + Total(g)
  BY <1>1, <1>2, TotalAdd
<1>5. Total(h) \in Nat /\ Total(f) \in Nat /\ f[a] \in Nat
  BY UnitsFinite
<1> QED BY <1>3, <1>4, <1>5

\* Rows without any piece do not count.
LEMMA TotalOfExtension ==
    ASSUME NEW S, NEW T \in SUBSET S,
           NEW f \in [T -> Nat], NEW g \in [S -> Nat],
           \A x \in T : g[x] = f[x], \A x \in S \ T : g[x] = 0
    PROVE  Total(g) = Total(f)
<1>1. ASSUME NEW u PROVE u \in Units(f) <=> u \in Units(g)
  <2>1. u \in Units(f) <=> \E x \in T : \E n \in 1 .. f[x] : u = <<x, n>>
    BY UnitsMembership
  <2>2. u \in Units(g) <=> \E x \in S : \E n \in 1 .. g[x] : u = <<x, n>>
    BY UnitsMembership
  <2>3. \A x \in S \ T : 1 .. g[x] = {}
    OBVIOUS
  <2> QED BY <2>1, <2>2, <2>3
<1>2. Units(f) = Units(g)
  BY <1>1
<1> QED BY <1>2 DEF Total
=============================================================================
