----------------------------- MODULE SumsProofs -----------------------------
(***************************************************************************)
(* What a reader needs to know of Total: it is a natural number, changing  *)
(* f at one point changes it by exactly that difference, and it grows with *)
(* the set, by at most f[x] for one more element x.  It may be taken under *)
(* other names, group by group, and of a constant is a product.  Also here *)
(* is the algebra of prices both pools rest on.                            *)
(***************************************************************************)
EXTENDS Sums, FiniteSetTheorems, WellFoundedInduction, TLAPS

\* One element contributes exactly f[x] units.
LEMMA UnitsOfCount ==
  ASSUME NEW S, NEW f \in [S -> Nat], NEW x \in S
  PROVE  /\ IsFiniteSet(UnitsOf(f, x))
         /\ Cardinality(UnitsOf(f, x)) = f[x]
<1>1. f[x] \in Nat /\ f[x] \in Int /\ 1 \in Int
  OBVIOUS
<1>2. /\ IsFiniteSet(1 .. f[x])
      /\ Cardinality(1 .. f[x]) = f[x]
  BY <1>1, FS_Interval
<1>3. IsFiniteSet({x}) /\ Cardinality({x}) = 1
  BY FS_Singleton
<1>4. /\ IsFiniteSet({x} \X (1 .. f[x]))
      /\ Cardinality({x} \X (1 .. f[x])) = 1 * f[x]
  BY <1>2, <1>3, FS_Product
<1>5. QED
  BY <1>1, <1>4 DEF UnitsOf

\* A finite set of elements hands out finitely many units.
LEMMA UnitsFinite ==
  ASSUME NEW S, IsFiniteSet(S), NEW f \in [S -> Nat]
  PROVE  IsFiniteSet(Units(f, S))
<1> DEFINE Parts == {UnitsOf(f, x) : x \in S}
           part  == [x \in S |-> UnitsOf(f, x)]
<1>1. part \in Surjection(S, Parts)
  BY DEF Surjection
<1>2. IsFiniteSet(Parts)
  BY <1>1, FS_Surjection
<1>3. \A T \in Parts : IsFiniteSet(T)
  BY UnitsOfCount
<1>4. IsFiniteSet(UNION Parts)
  BY <1>2, <1>3, FS_UNION
<1>5. QED
  BY <1>4 DEF Units

\* The units of S are those of one element and those of all the others.
LEMMA UnitsSplit ==
  ASSUME NEW S, IsFiniteSet(S), NEW f \in [S -> Nat], NEW x \in S
  PROVE  /\ IsFiniteSet(Units(f, S \ {x}))
         /\ Total(f, S) = Total(f, S \ {x}) + f[x]
<1> DEFINE Rest == Units(f, S \ {x})
           Own  == UnitsOf(f, x)
<1>1. Units(f, S) = Rest \cup Own
  BY DEF Units
<1>2. Rest \cap Own = {}
  BY DEF Units, UnitsOf
<1>3. IsFiniteSet(Units(f, S))
  BY UnitsFinite
<1>4. IsFiniteSet(Rest)
  <2>1. Rest \in SUBSET Units(f, S)
    BY <1>1
  <2>2. QED
    BY <2>1, <1>3, FS_Subset
<1>5. IsFiniteSet(Own) /\ Cardinality(Own) = f[x]
  BY UnitsOfCount
<1>6. Cardinality(Rest \cup Own)
        = Cardinality(Rest) + Cardinality(Own) - Cardinality(Rest \cap Own)
  BY <1>4, <1>5, FS_Union
<1>7. Cardinality(Rest \cap Own) = 0
  BY <1>2, FS_EmptySet
<1>8. Cardinality(Rest) \in Nat /\ f[x] \in Nat
  BY <1>4, FS_CardinalityType
<1>9. QED
  BY <1>1, <1>4, <1>5, <1>6, <1>7, <1>8 DEF Total

\* A sum of naturals over a finite set is a natural number, at least as
\* large as each of its terms.
THEOREM TotalNat ==
  ASSUME NEW S, IsFiniteSet(S), NEW f \in [S -> Nat]
  PROVE  /\ Total(f, S) \in Nat
         /\ \A x \in S : f[x] <= Total(f, S)
<1>1. Total(f, S) \in Nat
  BY UnitsFinite, FS_CardinalityType DEF Total
<1>2. ASSUME NEW x \in S
      PROVE  f[x] <= Total(f, S)
  <2>1. /\ IsFiniteSet(Units(f, S \ {x}))
        /\ Total(f, S) = Total(f, S \ {x}) + f[x]
    BY UnitsSplit
  <2>2. Total(f, S \ {x}) \in Nat
    BY <2>1, FS_CardinalityType DEF Total
  <2>3. QED
    BY <2>1, <2>2
<1>3. QED
  BY <1>1, <1>2

\* The sum of the zero function is zero.
THEOREM TotalZero ==
  ASSUME NEW S, NEW f, \A x \in S : f[x] = 0
  PROVE  Total(f, S) = 0
<1>1. \A x \in S : UnitsOf(f, x) = {}
  BY DEF UnitsOf
<1>2. Units(f, S) = {}
  BY <1>1 DEF Units
<1>3. QED
  BY <1>2, FS_EmptySet DEF Total

\* Two functions that differ at x only have sums that differ by exactly the
\* difference at x.
THEOREM TotalUpdate ==
  ASSUME NEW S, IsFiniteSet(S), NEW f \in [S -> Nat], NEW g \in [S -> Nat],
         NEW x \in S, \A y \in S \ {x} : g[y] = f[y]
  PROVE  Total(g, S) = Total(f, S) - f[x] + g[x]
<1>1. Units(g, S \ {x}) = Units(f, S \ {x})
  BY DEF Units, UnitsOf
<1>2. /\ IsFiniteSet(Units(f, S \ {x}))
      /\ Total(f, S) = Total(f, S \ {x}) + f[x]
  BY UnitsSplit
<1>3. Total(g, S) = Total(g, S \ {x}) + g[x]
  BY UnitsSplit
<1>4. Total(g, S \ {x}) = Total(f, S \ {x})
  BY <1>1 DEF Total
<1>5. Total(f, S \ {x}) \in Nat /\ f[x] \in Nat /\ g[x] \in Nat
  BY <1>2, FS_CardinalityType DEF Total
<1>6. QED
  BY <1>2, <1>3, <1>4, <1>5

\* A sum looks at f on S only.
LEMMA TotalSame ==
  ASSUME NEW S, NEW f, NEW g, \A x \in S : g[x] = f[x]
  PROVE  Total(g, S) = Total(f, S)
<1>1. \A x \in S : UnitsOf(g, x) = UnitsOf(f, x)
  BY DEF UnitsOf
<1>2. Units(g, S) = Units(f, S)
  BY <1>1 DEF Units
<1>3. QED
  BY <1>2 DEF Total

\* The units of a finite set on which f is natural, whatever f is elsewhere.
LEMMA UnitsFiniteOn ==
  ASSUME NEW S, IsFiniteSet(S), NEW f, \A x \in S : f[x] \in Nat
  PROVE  IsFiniteSet(Units(f, S)) /\ Total(f, S) \in Nat
<1> DEFINE g == [x \in S |-> f[x]]
<1>1. g \in [S -> Nat]
  OBVIOUS
<1>2. IsFiniteSet(Units(g, S))
  BY <1>1, UnitsFinite
<1>3. \A x \in S : UnitsOf(g, x) = UnitsOf(f, x)
  BY DEF UnitsOf
<1>4. Units(g, S) = Units(f, S)
  BY <1>3 DEF Units
<1>5. QED
  BY <1>2, <1>4, FS_CardinalityType DEF Total

\* Fewer elements, no larger a sum.
THEOREM TotalMono ==
  ASSUME NEW S, IsFiniteSet(S), NEW T \in SUBSET S, NEW f, \A x \in S : f[x] \in Nat
  PROVE  /\ Total(f, T) \in Nat /\ Total(f, S) \in Nat
         /\ Total(f, T) <= Total(f, S)
<1>1. IsFiniteSet(Units(f, S)) /\ Total(f, S) \in Nat
  BY UnitsFiniteOn
<1>2. IsFiniteSet(T)
  BY FS_Subset
<1>3. Total(f, T) \in Nat
  BY <1>2, UnitsFiniteOn
<1>4. Units(f, T) \in SUBSET Units(f, S)
  BY DEF Units
<1>5. Cardinality(Units(f, T)) <= Cardinality(Units(f, S))
  BY <1>1, <1>4, FS_Subset
<1>6. QED
  BY <1>1, <1>3, <1>5 DEF Total

\* One more element adds at most what f hands out for it.
THEOREM TotalAdd ==
  ASSUME NEW S, IsFiniteSet(S), NEW x, NEW f, \A y \in S \cup {x} : f[y] \in Nat
  PROVE  Total(f, S \cup {x}) <= Total(f, S) + f[x]
<1> DEFINE T == S \cup {x}
           g == [y \in T |-> f[y]]
<1>1. IsFiniteSet(T)
  BY FS_AddElement
<1>2. g \in [T -> Nat] /\ x \in T
  OBVIOUS
<1>3. Total(g, T) = Total(g, T \ {x}) + g[x]
  BY <1>1, <1>2, UnitsSplit
<1>4. Total(g, T) = Total(f, T) /\ Total(g, T \ {x}) = Total(f, T \ {x})
  BY TotalSame
<1>5. T \ {x} \in SUBSET S
  OBVIOUS
<1>6. /\ Total(f, T \ {x}) \in Nat /\ Total(f, S) \in Nat
      /\ Total(f, T \ {x}) <= Total(f, S)
  BY <1>5, TotalMono
<1>7. g[x] = f[x] /\ f[x] \in Nat
  OBVIOUS
<1> HIDE DEF T, g
<1>8. Total(f, T) <= Total(f, S) + f[x]
  BY <1>3, <1>4, <1>6, <1>7
<1>9. QED
  BY <1>8 DEF T

\* A sum whose every term is another term of the other sum is no larger.
THEOREM TotalInject ==
  ASSUME NEW S, NEW T, IsFiniteSet(T), NEW m \in Injection(S, T),
         NEW f, NEW g, \A x \in S : g[m[x]] = f[x],
         \A y \in T : g[y] \in Nat
  PROVE  Total(f, S) <= Total(g, T)
<1> DEFINE h == [u \in Units(f, S) |-> <<m[u[1]], u[2]>>]
<1>1. \A u \in Units(f, S) : /\ u = <<u[1], u[2]>> /\ u[1] \in S
                             /\ u[2] \in 1 .. f[u[1]]
  BY DEF Units, UnitsOf
<1>2. m \in [S -> T] /\ \A x, y \in S : m[x] = m[y] => x = y
  BY DEF Injection, IsInjective
<1>3. \A y \in T : \A k \in 1 .. g[y] : <<y, k>> \in Units(g, T)
  BY DEF Units, UnitsOf
<1>4. \A u \in Units(f, S) : h[u] \in Units(g, T)
  <2> SUFFICES ASSUME NEW u \in Units(f, S) PROVE h[u] \in Units(g, T)
    OBVIOUS
  <2>1. m[u[1]] \in T /\ u[2] \in 1 .. g[m[u[1]]]
    BY <1>1, <1>2
  <2>2. QED
    BY <1>3, <2>1
<1>5. h \in [Units(f, S) -> Units(g, T)]
  BY <1>4
<1>6. \A u, v \in Units(f, S) : h[u] = h[v] => u = v
  BY <1>1, <1>2
<1>7. h \in Injection(Units(f, S), Units(g, T))
  BY <1>5, <1>6 DEF Injection, IsInjective
<1>8. IsFiniteSet(Units(g, T))
  BY UnitsFiniteOn
<1>9. Cardinality(Units(f, S)) <= Cardinality(Units(g, T))
  BY <1>7, <1>8, FS_Injection
<1>10. QED
  BY <1>9 DEF Total

\* A sum does not depend on what its elements are called.
THEOREM TotalRenamed ==
  ASSUME NEW S, IsFiniteSet(S), NEW T, IsFiniteSet(T), NEW m \in Bijection(S, T),
         NEW f \in [S -> Nat], NEW g \in [T -> Nat], \A x \in S : g[m[x]] = f[x]
  PROVE  Total(f, S) = Total(g, T)
<1>1. /\ m \in [S -> T] /\ \A x, y \in S : m[x] = m[y] => x = y
      /\ \A y \in T : \E x \in S : m[x] = y
  BY DEF Bijection, Injection, IsInjective, Surjection
<1> DEFINE w == [y \in T |-> CHOOSE x \in S : m[x] = y]
<1>2. \A y \in T : w[y] \in S /\ m[w[y]] = y
  BY <1>1
<1>3. m \in Injection(S, T)
  BY DEF Bijection
<1>4. w \in Injection(T, S)
  <2>1. w \in [T -> S]
    BY <1>2
  <2>2. \A y, z \in T : w[y] = w[z] => y = z
    BY <1>2
  <2> QED  BY <2>1, <2>2 DEF Injection, IsInjective
<1> HIDE DEF w
<1>5. \A y \in T : f[w[y]] = g[y]
  BY <1>2
<1>6. Total(f, S) <= Total(g, T)
  BY <1>3, TotalInject
<1>7. Total(g, T) <= Total(f, S)
  BY <1>4, <1>5, TotalInject
<1>8. Total(f, S) \in Nat /\ Total(g, T) \in Nat
  BY TotalNat
<1> QED  BY <1>6, <1>7, <1>8

-----------------------------------------------------------------------------
(* Products and groups.                                                    *)

\* The same number for every element.
THEOREM TotalConst ==
  ASSUME NEW S, IsFiniteSet(S), NEW c \in Nat, NEW f, \A x \in S : f[x] = c
  PROVE  Total(f, S) = Cardinality(S) * c
<1>1. Units(f, S) = S \X (1 .. c)
  BY DEF Units, UnitsOf
<1>2. IsFiniteSet(1 .. c) /\ Cardinality(1 .. c) = c
  <2>1. 1 \in Int /\ c \in Int
    OBVIOUS
  <2>2. QED
    BY <2>1, FS_Interval
<1>3. QED
  BY <1>1, <1>2, FS_Product DEF Total

\* A sum may be taken group by group: m tells the group of an element.
THEOREM TotalGrouped ==
  ASSUME NEW S, IsFiniteSet(S), NEW T, IsFiniteSet(T),
         NEW f \in [S -> Nat], NEW g \in [T -> Nat], NEW m \in [S -> T],
         \A y \in T : g[y] = Total(f, {x \in S : m[x] = y})
  PROVE  Total(g, T) = Total(f, S)
<1> DEFINE Of(y) == Units(f, {x \in S : m[x] = y})
           b == [y \in T |-> CHOOSE c : c \in Bijection(1 .. g[y], Of(y))]
           h == [u \in Units(g, T) |-> b[u[1]][u[2]]]
<1>1. \A y \in T : b[y] \in Bijection(1 .. g[y], Of(y))
  <2> SUFFICES ASSUME NEW y \in T PROVE b[y] \in Bijection(1 .. g[y], Of(y))
    OBVIOUS
  <2>1. PICK group : group = {x \in S : m[x] = y}
    OBVIOUS
  <2>2. IsFiniteSet(group) /\ \A x \in group : f[x] \in Nat
    BY <2>1, FS_Subset
  <2>3. IsFiniteSet(Units(f, group))
    BY <2>2, UnitsFiniteOn
  <2>4. Cardinality(Units(f, group)) = g[y]
    BY <2>1 DEF Total
  <2>5. ExistsBijection(1 .. g[y], Units(f, group))
    BY <2>3, <2>4, FS_CardinalityType
  <2>6. QED
    BY <2>1, <2>5 DEF ExistsBijection
<1>2. \A u \in Units(g, T) : u = <<u[1], u[2]>> /\ u[1] \in T /\ u[2] \in 1 .. g[u[1]]
  BY DEF Units, UnitsOf
<1>3. \A y \in T : \A v \in Of(y) : v[1] \in S /\ m[v[1]] = y /\ v \in Units(f, S)
  BY DEF Units, UnitsOf
<1>4. \A y \in T : \A i \in 1 .. g[y] : b[y][i] \in Of(y)
  <2> HIDE DEF b, Of
  <2> QED  BY <1>1 DEF Bijection, Injection
<1>5. h \in [Units(g, T) -> Units(f, S)]
  <2>1. \A u \in Units(g, T) : b[u[1]][u[2]] \in Units(f, S)
    <3> HIDE DEF b, Of
    <3> QED  BY <1>2, <1>3, <1>4
  <2>2. QED
    BY <2>1
<1>6. \A u, v \in Units(g, T) : h[u] = h[v] => u = v
  <2> SUFFICES ASSUME NEW u \in Units(g, T), NEW v \in Units(g, T), h[u] = h[v]
               PROVE  u = v
    OBVIOUS
  <2>1. /\ u = <<u[1], u[2]>> /\ u[1] \in T /\ u[2] \in 1 .. g[u[1]]
        /\ v = <<v[1], v[2]>> /\ v[1] \in T /\ v[2] \in 1 .. g[v[1]]
    BY <1>2
  <2>2. b[u[1]][u[2]] = b[v[1]][v[2]]
    OBVIOUS
  <2> HIDE DEF b, Of, h
  <2>3. u[1] = v[1]
    BY <1>3, <1>4, <2>1, <2>2
  <2>4. u[2] = v[2]
    BY <1>1, <2>1, <2>2, <2>3 DEF Bijection, Injection, IsInjective
  <2>5. QED
    BY <2>1, <2>3, <2>4
<1>7. \A w \in Units(f, S) : \E u \in Units(g, T) : h[u] = w
  <2> SUFFICES ASSUME NEW w \in Units(f, S)
               PROVE  \E u \in Units(g, T) : h[u] = w
    OBVIOUS
  <2>1. PICK x \in S : w \in UnitsOf(f, x)
    BY DEF Units
  <2>2. m[x] \in T /\ w \in Of(m[x])
    BY <2>1 DEF Units
  <2>3. PICK i \in 1 .. g[m[x]] : b[m[x]][i] = w
    <3> HIDE DEF b, Of
    <3> QED  BY <1>1, <2>2 DEF Bijection, Surjection
  <2>4. PICK u : u = <<m[x], i>>
    OBVIOUS
  <2>5. u \in Units(g, T) /\ u[1] = m[x] /\ u[2] = i
    BY <2>2, <2>4 DEF Units, UnitsOf
  <2>6. QED
    BY <2>3, <2>5
<1>8. ExistsBijection(Units(g, T), Units(f, S))
  <2> HIDE DEF h
  <2> QED  BY <1>5, <1>6, <1>7 DEF ExistsBijection, Bijection, Injection, IsInjective, Surjection
<1>9. QED
  BY <1>8, UnitsFinite, FS_Bijection DEF Total

-----------------------------------------------------------------------------
\* A bounded set of naturals has a largest element.
LEMMA LargestExists ==
  ASSUME NEW n \in Nat, NEW T \in SUBSET (0 .. n), T # {}
  PROVE  \E o \in T : \A p \in T : p <= o
<1> DEFINE Gaps == {n - o : o \in T}
<1>1. Gaps \subseteq Nat /\ Gaps # {}
  <2>1. PICK o \in T : TRUE
    OBVIOUS
  <2>2. n - o \in Gaps
    OBVIOUS
  <2>3. \A p \in T : n - p \in Nat
    OBVIOUS
  <2>4. QED
    BY <2>2, <2>3
<1>2. \E g \in Gaps : \A h \in Gaps : ~ (<<h, g>> \in OpToRel(<, Nat))
  <2> HIDE DEF Gaps
  <2> QED
    BY <1>1, NatLessThanWellFounded, WFMin
<1>3. PICK g \in Gaps : \A h \in Gaps : ~ (h < g)
  BY <1>1, <1>2 DEF OpToRel
<1>4. PICK o \in T : g = n - o
  OBVIOUS
<1>5. \A p \in T : p <= o
  BY <1>3, <1>4
<1>6. QED
  BY <1>5

-----------------------------------------------------------------------------
(* Prices.                                                                 *)

\* Buying m shares for a, or selling m for a, rounded against the caller,
\* does not lower the price A : S.
LEMMA BuyingHoldsPrice ==
  ASSUME NEW A \in Nat, NEW S \in Nat, NEW a \in Nat, NEW m \in Nat, m * A <= a * S
  PROVE  (A + a) * S >= A * (S + m)
<1>1. (A + a) * S = A * S + a * S /\ A * (S + m) = A * S + m * A
  OBVIOUS
<1>2. A * S \in Nat /\ a * S \in Nat /\ m * A \in Nat
  OBVIOUS
<1>3. QED
  BY <1>1, <1>2

LEMMA SellingHoldsPrice ==
  ASSUME NEW A \in Nat, NEW S \in Nat, NEW a \in Nat, NEW m \in Nat, a * S <= m * A
  PROVE  (A - a) * S >= A * (S - m)
<1>1. (A - a) * S = A * S - a * S /\ A * (S - m) = A * S - m * A
  OBVIOUS
<1>2. A * S \in Nat /\ a * S \in Nat /\ m * A \in Nat
  OBVIOUS
<1>3. QED
  BY <1>1, <1>2
=============================================================================
