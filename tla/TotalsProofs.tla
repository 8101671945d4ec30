---------------------------- MODULE TotalsProofs ----------------------------
(***************************************************************************)
(* Facts about sums of functions with natural values over finite sets:     *)
(* what changing a function does to its total.                             *)
(***************************************************************************)
EXTENDS Totals, FiniteSetTheorems, TLAPS

-----------------------------------------------------------------------------
(* Totals: what changing a function at one element does to its total.      *)

\* The units that the elements of A hand out.
UnitsIn(f, A) == UNION {UnitsOf(f, e) : e \in A}

\* An element holds as many units as the function gives it.
LEMMA UnitsOfSize ==
    ASSUME NEW f, NEW e, f[e] \in Nat
    PROVE  /\ IsFiniteSet(UnitsOf(f, e))
           /\ Cardinality(UnitsOf(f, e)) = f[e]
<1>1. IsFiniteSet({e}) /\ Cardinality({e}) = 1
    BY FS_Singleton
<1>2. IsFiniteSet(1..f[e]) /\ Cardinality(1..f[e]) = f[e]
    BY FS_Interval
<1>3. /\ IsFiniteSet({e} \X (1..f[e]))
      /\ Cardinality({e} \X (1..f[e])) = Cardinality({e}) * Cardinality(1..f[e])
    BY <1>1, <1>2, FS_Product
<1>4. QED
    BY <1>1, <1>2, <1>3 DEF UnitsOf

\* Finitely many elements hand out finitely many units.
LEMMA UnitsInFinite ==
    ASSUME NEW A, IsFiniteSet(A), NEW f, \A e \in A : f[e] \in Nat
    PROVE  IsFiniteSet(UnitsIn(f, A))
<1> DEFINE T == {UnitsOf(f, e) : e \in A}
           g == [e \in A |-> UnitsOf(f, e)]
<1>1. g \in Surjection(A, T)
    BY DEF Surjection
<1>2. IsFiniteSet(T)
    BY <1>1, FS_Surjection
<1>3. \A t \in T : IsFiniteSet(t)
    BY UnitsOfSize
<1>4. QED
    BY <1>2, <1>3, FS_UNION DEF UnitsIn

\* Setting one element aside: the total is its share and that of the others.
LEMMA TotalSplit ==
    ASSUME NEW A, IsFiniteSet(A), NEW f \in [A -> Nat], NEW e \in A
    PROVE  /\ IsFiniteSet(UnitsIn(f, A \ {e}))
           /\ Cardinality(UnitsIn(f, A \ {e})) \in Nat
           /\ Total(f) = Cardinality(UnitsIn(f, A \ {e})) + f[e]
<1> DEFINE Rest == UnitsIn(f, A \ {e})
           Own == UnitsOf(f, e)
<1>1. IsFiniteSet(Rest)
    <2>1. IsFiniteSet(A \ {e})
        BY FS_RemoveElement
    <2>2. QED
        BY <2>1, UnitsInFinite
<1>2. IsFiniteSet(Own) /\ Cardinality(Own) = f[e]
    BY UnitsOfSize
<1>3. Rest \cap Own = {}
    BY DEF UnitsIn, UnitsOf
<1>4. Units(f) = Rest \cup Own
    BY DEF Units, UnitsIn
<1>5. Cardinality(Rest \cap Own) = 0
    BY <1>3, FS_EmptySet
<1>6. Cardinality(Rest) \in Nat
    BY <1>1, FS_CardinalityType
<1>7. Cardinality(Rest \cup Own) =
          Cardinality(Rest) + Cardinality(Own) - Cardinality(Rest \cap Own)
    BY <1>1, <1>2, FS_Union
<1>8. QED
    BY <1>1, <1>2, <1>4, <1>5, <1>6, <1>7 DEF Total

\* A total is a natural number.
LEMMA TotalType ==
    ASSUME NEW A, IsFiniteSet(A), NEW f \in [A -> Nat]
    PROVE  Total(f) \in Nat
<1>1. Units(f) = UnitsIn(f, A)
    BY DEF Units, UnitsIn
<1>2. IsFiniteSet(UnitsIn(f, A))
    BY UnitsInFinite
<1>3. QED
    BY <1>1, <1>2, FS_CardinalityType DEF Total

\* The total of the function that is zero everywhere is zero.
LEMMA TotalZero ==
    ASSUME NEW A, NEW f, DOMAIN f = A, \A e \in A : f[e] = 0
    PROVE  Total(f) = 0
<1>1. Units(f) = {}
    BY DEF Units, UnitsOf
<1>2. QED
    BY <1>1, FS_EmptySet DEF Total

\* Functions that differ at one element at most differ in their totals by
\* what they give that element.
LEMMA TotalChange ==
    ASSUME NEW A, IsFiniteSet(A), NEW f \in [A -> Nat], NEW g \in [A -> Nat],
           NEW e \in A, \A x \in A \ {e} : g[x] = f[x]
    PROVE  Total(g) = Total(f) + g[e] - f[e]
<1>1. \A x \in A \ {e} : UnitsOf(g, x) = UnitsOf(f, x)
    BY DEF UnitsOf
<1>2. UnitsIn(g, A \ {e}) = UnitsIn(f, A \ {e})
    BY <1>1 DEF UnitsIn
<1>3. QED
    BY <1>2, TotalSplit

\* No element has more than the total.
LEMMA TotalAtLeastPart ==
    ASSUME NEW A, IsFiniteSet(A), NEW f \in [A -> Nat], NEW e \in A
    PROVE  f[e] <= Total(f)
<1> DEFINE rest == Cardinality(UnitsIn(f, A \ {e}))
<1>1. rest \in Nat /\ Total(f) = rest + f[e]
    BY TotalSplit
<1>2. f[e] \in Nat
    OBVIOUS
<1> HIDE DEF rest
<1>3. QED
    BY <1>1, <1>2

\* A function that gives no element more has no greater total.
LEMMA TotalMonotone ==
    ASSUME NEW A, IsFiniteSet(A), NEW f \in [A -> Nat], NEW g \in [A -> Nat],
           \A e \in A : f[e] <= g[e]
    PROVE  Total(f) <= Total(g)
<1>1. Units(f) = UnitsIn(f, A) /\ Units(g) = UnitsIn(g, A)
    BY DEF Units, UnitsIn
<1>2. \A e \in A : UnitsOf(f, e) \subseteq UnitsOf(g, e)
    BY DEF UnitsOf
<1>3. UnitsIn(f, A) \subseteq UnitsIn(g, A)
    BY <1>2 DEF UnitsIn
<1>4. IsFiniteSet(UnitsIn(g, A))
    BY UnitsInFinite
<1>5. QED
    BY <1>1, <1>3, <1>4, FS_Subset DEF Total

\* It has a smaller total if it gives some element less.
LEMMA TotalFalls ==
    ASSUME NEW A, IsFiniteSet(A), NEW f \in [A -> Nat], NEW g \in [A -> Nat],
           \A x \in A : f[x] <= g[x], NEW e \in A, f[e] < g[e]
    PROVE  Total(f) < Total(g)
<1> DEFINE h == [g EXCEPT ![e] = f[e]]
<1>1. h \in [A -> Nat] /\ h[e] = f[e] /\ \A x \in A \ {e} : h[x] = g[x]
    OBVIOUS
<1>2. \A x \in A : f[x] <= h[x]
    BY <1>1
<1> HIDE DEF h
<1>3. Total(f) <= Total(h)
    BY <1>1, <1>2, TotalMonotone
<1>4. Total(h) = Total(g) + h[e] - g[e]
    BY <1>1, TotalChange
<1>5. /\ Total(f) \in Nat /\ Total(g) \in Nat /\ Total(h) \in Nat
      /\ f[e] \in Nat /\ g[e] \in Nat
    BY <1>1, TotalType
<1>6. QED
    BY <1>1, <1>3, <1>4, <1>5
=============================================================================
