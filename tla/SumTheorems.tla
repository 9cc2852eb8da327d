----------------------------- MODULE SumTheorems -----------------------------
(***************************************************************************)
(* Facts about MapThenSumSet of FiniteSetsExt, with which the models of    *)
(* the contracts add up balances and books.  They are stated for functions *)
(* instead of operators, as Total(f, S), and proved from the definition of *)
(* the fold.  Induction over finite sets is by a minimal counterexample,   *)
(* as strict inclusion of finite sets is well founded.                     *)
(***************************************************************************)
EXTENDS Naturals, FiniteSetsExt, FiniteSetTheorems, TLAPS

\* The sum of f over S.
Total(f, S) == MapThenSumSet(LAMBDA x : f[x], S)

\* The element a fold takes first.
Pick(s) == CHOOSE x \in s : TRUE

\* The step of the fold behind Total, from the sums over smaller sets.
Step(f, g, s) == IF s = {} THEN 0 ELSE f[Pick(s)] + g[s \ {Pick(s)}]

\* g is the table of the sums of f over the subsets of S.
Table(f, S, g) == g = [s \in SUBSET S |-> Step(f, g, s)]

-----------------------------------------------------------------------------
(* Induction over finite sets *)

\* A nonempty family of finite sets has a member none of whose strict subsets
\* is in the family.
LEMMA MinimalSet ==
  ASSUME NEW S, IsFiniteSet(S), NEW F, F \subseteq SUBSET S, F # {}
  PROVE  \E s \in F : \A u \in F : ~(u \subseteq s /\ u # s)
<1>1. IsWellFoundedOn(StrictSubsetOrdering(S), SUBSET S)
  BY FS_StrictSubsetOrderingWellFounded, FS_FiniteSubsetsOfFinite
<1>2. \E s \in F : \A u \in F : <<u, s>> \notin StrictSubsetOrdering(S)
  BY <1>1, WFMin
<1>3. PICK s \in F : \A u \in F : <<u, s>> \notin StrictSubsetOrdering(S)
  BY <1>2
<1>4. ASSUME NEW u \in F, u \subseteq s, u # s PROVE FALSE
  <2>1. u \in SUBSET S /\ s \in SUBSET S
    BY <1>3
  <2>2. <<u, s>> \in StrictSubsetOrdering(S)
    BY <2>1, <1>4 DEF StrictSubsetOrdering
  <2>3. QED
    BY <1>3, <2>2
<1>5. QED
  BY <1>3, <1>4

\* A nonempty set of natural numbers has a least element.
LEMMA LeastNatural ==
  ASSUME NEW T, T \subseteq Nat, T # {}
  PROVE  \E n \in T : \A m \in T : n <= m
<1>1. PICK b \in T : TRUE
  OBVIOUS
<1> DEFINE D == 0..b
<1> DEFINE F == {0..k : k \in {j \in T : j <= b}}
<1>2. IsFiniteSet(D) /\ F \subseteq SUBSET D /\ F # {}
  <2>1. IsFiniteSet(0..b)
    BY <1>1, FS_Interval
  <2>2. 0..b \in F
    BY <1>1
  <2>3. ASSUME NEW k \in T, k <= b PROVE 0..k \subseteq 0..b
    BY <2>3, <1>1
  <2>4. QED
    BY <2>1, <2>2, <2>3
<1>3. PICK s \in F : \A u \in F : ~(u \subseteq s /\ u # s)
  <2> HIDE DEF D, F
  <2>1. QED
    BY <1>2, MinimalSet
<1>4. PICK k \in T : k <= b /\ s = 0..k
  BY <1>3
<1>5. ASSUME NEW m \in T, m < k PROVE FALSE
  <2>1. 0..m \in F
    BY <1>1, <1>4, <1>5
  <2>2. 0..m \subseteq s /\ 0..m # s
    <3>1. k \in 0..k /\ k \notin 0..m
      BY <1>4, <1>5
    <3>2. 0..m \subseteq 0..k
      BY <1>4, <1>5
    <3>3. QED
      BY <3>1, <3>2, <1>4
  <2>3. QED
    BY <2>1, <2>2, <1>3
<1>6. QED
  BY <1>4, <1>5

-----------------------------------------------------------------------------
(* The table of sums *)

\* The fold is the last entry of a table, if there is one.
LEMMA TotalIsChosen ==
  ASSUME NEW f, NEW S
  PROVE  Total(f, S) = (CHOOSE g : Table(f, S, g))[S]
BY DEF Total, MapThenSumSet, MapThenFoldSet, Table, Step, Pick

LEMMA PickIn == ASSUME NEW s, s # {} PROVE Pick(s) \in s
BY DEF Pick

\* The sets up to a number of elements.
UpTo(S, n) == {s \in SUBSET S : Cardinality(s) <= n}

\* A table of the subsets with at most n elements.
TableUpTo(f, S, n, g) == g = [s \in UpTo(S, n) |-> Step(f, g, s)]

LEMMA SmallerSet ==
  ASSUME NEW S, IsFiniteSet(S), NEW s \in SUBSET S, s # {}
  PROVE  /\ s \ {Pick(s)} \in SUBSET S
         /\ Cardinality(s) \in Nat \ {0}
         /\ Cardinality(s \ {Pick(s)}) = Cardinality(s) - 1
<1>1. IsFiniteSet(s)
  BY FS_Subset
<1>2. Pick(s) \in s
  BY PickIn
<1>3. Cardinality(s) \in Nat /\ Cardinality(s) # 0
  BY <1>1, FS_CardinalityType, FS_EmptySet
<1>4. Cardinality(s \ {Pick(s)}) = Cardinality(s) - 1
  BY <1>1, <1>2, FS_RemoveElement
<1>5. QED
  BY <1>3, <1>4

\* From a table for n elements to one for n + 1.
LEMMA TableGrows ==
  ASSUME NEW f, NEW S, IsFiniteSet(S), NEW n \in Nat, NEW g, TableUpTo(f, S, n, g)
  PROVE  \E h : TableUpTo(f, S, n + 1, h)
<1> DEFINE h == [s \in UpTo(S, n + 1) |-> Step(f, g, s)]
<1>1. ASSUME NEW s \in UpTo(S, n) PROVE h[s] = g[s]
  <2>1. s \in UpTo(S, n + 1)
    <3>1. Cardinality(s) \in Nat
      BY FS_Subset, FS_CardinalityType DEF UpTo
    <3>2. QED
      BY <3>1 DEF UpTo
  <2>2. g[s] = Step(f, g, s)
    BY DEF TableUpTo
  <2>3. QED
    BY <2>1, <2>2
<1>2. ASSUME NEW s \in UpTo(S, n + 1) PROVE Step(f, g, s) = Step(f, h, s)
  <2>1. CASE s = {}
    BY <2>1 DEF Step
  <2>2. CASE s # {}
    <3>1. s \ {Pick(s)} \in UpTo(S, n)
      BY <2>2, SmallerSet DEF UpTo
    <3>2. QED
      BY <3>1, <1>1, <2>2 DEF Step
  <2>3. QED
    BY <2>1, <2>2
<1>3. h = [s \in UpTo(S, n + 1) |-> Step(f, h, s)]
  BY <1>2
<1>4. QED
  BY <1>3 DEF TableUpTo

\* There is a table, so the fold is what it is meant to be.
LEMMA TableExists ==
  ASSUME NEW f, NEW S, IsFiniteSet(S)
  PROVE  \E g : Table(f, S, g)
<1> DEFINE Bad == {n \in Nat : ~ \E g : TableUpTo(f, S, n, g)}
<1>1. Bad = {}
  <2>1. SUFFICES ASSUME Bad # {} PROVE FALSE
    OBVIOUS
  <2>2. PICK n \in Bad : \A m \in Bad : n <= m
    BY <2>1, LeastNatural
  <2>3. n # 0
    <3>1. UpTo(S, 0) = {{}}
      <4>1. ASSUME NEW s \in SUBSET S PROVE Cardinality(s) <= 0 <=> s = {}
        BY FS_Subset, FS_CardinalityType, FS_EmptySet
      <4>2. QED
        BY <4>1 DEF UpTo
    <3>2. TableUpTo(f, S, 0, [s \in {{}} |-> 0])
      BY <3>1 DEF TableUpTo, Step
    <3>3. QED
      BY <3>2, <2>2
  <2>4. n - 1 \in Nat /\ n - 1 \notin Bad
    BY <2>2, <2>3
  <2>5. PICK g : TableUpTo(f, S, n - 1, g)
    BY <2>4
  <2>6. \E h : TableUpTo(f, S, n - 1 + 1, h)
    BY <2>4, <2>5, TableGrows
  <2>7. QED
    BY <2>2, <2>6
<1>2. Cardinality(S) \in Nat
  BY FS_CardinalityType
<1>3. UpTo(S, Cardinality(S)) = SUBSET S
  BY FS_Subset, FS_CardinalityType DEF UpTo
<1>4. PICK g : TableUpTo(f, S, Cardinality(S), g)
  BY <1>1, <1>2
<1>5. QED
  BY <1>3, <1>4 DEF TableUpTo, Table

\* What the table says of a subset.
LEMMA TableEntry ==
  ASSUME NEW f, NEW S, NEW g, Table(f, S, g), NEW s \in SUBSET S
  PROVE  g[s] = Step(f, g, s)
BY DEF Table

\* Tables agree where they overlap.
LEMMA TablesAgree ==
  ASSUME NEW f, NEW S, IsFiniteSet(S), NEW T \in SUBSET S,
         NEW g, Table(f, S, g), NEW h, Table(f, T, h)
  PROVE  g[T] = h[T]
<1> DEFINE Bad == {s \in SUBSET T : g[s] # h[s]}
<1>1. SUFFICES ASSUME Bad # {} PROVE FALSE
  OBVIOUS
<1>2. IsFiniteSet(T)
  BY FS_Subset
<1>3. PICK s \in Bad : \A u \in Bad : ~(u \subseteq s /\ u # s)
  <2>1. Bad \subseteq SUBSET T
    OBVIOUS
  <2> HIDE DEF Bad
  <2>2. QED
    BY <1>1, <1>2, <2>1, MinimalSet
<1>4. g[s] = Step(f, g, s) /\ h[s] = Step(f, h, s)
  BY <1>3, TableEntry
<1>5. CASE s = {}
  BY <1>3, <1>4, <1>5 DEF Step
<1>6. CASE s # {}
  <2>1. Pick(s) \in s
    BY <1>6, PickIn
  <2>2. s \ {Pick(s)} \in SUBSET T /\ s \ {Pick(s)} \notin Bad
    BY <1>3, <2>1
  <2>3. g[s \ {Pick(s)}] = h[s \ {Pick(s)}]
    BY <2>2
  <2>4. QED
    BY <1>3, <1>4, <1>6, <2>3 DEF Step
<1>7. QED
  BY <1>5, <1>6

\* The total over every subset is in the table of the whole.
LEMMA TotalInTable ==
  ASSUME NEW f, NEW S, IsFiniteSet(S)
  PROVE  \E g : Table(f, S, g) /\ \A T \in SUBSET S : Total(f, T) = g[T]
<1>1. PICK g : Table(f, S, g)
  BY TableExists
<1>2. ASSUME NEW T \in SUBSET S PROVE Total(f, T) = g[T]
  <2>1. IsFiniteSet(T)
    BY FS_Subset
  <2>2. Table(f, T, CHOOSE h : Table(f, T, h))
    BY <2>1, TableExists
  <2>3. g[T] = (CHOOSE h : Table(f, T, h))[T]
    BY <1>1, <2>2, TablesAgree
  <2>4. QED
    BY <2>3, TotalIsChosen
<1>3. QED
  BY <1>1, <1>2

-----------------------------------------------------------------------------
(* What the proofs about the models cite *)

LEMMA TotalEmpty == ASSUME NEW f PROVE Total(f, {}) = 0
<1>1. IsFiniteSet({})
  BY FS_EmptySet
<1>2. PICK g : Table(f, {}, g) /\ Total(f, {}) = g[{}]
  BY <1>1, TotalInTable
<1>3. g[{}] = Step(f, g, {})
  BY <1>2, TableEntry
<1>4. QED
  BY <1>2, <1>3 DEF Step

\* The defining equation of the sum.
LEMMA TotalPick ==
  ASSUME NEW f, NEW S, IsFiniteSet(S), S # {}
  PROVE  Total(f, S) = f[Pick(S)] + Total(f, S \ {Pick(S)})
<1>1. PICK g : Table(f, S, g) /\ \A T \in SUBSET S : Total(f, T) = g[T]
  BY TotalInTable
<1>2. g[S] = Step(f, g, S)
  BY <1>1, TableEntry
<1>3. QED
  BY <1>1, <1>2 DEF Step

\* A sum of naturals is a natural number.
LEMMA TotalType ==
  ASSUME NEW f, NEW S, IsFiniteSet(S), \A x \in S : f[x] \in Nat
  PROVE  Total(f, S) \in Nat
<1> DEFINE Bad == {s \in SUBSET S : Total(f, s) \notin Nat}
<1>1. SUFFICES ASSUME Bad # {} PROVE FALSE
  OBVIOUS
<1>2. PICK s \in Bad : \A u \in Bad : ~(u \subseteq s /\ u # s)
  <2>1. Bad \subseteq SUBSET S
    OBVIOUS
  <2> HIDE DEF Bad
  <2>2. QED
    BY <1>1, <2>1, MinimalSet
<1>3. s # {}
  <2>1. Total(f, s) \notin Nat
    BY <1>2
  <2>2. QED
    BY <2>1, TotalEmpty
<1>4. Pick(s) \in s /\ IsFiniteSet(s)
  BY <1>3, PickIn, FS_Subset
<1>5. Total(f, s \ {Pick(s)}) \in Nat
  BY <1>2, <1>4
<1>6. Total(f, s) = f[Pick(s)] + Total(f, s \ {Pick(s)})
  BY <1>3, <1>4, TotalPick
<1>7. QED
  BY <1>2, <1>4, <1>5, <1>6

\* The order of summation does not matter.
LEMMA TotalRemove ==
  ASSUME NEW f, NEW S, IsFiniteSet(S), \A x \in S : f[x] \in Nat, NEW x \in S
  PROVE  Total(f, S) = f[x] + Total(f, S \ {x})
<1> DEFINE Bad == {s \in SUBSET S : \E y \in s : Total(f, s) # f[y] + Total(f, s \ {y})}
<1>1. SUFFICES ASSUME Bad # {} PROVE FALSE
  BY DEF Bad
<1>2. PICK s \in Bad : \A u \in Bad : ~(u \subseteq s /\ u # s)
  <2>1. Bad \subseteq SUBSET S
    OBVIOUS
  <2> HIDE DEF Bad
  <2>2. QED
    BY <1>1, <2>1, MinimalSet
<1>3. PICK y \in s : Total(f, s) # f[y] + Total(f, s \ {y})
  BY <1>2
<1> DEFINE p == Pick(s)
<1>4. p \in s /\ IsFiniteSet(s)
  BY <1>2, <1>3, PickIn, FS_Subset
<1>5. Total(f, s) = f[p] + Total(f, s \ {p})
  BY <1>3, <1>4, TotalPick
<1>6. y # p
  BY <1>3, <1>5
<1>7. Total(f, s \ {p}) = f[y] + Total(f, (s \ {p}) \ {y})
  <2>1. s \ {p} \notin Bad /\ y \in s \ {p} /\ s \ {p} \in SUBSET S
    BY <1>2, <1>4, <1>3, <1>6
  <2>2. QED
    BY <2>1
<1>8. Total(f, s \ {y}) = f[p] + Total(f, (s \ {y}) \ {p})
  <2>1. s \ {y} \notin Bad /\ p \in s \ {y} /\ s \ {y} \in SUBSET S
    BY <1>2, <1>4, <1>3, <1>6
  <2>2. QED
    BY <2>1
<1>9. (s \ {p}) \ {y} = (s \ {y}) \ {p}
  OBVIOUS
<1>10. /\ f[p] \in Nat /\ f[y] \in Nat
       /\ Total(f, (s \ {y}) \ {p}) \in Nat
  <2>1. IsFiniteSet((s \ {y}) \ {p})
    BY <1>4, FS_Subset
  <2>2. \A z \in (s \ {y}) \ {p} : f[z] \in Nat
    BY <1>2
  <2>3. QED
    BY <2>1, <2>2, <1>2, <1>3, <1>4, TotalType
<1>11. QED
  BY <1>3, <1>5, <1>7, <1>8, <1>9, <1>10

\* Sums of functions that agree on the set are equal.
LEMMA TotalCongruence ==
  ASSUME NEW f, NEW g, NEW S, IsFiniteSet(S), \A x \in S : f[x] = g[x]
  PROVE  Total(f, S) = Total(g, S)
<1>1. PICK t : Table(f, S, t) /\ \A T \in SUBSET S : Total(f, T) = t[T]
  BY TotalInTable
<1>2. PICK u : Table(g, S, u) /\ \A T \in SUBSET S : Total(g, T) = u[T]
  BY TotalInTable
<1>3. Table(g, S, t)
  <2>1. ASSUME NEW s \in SUBSET S PROVE Step(f, t, s) = Step(g, t, s)
    <3>1. s # {} => Pick(s) \in S
      BY PickIn
    <3>2. QED
      BY <3>1 DEF Step
  <2>2. QED
    BY <1>1, <2>1 DEF Table
<1>4. t[S] = u[S]
  BY <1>2, <1>3, TablesAgree
<1>5. QED
  BY <1>1, <1>2, <1>4

\* One summand changes.
LEMMA TotalChange ==
  ASSUME NEW f, NEW g, NEW S, IsFiniteSet(S), NEW x \in S,
         \A y \in S : f[y] \in Nat, g[x] \in Nat,
         \A y \in S \ {x} : g[y] = f[y]
  PROVE  Total(g, S) + f[x] = Total(f, S) + g[x]
<1> DEFINE R == S \ {x}
<1>1. IsFiniteSet(R)
  BY FS_Subset
<1>2. Total(g, R) = Total(f, R)
  BY <1>1, TotalCongruence
<1>3. Total(f, S) = f[x] + Total(f, R)
  BY TotalRemove
<1>4. Total(g, S) = g[x] + Total(g, R)
  BY TotalRemove
<1>5. Total(f, R) \in Nat
  BY <1>1, TotalType
<1>6. QED
  BY <1>2, <1>3, <1>4, <1>5

\* Two summands change.
LEMMA TotalChangeTwo ==
  ASSUME NEW f, NEW g, NEW S, IsFiniteSet(S), NEW x \in S, NEW y \in S, x # y,
         \A z \in S : f[z] \in Nat, g[x] \in Nat, g[y] \in Nat,
         \A z \in S \ {x, y} : g[z] = f[z]
  PROVE  Total(g, S) + f[x] + f[y] = Total(f, S) + g[x] + g[y]
<1> DEFINE R == S \ {x}
<1>1. IsFiniteSet(R) /\ y \in R
  BY FS_Subset
<1>2. Total(g, R) + f[y] = Total(f, R) + g[y]
  <2>1. \A z \in R \ {y} : g[z] = f[z]
    OBVIOUS
  <2>2. \A z \in R : f[z] \in Nat
    OBVIOUS
  <2> HIDE DEF R
  <2>3. QED
    BY <1>1, <2>1, <2>2, TotalChange
<1>3. Total(f, S) = f[x] + Total(f, R)
  BY TotalRemove
<1>4. \A z \in S : g[z] \in Nat
  OBVIOUS
<1>5. Total(g, S) = g[x] + Total(g, R)
  BY <1>4, TotalRemove
<1>6. Total(f, R) \in Nat /\ Total(g, R) \in Nat
  <2>1. \A z \in R : f[z] \in Nat /\ g[z] \in Nat
    BY <1>4
  <2> HIDE DEF R
  <2>2. QED
    BY <1>1, <2>1, TotalType
<1>7. QED
  BY <1>2, <1>3, <1>5, <1>6

\* A sum of zeros is zero.
LEMMA TotalZero ==
  ASSUME NEW f, NEW S, IsFiniteSet(S), \A x \in S : f[x] = 0
  PROVE  Total(f, S) = 0
<1> DEFINE Bad == {s \in SUBSET S : Total(f, s) # 0}
<1>1. SUFFICES ASSUME Bad # {} PROVE FALSE
  OBVIOUS
<1>2. PICK s \in Bad : \A u \in Bad : ~(u \subseteq s /\ u # s)
  <2>1. Bad \subseteq SUBSET S
    OBVIOUS
  <2> HIDE DEF Bad
  <2>2. QED
    BY <1>1, <2>1, MinimalSet
<1>3. s # {}
  <2>1. Total(f, s) # 0
    BY <1>2
  <2>2. QED
    BY <2>1, TotalEmpty
<1>4. Pick(s) \in s /\ IsFiniteSet(s)
  BY <1>3, PickIn, FS_Subset
<1>5. Total(f, s \ {Pick(s)}) = 0
  BY <1>2, <1>4
<1>6. Total(f, s) = f[Pick(s)] + Total(f, s \ {Pick(s)})
  BY <1>3, <1>4, TotalPick
<1>7. QED
  BY <1>2, <1>4, <1>5, <1>6

\* Nothing outside a part means that the part is all.
LEMMA TotalPart ==
  ASSUME NEW f, NEW S, IsFiniteSet(S), NEW T \in SUBSET S,
         \A x \in S : f[x] \in Nat, \A x \in S \ T : f[x] = 0
  PROVE  Total(f, T) = Total(f, S)
<1> DEFINE Bad == {s \in SUBSET S : T \subseteq s /\ Total(f, s) # Total(f, T)}
<1>1. SUFFICES ASSUME Bad # {} PROVE FALSE
  OBVIOUS
<1>2. PICK s \in Bad : \A u \in Bad : ~(u \subseteq s /\ u # s)
  <2>1. Bad \subseteq SUBSET S
    OBVIOUS
  <2> HIDE DEF Bad
  <2>2. QED
    BY <1>1, <2>1, MinimalSet
<1>3. PICK x \in s : x \notin T
  <2>1. s # T /\ T \subseteq s
    BY <1>2
  <2>2. QED
    BY <2>1
<1>4. s \ {x} \notin Bad /\ T \subseteq s \ {x} /\ s \ {x} \in SUBSET S
  BY <1>2, <1>3
<1>5. Total(f, s \ {x}) = Total(f, T)
  BY <1>4
<1>6. IsFiniteSet(s) /\ \A y \in s : f[y] \in Nat
  BY <1>2, FS_Subset
<1>7. Total(f, s) = f[x] + Total(f, s \ {x})
  BY <1>6, TotalRemove
<1>8. Total(f, T) \in Nat
  BY FS_Subset, TotalType
<1>9. QED
  BY <1>2, <1>3, <1>5, <1>7, <1>8

\* No part exceeds the whole.
LEMMA TotalMonotonic ==
  ASSUME NEW f, NEW S, IsFiniteSet(S), \A x \in S : f[x] \in Nat, NEW T \in SUBSET S
  PROVE  Total(f, T) <= Total(f, S)
<1> DEFINE Bad == {s \in SUBSET S : T \subseteq s /\ ~(Total(f, T) <= Total(f, s))}
<1>1. SUFFICES ASSUME Bad # {} PROVE FALSE
  OBVIOUS
<1>2. PICK s \in Bad : \A u \in Bad : ~(u \subseteq s /\ u # s)
  <2>1. Bad \subseteq SUBSET S
    OBVIOUS
  <2> HIDE DEF Bad
  <2>2. QED
    BY <1>1, <2>1, MinimalSet
<1>3. Total(f, T) \in Nat
  BY FS_Subset, TotalType
<1>4. PICK x \in s : x \notin T
  <2>1. T \subseteq s /\ ~(Total(f, T) <= Total(f, s))
    BY <1>2
  <2>2. s # T
    BY <2>1, <1>3
  <2>3. QED
    BY <2>1, <2>2
<1>5. s \ {x} \notin Bad /\ T \subseteq s \ {x} /\ s \ {x} \in SUBSET S
  BY <1>2, <1>4
<1>6. Total(f, T) <= Total(f, s \ {x})
  BY <1>5
<1>7. IsFiniteSet(s) /\ \A y \in s : f[y] \in Nat
  BY <1>2, FS_Subset
<1>8. Total(f, s) = f[x] + Total(f, s \ {x})
  BY <1>7, TotalRemove
<1>9. Total(f, s \ {x}) \in Nat
  <2>1. IsFiniteSet(s \ {x}) /\ \A y \in s \ {x} : f[y] \in Nat
    BY <1>7, FS_Subset
  <2>2. QED
    BY <2>1, TotalType
<1>10. QED
  BY <1>2, <1>3, <1>4, <1>6, <1>7, <1>8, <1>9

\* No summand exceeds the sum.
LEMMA TotalAtLeast ==
  ASSUME NEW f, NEW S, IsFiniteSet(S), \A x \in S : f[x] \in Nat, NEW x \in S
  PROVE  f[x] <= Total(f, S)
<1>1. Total(f, S) = f[x] + Total(f, S \ {x})
  BY TotalRemove
<1>2. IsFiniteSet(S \ {x}) /\ \A y \in S \ {x} : f[y] \in Nat
  BY FS_Subset
<1>3. Total(f, S \ {x}) \in Nat
  BY <1>2, TotalType
<1>4. QED
  BY <1>1, <1>3

\* Summing over the places of a list without repetitions is summing over what
\* is in it.
LEMMA TotalImage ==
  ASSUME NEW f, NEW p, NEW S, IsFiniteSet(S),
         \A x, y \in S : p[x] = p[y] => x = y,
         \A x \in S : f[p[x]] \in Nat
  PROVE  Total([x \in S |-> f[p[x]]], S) = Total(f, {p[x] : x \in S})
<1> DEFINE g == [x \in S |-> f[p[x]]]
           Bad == {s \in SUBSET S : Total(g, s) # Total(f, {p[x] : x \in s})}
<1>1. SUFFICES ASSUME Bad # {} PROVE FALSE
  OBVIOUS
<1>2. PICK s \in Bad : \A u \in Bad : ~(u \subseteq s /\ u # s)
  <2>1. Bad \subseteq SUBSET S
    OBVIOUS
  <2> HIDE DEF Bad
  <2>2. QED
    BY <1>1, <2>1, MinimalSet
<1> DEFINE Img(t) == {p[x] : x \in t}
<1>3. Total(g, s) # Total(f, Img(s))
  BY <1>2
<1>4. s # {}
  <2>1. Img({}) = {}
    OBVIOUS
  <2> HIDE DEF g, Img
  <2>2. QED
    BY <1>3, <2>1, TotalEmpty
<1>5. PICK x \in s : TRUE
  BY <1>4
<1>6. Total(g, s \ {x}) = Total(f, Img(s \ {x}))
  <2>1. s \ {x} \in SUBSET S /\ s \ {x} \notin Bad
    BY <1>2, <1>5
  <2>2. QED
    BY <2>1
<1>7. IsFiniteSet(s)
  BY <1>2, FS_Subset
<1>8. \A y \in s : g[y] = f[p[y]] /\ g[y] \in Nat
  BY <1>2
<1>9. Total(g, s) = g[x] + Total(g, s \ {x})
  <2> HIDE DEF g, Img
  <2>1. QED
    BY <1>7, <1>8, TotalRemove
<1>10. IsFiniteSet(Img(s))
  <2>1. [z \in s |-> p[z]] \in Surjection(s, Img(s))
    BY DEF Surjection
  <2>2. QED
    BY <1>7, <2>1, FS_Surjection
<1>11. p[x] \in Img(s) /\ Img(s) \ {p[x]} = Img(s \ {x})
  BY <1>2, <1>5
<1>12. \A z \in Img(s) : f[z] \in Nat
  BY <1>2
<1>13. Total(f, Img(s)) = f[p[x]] + Total(f, Img(s \ {x}))
  <2> HIDE DEF g, Img
  <2>1. Total(f, Img(s)) = f[p[x]] + Total(f, Img(s) \ {p[x]})
    BY <1>10, <1>11, <1>12, TotalRemove
  <2>2. QED
    BY <2>1, <1>11
<1>14. QED
  BY <1>3, <1>5, <1>6, <1>8, <1>9, <1>13

=============================================================================
