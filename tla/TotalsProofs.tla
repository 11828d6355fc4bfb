----------------------------- MODULE TotalsProofs -----------------------------
(* What a sum over a finite set is, whatever the order in which it adds: its *)
(* type, a member split off, an update of one part; and what follows for     *)
(* totals.  Induction over finite sets is on a smallest counterexample.      *)
EXTENDS Totals, FiniteSetTheorems, TLAPS

\* The element that Sum adds first, and the equation of its partial sums.
First(s) == CHOOSE x \in s : TRUE
Iterates(S, f, g) ==
  g = [s \in SUBSET S |-> IF s = {} THEN 0 ELSE f[First(s)] + g[s \ {First(s)}]]

LEMMA SumIterates ==
  ASSUME NEW S, NEW f
  PROVE  Sum(S, f) = (CHOOSE g : Iterates(S, f, g))[S]
BY DEF Sum, MapThenSumSet, MapThenFoldSet, Iterates, First

\* A non-empty family of finite sets has a smallest member.
LEMMA SmallestSet ==
  ASSUME NEW S, IsFiniteSet(S), NEW F, F \subseteq SUBSET S, F # {}
  PROVE  \E T \in F : \A U \in F : U \subseteq T => U = T
<1>1. IsWellFoundedOn(StrictSubsetOrdering(S), SUBSET S)
  BY FS_StrictSubsetOrderingWellFounded, FS_FiniteSubsetsOfFinite
<1>2. PICK T \in F : \A U \in F : << U, T >> \notin StrictSubsetOrdering(S)
  BY <1>1, WFMin
<1>3. ASSUME NEW U \in F, U \subseteq T PROVE U = T
  BY <1>2, <1>3 DEF StrictSubsetOrdering
<1> QED
  BY <1>3

\* Two such equations have the same solution where both have one.
LEMMA IteratesSame ==
  ASSUME NEW S, IsFiniteSet(S), NEW T, NEW f, NEW g, NEW h,
         Iterates(S, f, g), Iterates(T, f, h), NEW U, U \subseteq S, U \subseteq T
  PROVE  g[U] = h[U]
<1> DEFINE Bad == {V \in SUBSET U : g[V] # h[V]}
<1>1. SUFFICES ASSUME Bad # {} PROVE FALSE
  OBVIOUS
<1>2. IsFiniteSet(U)
  BY FS_Subset
<1>3. PICK V \in Bad : \A W \in Bad : W \subseteq V => W = V
  <2>1. Bad \subseteq SUBSET U
    OBVIOUS
  <2> HIDE DEF Bad
  <2> QED
    BY <1>1, <1>2, <2>1, SmallestSet
<1>4. V # {}
  BY <1>3 DEF Iterates
<1> DEFINE x == First(V)
<1>5. x \in V
  BY <1>4 DEF First
<1>6. g[V \ {x}] = h[V \ {x}]
  BY <1>3, <1>5
<1>7. g[V] = f[x] + g[V \ {x}] /\ h[V] = f[x] + h[V \ {x}]
  BY <1>3, <1>4 DEF Iterates
<1> QED
  BY <1>3, <1>6, <1>7

LEMMA SumOfSolution ==
  ASSUME NEW S, IsFiniteSet(S), NEW f, NEW g, Iterates(S, f, g), NEW T, T \subseteq S,
         NEW h, Iterates(T, f, h)
  PROVE  Sum(T, f) = g[T]
<1>1. PICK c : c = CHOOSE k : Iterates(T, f, k)
  OBVIOUS
<1>2. Iterates(T, f, c)
  BY <1>1
<1>3. g[T] = c[T]
  BY <1>2, IteratesSame
<1> QED
  BY <1>1, <1>3, SumIterates

\* The equation has a solution over every finite set.
LEMMA SolutionExists ==
  ASSUME NEW S, IsFiniteSet(S), NEW f
  PROVE  \E g : Iterates(S, f, g)
<1> DEFINE Bad == {T \in SUBSET S : ~ \E g : Iterates(T, f, g)}
<1>1. SUFFICES ASSUME Bad # {} PROVE FALSE
  OBVIOUS
<1>2. PICK T \in Bad : \A U \in Bad : U \subseteq T => U = T
  <2>1. Bad \subseteq SUBSET S
    OBVIOUS
  <2> HIDE DEF Bad
  <2> QED
    BY <1>1, <2>1, SmallestSet
<1> DEFINE h == [s \in SUBSET T |-> IF s = {} THEN 0
                   ELSE f[First(s)] + Sum(s \ {First(s)}, f)]
<1>3. ASSUME NEW U \in SUBSET T, U # T PROVE h[U] = Sum(U, f)
  <2>1. PICK g : Iterates(U, f, g)
    BY <1>2, <1>3
  <2>2. IsFiniteSet(U)
    BY FS_Subset
  <2>3. Sum(U, f) = g[U]
    BY <2>1, <2>2, SumOfSolution
  <2>4. CASE U = {}
    BY <2>1, <2>3, <2>4 DEF Iterates
  <2>5. CASE U # {}
    <3> DEFINE V == U \ {First(U)}
    <3>1. First(U) \in U
      BY <2>5 DEF First
    <3>2. V \subseteq T /\ V # T /\ V \subseteq U
      BY <3>1
    <3>3. PICK k : Iterates(V, f, k)
      BY <1>2, <3>2
    <3>4. Sum(V, f) = g[V]
      BY <2>1, <2>2, <3>2, <3>3, SumOfSolution
    <3>5. g[U] = f[First(U)] + g[V]
      BY <2>1, <2>5 DEF Iterates
    <3>6. h[U] = f[First(U)] + Sum(V, f)
      BY <2>5
    <3> QED
      BY <2>3, <3>4, <3>5, <3>6
  <2> QED
    BY <2>4, <2>5
<1>4. ASSUME NEW s \in SUBSET T, s # {}
      PROVE  h[s \ {First(s)}] = Sum(s \ {First(s)}, f)
  <2>1. First(s) \in s
    BY <1>4 DEF First
  <2>2. s \ {First(s)} # T /\ s \ {First(s)} \in SUBSET T
    BY <2>1
  <2> HIDE DEF h
  <2> QED
    BY <1>3, <2>2
<1>5. \A s \in SUBSET T : h[s] = IF s = {} THEN 0 ELSE f[First(s)] + h[s \ {First(s)}]
  <2>1. TAKE s \in SUBSET T
  <2>2. h[s] = IF s = {} THEN 0 ELSE f[First(s)] + Sum(s \ {First(s)}, f)
    OBVIOUS
  <2> HIDE DEF h
  <2> QED
    BY <1>4, <2>2
<1>6. h = [s \in SUBSET T |-> h[s]]
  OBVIOUS
<1> HIDE DEF h
<1>7. Iterates(T, f, h)
  BY <1>5, <1>6 DEF Iterates
<1> QED
  BY <1>2, <1>7

LEMMA SumEmpty ==
  ASSUME NEW f
  PROVE  Sum({}, f) = 0
<1>1. IsFiniteSet({})
  BY FS_EmptySet
<1>2. PICK g : Iterates({}, f, g)
  BY <1>1, SolutionExists
<1>3. Sum({}, f) = g[{}]
  BY <1>1, <1>2, SumOfSolution
<1> QED
  BY <1>2, <1>3 DEF Iterates

LEMMA SumFirst ==
  ASSUME NEW S, IsFiniteSet(S), S # {}, NEW f
  PROVE  /\ First(S) \in S
         /\ Sum(S, f) = f[First(S)] + Sum(S \ {First(S)}, f)
<1> DEFINE x == First(S)
           T == S \ {x}
<1>1. x \in S
  BY DEF First
<1>2. IsFiniteSet(T)
  BY FS_Subset
<1>3. PICK g : Iterates(S, f, g)
  BY SolutionExists
<1>4. PICK h : Iterates(T, f, h)
  BY <1>2, SolutionExists
<1>5. Sum(S, f) = g[S]
  BY <1>3, SumOfSolution
<1>6. Sum(T, f) = g[T]
  BY <1>3, <1>4, SumOfSolution
<1>7. g[S] = f[x] + g[T]
  BY <1>3 DEF Iterates
<1> QED
  BY <1>1, <1>5, <1>6, <1>7

\* A sum of integers is an integer, and of natural numbers a natural one.
LEMMA SumType ==
  ASSUME NEW S, IsFiniteSet(S), NEW f, NEW N \in {Nat, Int}, \A x \in S : f[x] \in N
  PROVE  Sum(S, f) \in N
<1> DEFINE Bad == {T \in SUBSET S : Sum(T, f) \notin N}
<1>1. SUFFICES ASSUME Bad # {} PROVE FALSE
  OBVIOUS
<1>2. PICK T \in Bad : \A U \in Bad : U \subseteq T => U = T
  <2>1. Bad \subseteq SUBSET S
    OBVIOUS
  <2> HIDE DEF Bad
  <2> QED
    BY <1>1, <2>1, SmallestSet
<1>3. T # {}
  <2>1. Sum({}, f) \in N
    BY SumEmpty
  <2> QED
    BY <1>2, <2>1
<1>4. IsFiniteSet(T)
  BY FS_Subset
<1> DEFINE x == First(T)
<1>5. x \in T /\ Sum(T, f) = f[x] + Sum(T \ {x}, f)
  BY <1>3, <1>4, SumFirst
<1>6. Sum(T \ {x}, f) \in N /\ f[x] \in N
  BY <1>2, <1>5
<1> HIDE DEF x
<1>7. Sum(T, f) \in N
  BY <1>5, <1>6
<1> QED
  BY <1>2, <1>7

\* Any member may be added last.
LEMMA SumSplit ==
  ASSUME NEW S, IsFiniteSet(S), NEW f, \A y \in S : f[y] \in Int, NEW x \in S
  PROVE  Sum(S, f) = Sum(S \ {x}, f) + f[x]
<1> DEFINE Bad == {T \in SUBSET S : \E y \in T : Sum(T, f) # Sum(T \ {y}, f) + f[y]}
<1>1. SUFFICES ASSUME Bad # {} PROVE FALSE
  OBVIOUS
<1>2. PICK T \in Bad : \A U \in Bad : U \subseteq T => U = T
  <2>1. Bad \subseteq SUBSET S
    OBVIOUS
  <2> HIDE DEF Bad
  <2> QED
    BY <1>1, <2>1, SmallestSet
<1>3. PICK y \in T : Sum(T, f) # Sum(T \ {y}, f) + f[y]
  BY <1>2
<1>4. \A U \in SUBSET T : IsFiniteSet(U) /\ Sum(U, f) \in Int
  BY FS_Subset, SumType
<1> DEFINE z == First(T)
<1>5. z \in T /\ Sum(T, f) = f[z] + Sum(T \ {z}, f)
  BY <1>3, <1>4, SumFirst
<1>6. f[y] \in Int /\ f[z] \in Int
  BY <1>3, <1>5
<1>7. Sum(T \ {z}, f) \in Int /\ Sum(T \ {y}, f) \in Int /\ Sum((T \ {z}) \ {y}, f) \in Int
  BY <1>4
<1> HIDE DEF z, Bad
<1>8. y # z
  <2>1. SUFFICES ASSUME y = z PROVE FALSE
    OBVIOUS
  <2>2. Sum(T, f) = f[y] + Sum(T \ {y}, f)
    BY <1>5, <2>1
  <2> QED
    BY <1>3, <1>6, <1>7, <2>2
<1>9. Sum(T \ {z}, f) = Sum((T \ {z}) \ {y}, f) + f[y]
  <2> USE DEF Bad
  <2>1. T \ {z} \in SUBSET S /\ T \ {z} # T /\ y \in T \ {z}
    BY <1>5, <1>8
  <2> QED
    BY <1>2, <2>1
<1>10. Sum(T \ {y}, f) = Sum((T \ {y}) \ {z}, f) + f[z]
  <2> USE DEF Bad
  <2>1. T \ {y} \in SUBSET S /\ T \ {y} # T /\ z \in T \ {y}
    BY <1>5, <1>8
  <2> QED
    BY <1>2, <2>1
<1>11. Sum(T \ {y}, f) = Sum((T \ {z}) \ {y}, f) + f[z]
  <2>1. (T \ {y}) \ {z} = (T \ {z}) \ {y}
    OBVIOUS
  <2> QED
    BY <1>10, <2>1
<1> QED
  BY <1>3, <1>5, <1>6, <1>7, <1>9, <1>11

\* Functions that agree on the set have one sum.
LEMMA SumSame ==
  ASSUME NEW S, IsFiniteSet(S), NEW f, NEW h, \A x \in S : f[x] = h[x]
  PROVE  Sum(S, f) = Sum(S, h)
<1> DEFINE Bad == {T \in SUBSET S : Sum(T, f) # Sum(T, h)}
<1>1. SUFFICES ASSUME Bad # {} PROVE FALSE
  OBVIOUS
<1>2. PICK T \in Bad : \A U \in Bad : U \subseteq T => U = T
  <2>1. Bad \subseteq SUBSET S
    OBVIOUS
  <2> HIDE DEF Bad
  <2> QED
    BY <1>1, <2>1, SmallestSet
<1>3. T # {}
  <2>1. Sum({}, f) = Sum({}, h)
    BY SumEmpty
  <2> QED
    BY <1>2, <2>1
<1>4. IsFiniteSet(T)
  BY FS_Subset
<1> DEFINE x == First(T)
<1>5. /\ x \in T /\ Sum(T, f) = f[x] + Sum(T \ {x}, f)
      /\ Sum(T, h) = h[x] + Sum(T \ {x}, h)
  BY <1>3, <1>4, SumFirst
<1>6. Sum(T \ {x}, f) = Sum(T \ {x}, h) /\ f[x] = h[x]
  BY <1>2, <1>5
<1> QED
  BY <1>2, <1>5, <1>6

\* Changing one part changes the sum by the same amount.
LEMMA SumUpdate ==
  ASSUME NEW S, IsFiniteSet(S), NEW f, NEW h, NEW x \in S,
         \A y \in S : f[y] \in Int /\ h[y] \in Int,
         \A y \in S \ {x} : h[y] = f[y]
  PROVE  Sum(S, h) = Sum(S, f) - f[x] + h[x]
<1> DEFINE T == S \ {x}
<1>1. IsFiniteSet(T)
  BY FS_Subset
<1>2. Sum(T, f) = Sum(T, h)
  BY <1>1, SumSame
<1>3. Sum(T, f) \in Int
  BY <1>1, SumType
<1>4. Sum(S, f) = Sum(T, f) + f[x] /\ Sum(S, h) = Sum(T, h) + h[x]
  BY SumSplit
<1> QED
  BY <1>2, <1>3, <1>4

\* One more part joins the sum.
LEMMA SumAdd ==
  ASSUME NEW S, IsFiniteSet(S), NEW x, x \notin S, NEW f, NEW h,
         \A y \in S : h[y] = f[y] /\ f[y] \in Int, h[x] \in Int
  PROVE  Sum(S \cup {x}, h) = Sum(S, f) + h[x]
<1> DEFINE T == S \cup {x}
<1>1. IsFiniteSet(T) /\ x \in T /\ T \ {x} = S
  BY FS_AddElement
<1>2. \A y \in T : h[y] \in Int
  OBVIOUS
<1>3. Sum(S, h) = Sum(S, f)
  BY SumSame
<1> HIDE DEF T
<1>4. Sum(T, h) = Sum(T \ {x}, h) + h[x]
  BY <1>1, <1>2, SumSplit
<1> QED
  BY <1>1, <1>3, <1>4 DEF T
-----------------------------------------------------------------------------
(* Totals.                                                                  *)

\* The total of no contributions at all is zero.
LEMMA TotalZero ==
  ASSUME NEW S, IsFiniteSet(S), NEW f, \A x \in S : f[x] = 0
  PROVE  IsTotal(S, f, 0)
<1> DEFINE Bad == {T \in SUBSET S : Sum(T, f) # 0}
<1>1. SUFFICES ASSUME Bad # {} PROVE FALSE
  BY DEF IsTotal
<1>2. PICK T \in Bad : \A U \in Bad : U \subseteq T => U = T
  <2>1. Bad \subseteq SUBSET S
    OBVIOUS
  <2> HIDE DEF Bad
  <2> QED
    BY <1>1, <2>1, SmallestSet
<1>3. T # {}
  <2>1. Sum({}, f) = 0
    BY SumEmpty
  <2> QED
    BY <1>2, <2>1
<1>4. IsFiniteSet(T)
  BY FS_Subset
<1>5. First(T) \in T /\ Sum(T, f) = f[First(T)] + Sum(T \ {First(T)}, f)
  BY <1>3, <1>4, SumFirst
<1>6. Sum(T \ {First(T)}, f) = 0 /\ f[First(T)] = 0
  BY <1>2, <1>5
<1> QED
  BY <1>2, <1>5, <1>6

\* A total of natural numbers is one.
LEMMA TotalNat ==
  ASSUME NEW S, IsFiniteSet(S), NEW f \in [S -> Nat], NEW v, IsTotal(S, f, v)
  PROVE  v \in Nat
BY SumType DEF IsTotal

\* No part exceeds the total.
LEMMA TotalBound ==
  ASSUME NEW S, IsFiniteSet(S), NEW f \in [S -> Nat], NEW v \in Nat,
         IsTotal(S, f, v), NEW x \in S
  PROVE  f[x] <= v
<1>1. IsFiniteSet(S \ {x})
  BY FS_Subset
<1>2. Sum(S \ {x}, f) \in Nat
  BY <1>1, SumType
<1>3. v = Sum(S \ {x}, f) + f[x]
  BY SumSplit DEF IsTotal
<1> QED
  BY <1>2, <1>3

\* Changing one part changes the total by the same amount.
LEMMA TotalUpdate ==
  ASSUME NEW S, IsFiniteSet(S), NEW f \in [S -> Nat], NEW v \in Nat,
         IsTotal(S, f, v), NEW x \in S,
         NEW h \in [S -> Nat], \A y \in S \ {x} : h[y] = f[y],
         NEW u, u = v - f[x] + h[x]
  PROVE  IsTotal(S, h, u)
<1>1. Sum(S, h) = Sum(S, f) - f[x] + h[x]
  BY SumUpdate
<1> QED
  BY <1>1 DEF IsTotal
=============================================================================
